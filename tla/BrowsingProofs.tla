------------------------------ MODULE BrowsingProofs ------------------------------
(***************************************************************************)
(* Proofs about list pages, of any number of requests, rows and changes:   *)
(* a page shows what it is asked for; going through a list with Next shows *)
(* every row that was there all along, once; keyset pages never repeat an  *)
(* unchanged row.                                                          *)
(*                                                                         *)
(* InOrder is a CHOOSE: that there is an order to choose is proved first,  *)
(* by induction over finite sets of rows.                                  *)
(***************************************************************************)
EXTENDS Browsing, FiniteSetTheorems, SequenceTheorems, TLAPS

--------------------------------------------------------------------------------
(* Rows in order *)

\* If a set is good whenever its proper subsets are, finite sets are good.
LEMMA SetInduction ==
  ASSUME NEW S, IsFiniteSet(S), NEW Good,
         \A T \in SUBSET S : (\A U \in SUBSET T : U # T => U \in Good) => T \in Good
  PROVE  \A T \in SUBSET S : T \in Good
  <1> DEFINE Bad == {T \in SUBSET S : T \notin Good}
  <1>1. SUFFICES ASSUME Bad # {} PROVE FALSE
    OBVIOUS
  <1>2. PICK T \in Bad : \A U \in Bad : ~(<<U, T>> \in StrictSubsetOrdering(S))
    <2>1. IsWellFoundedOn(StrictSubsetOrdering(S), SUBSET S)
      BY FS_StrictSubsetOrderingWellFounded, FS_FiniteSubsetsOfFinite
    <2>2. Bad \subseteq SUBSET S
      OBVIOUS
    <2> HIDE DEF Bad
    <2>3. QED
      BY <1>1, <2>1, <2>2, WFMin
  <1>3. ASSUME NEW U \in SUBSET T, U # T PROVE U \in Good
    BY <1>2, <1>3 DEF StrictSubsetOrdering
  <1>4. QED
    BY <1>2, <1>3

\* A set of rows is finite.
LEMMA RowsFinite ==
  ASSUME NEW S, S \subseteq Rows
  PROVE  IsFiniteSet(S) /\ Cardinality(S) \in Nat /\ Cardinality(S) <= Cardinality(Rows)
  BY RowsAssumption, FS_Subset, FS_CardinalityType

\* Ids and the values rows are ordered by are numbers.
LEMMA KeyTypes ==
  ASSUME NEW tb \in Tables, NEW r \in Rows
  PROVE  r \in Nat /\ r # 0 /\ tb[r].key \in Nat
  <1>1. r \in Nat /\ r # 0
    BY RowsAssumption
  <1>2. tb[r] \in [key: Keys, passes: SUBSET Filters \ {{}}] \cup {NoRow}
    BY DEF Tables
  <1>3. tb[r].key \in Keys \/ tb[r].key = 0
    BY <1>2 DEF NoRow
  <1>4. Keys \subseteq Nat
    BY RowsAssumption
  <1>5. tb[r].key \in Nat
    <2>1. CASE tb[r].key \in Keys
      BY <1>4, <2>1, Zenon
    <2>2. CASE tb[r].key = 0
      <3>1. 0 \in Nat
        OBVIOUS
      <3>2. QED
        BY <2>2, <3>1, Zenon
    <2>3. QED
      BY <1>3, <2>1, <2>2, Zenon
  <1>6. QED
    BY <1>1, <1>5

\* Rows are ordered strictly and totally.
LEMMA PrecedesOrder ==
  ASSUME NEW tb \in Tables
  PROVE  /\ \A r \in Rows : ~Precedes(tb, r, r)
         /\ \A r, q \in Rows : r = q \/ Precedes(tb, r, q) \/ Precedes(tb, q, r)
         /\ \A r, q, p \in Rows : Precedes(tb, r, q) /\ Precedes(tb, q, p) => Precedes(tb, r, p)
  <1>1. \A r \in Rows : r \in Nat /\ tb[r].key \in Nat
    BY KeyTypes
  <1>2. QED
    BY <1>1 DEF Precedes

\* Every set of rows has a last one.
LEMMA LastRow ==
  ASSUME NEW tb \in Tables, NEW S, S \subseteq Rows, S # {}
  PROVE  \E m \in S : \A r \in S \ {m} : Precedes(tb, r, m)
  <1> DEFINE Good == {T \in SUBSET S : T # {} => \E m \in T : \A r \in T \ {m} : Precedes(tb, r, m)}
  <1>1. ASSUME NEW T \in SUBSET S, \A U \in SUBSET T : U # T => U \in Good
        PROVE  T \in Good
    <2>1. SUFFICES ASSUME T # {} PROVE \E m \in T : \A r \in T \ {m} : Precedes(tb, r, m)
      OBVIOUS
    <2>2. PICK x \in T : TRUE
      BY <2>1
    <2>3. CASE T \ {x} = {}
      BY <2>2, <2>3
    <2>4. CASE T \ {x} # {}
      <3>1. T \ {x} \in Good
        BY <1>1, <2>2
      <3>2. PICK m \in T \ {x} : \A r \in (T \ {x}) \ {m} : Precedes(tb, r, m)
        BY <2>4, <3>1
      <3>3. Precedes(tb, x, m) \/ Precedes(tb, m, x)
        BY <3>2, PrecedesOrder
      <3>4. CASE Precedes(tb, x, m)
        BY <3>2, <3>4
      <3>5. CASE Precedes(tb, m, x)
        <4>1. \A r \in T \ {x} : Precedes(tb, r, x)
          BY <3>2, <3>5, PrecedesOrder
        <4>2. QED
          BY <4>1
      <3>6. QED
        BY <3>3, <3>4, <3>5
    <2>5. QED
      BY <2>3, <2>4
  <1>2. IsFiniteSet(S)
    BY RowsFinite
  <1>3. \A T \in SUBSET S : T \in Good
    <2> HIDE DEF Good
    <2>1. QED
      BY <1>1, <1>2, SetInduction
  <1>4. S \in Good
    <2> HIDE DEF Good
    <2>1. QED
      BY <1>3
  <1>5. QED
    BY <1>4

Sorted(tb, S, rows) ==
  /\ rows \in [1..Cardinality(S) -> S]
  /\ \A i, j \in DOMAIN rows : i < j => Precedes(tb, rows[i], rows[j])

\* Every set of rows can be put in order: the one without its last row can.
LEMMA SortedExists ==
  ASSUME NEW tb \in Tables, NEW S, S \subseteq Rows
  PROVE  \E rows : Sorted(tb, S, rows)
  <1> DEFINE Good == {T \in SUBSET S : \E rows : Sorted(tb, T, rows)}
  <1>1. ASSUME NEW T \in SUBSET S, \A U \in SUBSET T : U # T => U \in Good
        PROVE  T \in Good
    <2>1. CASE T = {}
      <3>1. Cardinality(T) = 0
        BY <2>1, FS_EmptySet
      <3>2. Sorted(tb, T, [i \in 1..0 |-> 0])
        BY <3>1 DEF Sorted
      <3>3. QED
        BY <3>2
    <2>2. CASE T # {}
      <3>1. PICK m \in T : \A r \in T \ {m} : Precedes(tb, r, m)
        BY <2>2, LastRow
      <3> DEFINE U == T \ {m}
                 n == Cardinality(T)
      <3>2. n \in Nat /\ n > 0 /\ Cardinality(U) = n - 1
        BY RowsFinite, FS_RemoveElement, FS_EmptySet, <2>2
      <3>3. U \in Good
        BY <1>1
      <3>4. PICK rows : Sorted(tb, U, rows)
        BY <3>3
      <3> DEFINE more == [i \in 1..n |-> IF i = n THEN m ELSE rows[i]]
      <3> HIDE DEF n
      <3>5. rows \in [1..(n - 1) -> U] /\ \A i, j \in 1..(n - 1) : i < j => Precedes(tb, rows[i], rows[j])
        BY <3>2, <3>4 DEF Sorted
      <3>6. \A i \in 1..n : i # n => i \in 1..(n - 1)
        BY <3>2
      <3>7. more \in [1..n -> T]
        BY <3>5, <3>6
      <3>8. ASSUME NEW i \in 1..n, NEW j \in 1..n, i < j PROVE Precedes(tb, more[i], more[j])
        <4>1. i # n /\ more[i] = rows[i] /\ rows[i] \in U
          BY <3>2, <3>5, <3>6, <3>8
        <4>2. CASE j = n
          BY <3>1, <4>1, <4>2
        <4>3. CASE j # n
          BY <3>5, <3>6, <3>8, <4>1, <4>3
        <4>4. QED
          BY <4>2, <4>3
      <3>9. Sorted(tb, T, more)
        <4> HIDE DEF more
        <4>1. QED
          BY <3>7, <3>8 DEF Sorted, n
      <3>10. QED
        BY <3>9
    <2>3. QED
      BY <2>1, <2>2
  <1>2. IsFiniteSet(S)
    BY RowsFinite
  <1>3. \A T \in SUBSET S : T \in Good
    <2> HIDE DEF Good
    <2>1. QED
      BY <1>1, <1>2, SetInduction
  <1>4. S \in Good
    <2> HIDE DEF Good
    <2>1. QED
      BY <1>3
  <1>5. QED
    BY <1>4

\* InOrder lists every row of the set once, in order.
LEMMA InOrderFacts ==
  ASSUME NEW tb \in Tables, NEW S, S \subseteq Rows, NEW rows, rows = InOrder(tb, S)
  PROVE  /\ rows \in Seq(S) /\ Len(rows) = Cardinality(S) /\ Len(rows) \in Nat /\ DOMAIN rows = 1..Len(rows)
         /\ \A i \in 1..Len(rows) : rows[i] \in S
         /\ \A i, j \in 1..Len(rows) : i < j <=> Precedes(tb, rows[i], rows[j])
         /\ \A i, j \in 1..Len(rows) : rows[i] = rows[j] => i = j
         /\ \A r \in S : \E i \in 1..Len(rows) : rows[i] = r
  <1> DEFINE n == Cardinality(S)
  <1>1. n \in Nat /\ IsFiniteSet(S)
    BY RowsFinite
  <1>2. rows \in [1..n -> S] /\ \A i, j \in DOMAIN rows : i < j => Precedes(tb, rows[i], rows[j])
    <2>1. \E q \in [1..n -> S] : \A i, j \in DOMAIN q : i < j => Precedes(tb, q[i], q[j])
      BY SortedExists DEF Sorted
    <2>2. QED
      BY <2>1 DEF InOrder
  <1> HIDE DEF n
  <1>3. rows \in Seq(S) /\ Len(rows) = n /\ DOMAIN rows = 1..n
    BY <1>1, <1>2
  <1>4. ASSUME NEW i \in 1..n, NEW j \in 1..n
        PROVE  /\ rows[i] = rows[j] => i = j
               /\ i < j <=> Precedes(tb, rows[i], rows[j])
    <2>1. rows[i] \in Rows /\ rows[j] \in Rows /\ i \in Int /\ j \in Int
      BY <1>1, <1>2
    <2>2. i < j \/ i = j \/ j < i
      BY <2>1
    <2>3. /\ i < j => Precedes(tb, rows[i], rows[j])
          /\ j < i => Precedes(tb, rows[j], rows[i])
      BY <1>2
    <2>4. ~(Precedes(tb, rows[i], rows[j]) /\ Precedes(tb, rows[j], rows[i]))
          /\ ~Precedes(tb, rows[i], rows[i]) /\ ~Precedes(tb, rows[j], rows[j])
      BY <2>1, PrecedesOrder
    <2>5. QED
      BY <2>1, <2>2, <2>3, <2>4
  <1>5. rows \in Injection(1..n, S)
    BY <1>2, <1>4 DEF Injection, IsInjective
  <1>6. IsFiniteSet(1..n) /\ Cardinality(1..n) = n
    BY <1>1, FS_Interval
  <1>7. rows \in Surjection(1..n, S)
    BY <1>1, <1>5, <1>6, FS_Injection DEF n
  <1>8. \A r \in S : \E i \in 1..n : rows[i] = r
    BY <1>7 DEF Surjection
  <1>9. QED
    BY <1>1, <1>2, <1>3, <1>4, <1>8 DEF n

--------------------------------------------------------------------------------
(* Pages *)

Distinct(data) == \A i, j \in DOMAIN data : data[i] = data[j] => i = j
Holds(data, r) == \E i \in DOMAIN data : data[i] = r
PageOK(page) ==
  /\ page \in Pages /\ Distinct(page.data)
  /\ page.next # NoCursor => Len(page.data) = Limit /\ Holds(page.data, page.next.id)

\* What follows cursor c, and what does not.
Follows(r, c)   == c = NoCursor \/ After(table, r, c)
Precedent(r, c) == c = NoCursor \/ ~After(table, r, c)
Beyond(c, d)    == c = NoCursor \/ d.key > c.key \/ (d.key = c.key /\ d.id > c.id)

Current(c, f, u) == c # NoCursor /\ c.id \notin u => c.id \in Matching(table, f) /\ table[c.id].key = c.key

Fresh(page, f, c, u) ==
  /\ \A r \in Rows \ u : Holds(page.data, r) <=> r \in Matching(table, f) /\ Follows(r, c) /\ Precedent(r, page.next)
  /\ Current(page.next, f, u)
  /\ page.next # NoCursor => Beyond(c, page.next)

\* The page of the rows after position start.
Cut(q, start) == FirstOf(SubSeq(q, start + 1, Len(q)))

\* A part of a sequence, empty ones included.
LEMMA SubFacts ==
  ASSUME NEW S, NEW q \in Seq(S), NEW m \in Nat, m > 0, NEW n \in Nat, n <= Len(q), m <= n + 1
  PROVE  /\ SubSeq(q, m, n) \in Seq(S) /\ Len(SubSeq(q, m, n)) = n - m + 1
         /\ \A i \in 1..(n - m + 1) : SubSeq(q, m, n)[i] = q[m + i - 1]
  <1>1. \A i \in m..n : q[i] \in S
    OBVIOUS
  <1>2. m \in Int /\ n \in Int
    OBVIOUS
  <1>3. /\ SubSeq(q, m, n) \in Seq(S)
        /\ Len(SubSeq(q, m, n)) = IF m <= n THEN n - m + 1 ELSE 0
        /\ \A i \in 1..(n - m + 1) : SubSeq(q, m, n)[i] = q[m + i - 1]
    BY <1>1, <1>2, SubSeqProperties
  <1>4. QED
    BY <1>3

\* At most Limit rows, those that follow position start.
LEMMA CutFacts ==
  ASSUME NEW S, NEW q \in Seq(S), NEW start \in Nat, start <= Len(q),
         NEW data, data = Cut(q, start)
  PROVE  /\ data \in Seq(S) /\ Len(data) \in Nat /\ DOMAIN data = 1..Len(data)
         /\ Len(data) = IF Len(q) - start < Limit THEN Len(q) - start ELSE Limit
         /\ \A i \in 1..Len(data) : data[i] = q[start + i]
  <1>1. PICK m, l, rest : m = start + 1 /\ l = Len(q) /\ rest = SubSeq(q, m, l)
    OBVIOUS
  <1>2. m \in Nat /\ m > 0 /\ l \in Nat /\ l <= Len(q) /\ m <= l + 1
    BY <1>1
  <1>3. rest \in Seq(S) /\ Len(rest) = l - m + 1 /\ \A i \in 1..(l - m + 1) : rest[i] = q[m + i - 1]
    BY <1>1, <1>2, SubFacts
  <1>4. Len(rest) = l - start /\ \A i \in 1..Len(rest) : rest[i] = q[start + i]
    <2>1. Len(rest) = l - start
      BY <1>1, <1>2, <1>3
    <2>2. ASSUME NEW i \in 1..Len(rest) PROVE rest[i] = q[start + i]
      <3>1. m + i - 1 = start + i /\ i \in 1..(l - m + 1)
        BY <1>1, <1>2, <1>3
      <3>2. rest[i] = q[m + i - 1]
        BY <1>3, <3>1
      <3>3. QED
        BY <3>1, <3>2
    <2>3. QED
      BY <2>1, <2>2
  <1>5. PICK n : n = IF Len(rest) < Limit THEN Len(rest) ELSE Limit
    OBVIOUS
  <1>6. data = SubSeq(rest, 1, n)
    BY <1>1, <1>5 DEF FirstOf, Cut
  <1>7. n \in Nat /\ n <= Len(rest) /\ Len(rest) \in Nat
    BY <1>3, <1>5, LimitAssumption
  <1>8. data \in Seq(S) /\ Len(data) = n /\ \A i \in 1..n : data[i] = rest[i]
    <2>1. /\ data \in Seq(S) /\ Len(data) = n - 1 + 1
          /\ \A i \in 1..(n - 1 + 1) : data[i] = rest[1 + i - 1]
      BY <1>3, <1>6, <1>7, SubFacts
    <2>2. n - 1 + 1 = n /\ \A i \in 1..n : 1 + i - 1 = i
      BY <1>7
    <2>3. QED
      BY <2>1, <2>2
  <1>9. Len(data) = IF l - start < Limit THEN l - start ELSE Limit
    BY <1>4, <1>5, <1>8
  <1>10. \A i \in 1..n : i \in 1..Len(rest)
    BY <1>7
  <1>11. QED
    BY <1>1, <1>4, <1>7, <1>8, <1>9, <1>10

\* The first page is the one after no row.
LEMMA FirstFacts ==
  ASSUME NEW S, NEW q \in Seq(S)
  PROVE  FirstOf(q) = Cut(q, 0)
  <1>1. SubSeq(q, 1, Len(q)) = q
    BY SubSeqFull
  <1>2. 0 + 1 = 1
    OBVIOUS
  <1>3. QED
    BY <1>1, <1>2 DEF Cut

\* A row comes after the cursor of another where it comes after that row.
LEMMA CursorFacts ==
  ASSUME NEW tb \in Tables, NEW m \in Rows
  PROVE  /\ CursorOf(tb, m).id = m /\ CursorOf(tb, m).key = tb[m].key
         /\ CursorOf(tb, m) # NoCursor
         /\ \A r \in Rows : After(tb, r, CursorOf(tb, m)) <=> Precedes(tb, m, r)
  <1>1. CursorOf(tb, m).id = m /\ CursorOf(tb, m).key = tb[m].key
    BY DEF CursorOf
  <1>2. m # 0
    BY KeyTypes
  <1>3. \A r \in Rows : r \in Nat /\ tb[r].key \in Nat
    BY KeyTypes
  <1>4. QED
    BY <1>1, <1>2, <1>3 DEF NoCursor, After, Precedes

\* A row of a list has a cursor: it is there, so its value is one.
LEMMA CursorType ==
  ASSUME NEW tb \in Tables, NEW f, NEW m \in Matching(tb, f)
  PROVE  CursorOf(tb, m) \in Cursors
  <1>1. m \in Rows /\ f \in tb[m].passes
    BY DEF Matching
  <1>2. tb[m] \in [key: Keys, passes: SUBSET Filters \ {{}}] \cup {NoRow}
    BY <1>1 DEF Tables
  <1>3. tb[m].key \in Keys
    BY <1>1, <1>2 DEF NoRow
  <1>4. QED
    BY <1>1, <1>3 DEF CursorOf, Cursors

\* The page data of q after position start is the last one, or next names its last row.
Ends(q, start, data, next) ==
  \/ next = NoCursor /\ Len(data) = Len(q) - start
  \/ Len(data) = Limit /\ next = CursorOf(table, Last(data))

\* A row comes after a cursor where it comes after the cursor's row, if that is as it was.
LEMMA AfterCursor ==
  ASSUME table \in Tables, NEW c, c.id \in Rows, c.key = table[c.id].key, NEW r \in Rows
  PROVE  After(table, r, c) <=> Precedes(table, c.id, r)
  <1>1. /\ table[c.id].key \in Nat /\ table[r].key \in Nat /\ c.id \in Nat /\ r \in Nat
    BY KeyTypes
  <1>2. QED
    BY <1>1 DEF Precedes, After

\* data and next are the page after position start of q, a list of distinct members of S.
Sliced(S, q, start, data, next) ==
  /\ q \in Seq(S) /\ \A i, j \in 1..Len(q) : q[i] = q[j] => i = j
  /\ start \in Nat /\ start <= Len(q) /\ data = Cut(q, start) /\ Ends(q, start, data, next)

\* Such a page: where its cursor is, and which rows it has.
Slices(S, q, start, data, next) ==
  /\ PageOK([data |-> data, next |-> next])
  /\ next # NoCursor => next.id \in S /\ next.key = table[next.id].key
  /\ next = NoCursor => \A i \in 1..Len(q) : Holds(data, q[i]) <=> start < i
  /\ next # NoCursor => \E k \in 1..Len(q) : /\ start < k /\ q[k] = next.id
                                             /\ \A i \in 1..Len(q) : Holds(data, q[i]) <=> start < i /\ i <= k
  /\ \A r : Holds(data, r) => r \in S

\* A page that begins after position start of the rows S, listed once each.
LEMMA SliceFacts ==
  ASSUME table \in Tables, NEW f, NEW S, S \subseteq Matching(table, f),
         NEW q, NEW start, NEW data, NEW next, Sliced(S, q, start, data, next)
  PROVE  Slices(S, q, start, data, next)
  <1>1. S \subseteq Rows
    BY DEF Matching
  <1>2. /\ Len(q) \in Nat
        /\ \A i \in 1..Len(q) : q[i] \in S
        /\ \A i, j \in 1..Len(q) : q[i] = q[j] => i = j
        /\ q \in Seq(S) /\ start \in Nat /\ start <= Len(q) /\ data = Cut(q, start) /\ Ends(q, start, data, next)
    BY DEF Sliced
  <1>3. PICK n : n = Len(data)
    OBVIOUS
  <1>4. /\ data \in Seq(S) /\ n \in Nat /\ DOMAIN data = 1..n
        /\ n = IF Len(q) - start < Limit THEN Len(q) - start ELSE Limit
        /\ \A i \in 1..n : data[i] = q[start + i]
    BY <1>2, <1>3, CutFacts
  <1>5. Limit \in Nat /\ Limit # 0
    BY LimitAssumption
  <1>6. \A i \in 1..n : start + i \in 1..Len(q)
    BY <1>2, <1>4, <1>5
  <1>7. \A i \in 1..Len(q) : Holds(data, q[i]) <=> start < i /\ i <= start + n
    <2>1. ASSUME NEW i \in 1..Len(q), Holds(data, q[i]) PROVE start < i /\ i <= start + n
      <3>1. PICK j \in 1..n : data[j] = q[i]
        BY <1>4, <2>1 DEF Holds
      <3>2. start + j = i
        BY <1>2, <1>4, <1>6, <3>1
      <3>3. QED
        BY <1>2, <1>4, <3>2
    <2>2. ASSUME NEW i \in 1..Len(q), start < i, i <= start + n PROVE Holds(data, q[i])
      <3>1. PICK j : j = i - start
        OBVIOUS
      <3>2. j \in 1..n /\ start + j = i
        BY <1>2, <1>4, <2>2, <3>1
      <3>3. data[j] = q[i]
        BY <1>4, <3>2
      <3>4. QED
        BY <1>4, <3>2, <3>3 DEF Holds
    <2>3. QED
      BY <2>1, <2>2
  <1>8. Distinct(data)
    <2>1. ASSUME NEW i \in 1..n, NEW j \in 1..n, data[i] = data[j] PROVE i = j
      <3>1. start + i = start + j
        BY <1>2, <1>4, <1>6, <2>1
      <3>2. QED
        BY <1>2, <1>4, <3>1
    <2>2. QED
      BY <1>4, <2>1 DEF Distinct
  <1>9. data \in SeqOf(Rows, Limit)
    <2>1. data \in [1..n -> Rows] /\ n \in 0..Limit
      BY <1>1, <1>4, <1>5
    <2>2. QED
      BY <2>1 DEF SeqOf
  <1>10. \A r : Holds(data, r) => r \in S
    BY <1>2, <1>4, <1>6 DEF Holds
  <1>11. CASE next = NoCursor /\ Len(data) = Len(q) - start
    <2>1. next = NoCursor
      BY <1>11
    <2>2. \A i \in 1..Len(q) : i <= start + n
      BY <1>2, <1>3, <1>4, <1>11
    <2>3. PageOK([data |-> data, next |-> next])
      BY <1>8, <1>9, <2>1 DEF PageOK, Pages
    <2>4. QED
      BY <1>7, <1>10, <2>1, <2>2, <2>3 DEF Slices
  <1>12. CASE Len(data) = Limit /\ next = CursorOf(table, Last(data))
    <2>1. PICK m, k : m = Last(data) /\ k = start + n
      OBVIOUS
    <2>2. n = Limit /\ k \in 1..Len(q) /\ m = q[k] /\ m = data[n] /\ n \in 1..n /\ start < k
      BY <1>2, <1>3, <1>4, <1>5, <1>6, <1>12, <2>1 DEF Last
    <2>3. m \in S /\ m \in Rows /\ m \in Matching(table, f)
      BY <1>1, <1>2, <2>2
    <2>4. next = CursorOf(table, m) /\ next.id = m /\ next.key = table[m].key /\ next # NoCursor
      BY <1>12, <2>1, <2>3, CursorFacts
    <2>5. next \in Cursors
      BY <2>3, <2>4, CursorType
    <2>6. Holds(data, m)
      BY <1>4, <2>2 DEF Holds
    <2>7. PageOK([data |-> data, next |-> next])
      BY <1>3, <1>8, <1>9, <2>2, <2>4, <2>5, <2>6 DEF PageOK, Pages
    <2>8. \A i \in 1..Len(q) : Holds(data, q[i]) <=> start < i /\ i <= k
      BY <1>7, <2>1
    <2>9. QED
      BY <1>10, <2>2, <2>3, <2>4, <2>7, <2>8 DEF Slices
  <1>13. QED
    BY <1>2, <1>11, <1>12 DEF Ends

\* The same of a page of rows in order: it has those that follow up to its cursor.
Paged(S, q, start, data, next) ==
  /\ PageOK([data |-> data, next |-> next])
  /\ next # NoCursor => next.id \in S /\ next.key = table[next.id].key
  /\ \A i \in 1..Len(q) : Holds(data, q[i]) <=> start < i /\ Precedent(q[i], next)
  /\ \A r : Holds(data, r) => r \in S

\* A page that begins after position start of the rows S in order.
LEMMA PageFacts ==
  ASSUME table \in Tables, NEW f, NEW S, S \subseteq Matching(table, f),
         NEW q, q = InOrder(table, S), NEW start \in Nat, start <= Len(q),
         NEW data, data = Cut(q, start),
         NEW next, Ends(q, start, data, next)
  PROVE  Paged(S, q, start, data, next)
  <1>1. S \subseteq Rows
    BY DEF Matching
  <1>2. /\ q \in Seq(S) /\ Len(q) \in Nat
        /\ \A i \in 1..Len(q) : q[i] \in S
        /\ \A i, j \in 1..Len(q) : i < j <=> Precedes(table, q[i], q[j])
        /\ \A i, j \in 1..Len(q) : q[i] = q[j] => i = j
    <2>1. q \in Seq(S) /\ Len(q) \in Nat
      BY <1>1, InOrderFacts
    <2>2. \A i \in 1..Len(q) : q[i] \in S
      BY <1>1, InOrderFacts
    <2>3. \A i, j \in 1..Len(q) : i < j <=> Precedes(table, q[i], q[j])
      BY <1>1, InOrderFacts
    <2>4. \A i, j \in 1..Len(q) : q[i] = q[j] => i = j
      BY <1>1, InOrderFacts
    <2>5. QED
      BY <2>1, <2>2, <2>3, <2>4
  <1>3. Slices(S, q, start, data, next)
    <2>1. Sliced(S, q, start, data, next)
      BY <1>2 DEF Sliced
    <2>2. QED
      BY <2>1, SliceFacts
  <1>4. CASE next = NoCursor
    BY <1>3, <1>4 DEF Precedent, Slices, Paged
  <1>5. CASE next # NoCursor
    <2>1. PICK k \in 1..Len(q) : q[k] = next.id /\ \A i \in 1..Len(q) : Holds(data, q[i]) <=> start < i /\ i <= k
      BY <1>3, <1>5 DEF Slices
    <2>2. ASSUME NEW i \in 1..Len(q) PROVE Precedent(q[i], next) <=> i <= k
      <3>1. q[i] \in Rows /\ next.id \in Rows /\ next.key = table[next.id].key
        BY <1>1, <1>2, <1>3, <1>5 DEF Slices
      <3>2. After(table, q[i], next) <=> Precedes(table, next.id, q[i])
        BY <3>1, AfterCursor
      <3>3. Precedes(table, next.id, q[i]) <=> k < i
        BY <1>2, <2>1
      <3>4. QED
        BY <1>2, <1>5, <3>2, <3>3 DEF Precedent
    <2>3. QED
      BY <1>3, <2>1, <2>2 DEF Slices, Paged
  <1>6. QED
    BY <1>4, <1>5

\* paginateMany: what matches and follows the cursor, up to the next one.
LEMMA KeysetFacts ==
  ASSUME table \in Tables, NEW f, NEW c \in Cursors \cup {NoCursor},
         NEW page, page = KeysetPage(table, f, c)
  PROVE  PageOK(page) /\ Fresh(page, f, c, {})
  <1> DEFINE rest == {r \in Matching(table, f) : c = NoCursor \/ After(table, r, c)}
  <1>1. PICK S, q, data, next :
          /\ S = rest /\ q = InOrder(table, S) /\ data = FirstOf(q)
          /\ next = IF Len(data) = Limit THEN CursorOf(table, Last(data)) ELSE NoCursor
    OBVIOUS
  <1>2. page = [data |-> data, next |-> next]
    BY <1>1 DEF KeysetPage
  <1>3. S \subseteq Matching(table, f) /\ S \subseteq Rows /\ \A r \in Rows : r \in S <=> r \in Matching(table, f) /\ Follows(r, c)
    BY <1>1 DEF Matching, Follows
  <1>4. /\ q \in Seq(S) /\ Len(q) \in Nat
        /\ \A r \in S : \E i \in 1..Len(q) : q[i] = r
    <2>1. S \subseteq Rows /\ q = InOrder(table, S)
      BY <1>1, <1>3, Zenon
    <2>2. QED
      BY <2>1, InOrderFacts
  <1>5. data = Cut(q, 0)
    BY <1>1, <1>4, FirstFacts
  <1>6. Len(data) = IF Len(q) - 0 < Limit THEN Len(q) - 0 ELSE Limit
    BY <1>4, <1>5, CutFacts
  <1>7. Ends(q, 0, data, next)
    <2>1. CASE Len(data) = Limit
      BY <1>1, <2>1 DEF Ends
    <2>2. CASE Len(data) # Limit
      BY <1>1, <1>6, <2>2 DEF Ends
    <2>3. QED
      BY <2>1, <2>2
  <1>8. 0 \in Nat /\ 0 <= Len(q)
    BY <1>4
  <1>9. /\ PageOK([data |-> data, next |-> next])
        /\ next # NoCursor => next.id \in S /\ next.key = table[next.id].key
        /\ \A i \in 1..Len(q) : Holds(data, q[i]) <=> 0 < i /\ Precedent(q[i], next)
        /\ \A r : Holds(data, r) => r \in S
    <2> HIDE DEF rest
    <2>1. PICK start : start = 0
      OBVIOUS
    <2>2. start \in Nat /\ start <= Len(q) /\ data = Cut(q, start) /\ Ends(q, start, data, next)
      BY <1>5, <1>7, <1>8, <2>1
    <2>3. Paged(S, q, start, data, next)
      BY <1>1, <1>3, <2>2, PageFacts, Zenon
    <2>4. QED
      BY <2>1, <2>3 DEF Paged
  <1>10. page.data = data /\ page.next = next
    BY <1>2
  <1>11. \A r \in Rows : Holds(data, r) <=> r \in Matching(table, f) /\ Follows(r, c) /\ Precedent(r, next)
    BY <1>3, <1>4, <1>9
  <1>12. ASSUME next # NoCursor PROVE Beyond(c, next)
    <2>1. next.id \in S /\ next.key = table[next.id].key
      BY <1>9, <1>12
    <2>2. c = NoCursor \/ After(table, next.id, c)
      BY <1>3, <2>1 DEF Follows
    <2>3. QED
      BY <2>1, <2>2 DEF Beyond, After
  <1>13. Current(next, f, {})
    BY <1>3, <1>9 DEF Current
  <1>14. QED
    BY <1>2, <1>9, <1>10, <1>11, <1>12, <1>13 DEF Fresh

\* A listing has every row of the set once, by value.
LEMMA ListingFacts ==
  ASSUME NEW tb \in Tables, NEW S, S \subseteq Rows, NEW rows \in Listings(tb, S)
  PROVE  /\ rows \in Seq(S) /\ Len(rows) \in Nat /\ DOMAIN rows = 1..Len(rows)
         /\ \A i \in 1..Len(rows) : rows[i] \in S
         /\ \A i, j \in 1..Len(rows) : i < j => tb[rows[i]].key <= tb[rows[j]].key
         /\ \A i, j \in 1..Len(rows) : rows[i] = rows[j] => i = j
         /\ \A r \in S : \E i \in 1..Len(rows) : rows[i] = r
  <1> DEFINE n == Cardinality(S)
  <1>1. n \in Nat /\ IsFiniteSet(S)
    BY RowsFinite
  <1>2. /\ rows \in [1..n -> S] /\ IsInjective(rows)
        /\ \A i, j \in DOMAIN rows : i < j => tb[rows[i]].key <= tb[rows[j]].key
    BY DEF Listings
  <1> HIDE DEF n
  <1>3. rows \in Seq(S) /\ Len(rows) = n /\ DOMAIN rows = 1..n
    BY <1>1, <1>2
  <1>4. rows \in Injection(1..n, S)
    BY <1>2 DEF Injection
  <1>5. IsFiniteSet(1..n) /\ Cardinality(1..n) = n
    BY <1>1, FS_Interval
  <1>6. rows \in Surjection(1..n, S)
    BY <1>1, <1>4, <1>5, FS_Injection DEF n
  <1>7. \A r \in S : \E i \in 1..n : rows[i] = r
    BY <1>6 DEF Surjection
  <1>8. \A i, j \in 1..n : rows[i] = rows[j] => i = j
    BY <1>2, <1>3 DEF IsInjective
  <1>9. QED
    BY <1>1, <1>2, <1>3, <1>7, <1>8

\* The page of paginateRows is one, and goes on where the cursor points if the cursor's row
\* is as it was, but for rows v without which no two rows have the same value.
LEMMA RowsFacts ==
  ASSUME table \in Tables, NEW f, NEW c \in Cursors \cup {NoCursor},
         NEW page \in RowsPages(table, f, c), NEW v
  PROVE  /\ PageOK(page)
         /\ /\ \A r, q \in Matching(table, f) \ v : table[r].key = table[q].key => r = q
            /\ \A r \in Rows : r \in v => ~Holds(page.data, r)
            /\ c # NoCursor => c.id \notin v /\ Current(c, f, v)
            => Fresh(page, f, c, v)
  <1>1. PICK S, q : S = Matching(table, f) /\ q \in Listings(table, S) /\ page = RowsPage(table, q, c)
    BY DEF RowsPages
  <1>2. S \subseteq Matching(table, f) /\ S \subseteq Rows
    BY <1>1 DEF Matching
  <1>3. /\ q \in Seq(S) /\ Len(q) \in Nat /\ DOMAIN q = 1..Len(q)
        /\ \A i \in 1..Len(q) : q[i] \in S
        /\ \A i, j \in 1..Len(q) : i < j => table[q[i]].key <= table[q[j]].key
        /\ \A i, j \in 1..Len(q) : q[i] = q[j] => i = j
        /\ \A r \in S : \E i \in 1..Len(q) : q[i] = r
    BY <1>1, <1>2, ListingFacts
  <1>4. PICK start : start = IF \E i \in DOMAIN q : q[i] = c.id THEN CHOOSE i \in DOMAIN q : q[i] = c.id ELSE 0
    OBVIOUS
  <1>5. PICK data : data = Cut(q, start)
    OBVIOUS
  <1>6. PICK next : next = IF start + Limit < Len(q) THEN CursorOf(table, Last(data)) ELSE NoCursor
    OBVIOUS
  <1>7. page = [data |-> data, next |-> next]
    BY <1>1, <1>4, <1>5, <1>6 DEF RowsPage, Cut
  <1>8. /\ start \in Nat /\ start <= Len(q)
        /\ c.id \in S => start \in 1..Len(q) /\ q[start] = c.id
        /\ c.id \notin S => start = 0
    <2>1. CASE c.id \in S
      <3>1. \E i \in DOMAIN q : q[i] = c.id
        BY <1>3, <2>1
      <3>2. start \in DOMAIN q /\ q[start] = c.id
        BY <1>4, <3>1
      <3>3. QED
        BY <1>3, <2>1, <3>2
    <2>2. CASE c.id \notin S
      <3>1. ~\E i \in DOMAIN q : q[i] = c.id
        BY <1>3, <2>2
      <3>2. start = 0
        BY <1>4, <3>1
      <3>3. QED
        BY <1>3, <2>2, <3>2
    <2>3. QED
      BY <2>1, <2>2
  <1>9. Len(data) = IF Len(q) - start < Limit THEN Len(q) - start ELSE Limit
    <2>1. q \in Seq(S) /\ start \in Nat /\ start <= Len(q)
      BY <1>3, <1>8
    <2>2. QED
      BY <1>5, <2>1, CutFacts, Zenon
  <1>10. Ends(q, start, data, next)
    <2>1. Len(q) \in Nat /\ start \in Nat /\ start <= Len(q) /\ Limit \in Nat
      BY <1>3, <1>8, LimitAssumption
    <2>2. CASE start + Limit < Len(q)
      <3>1. next = CursorOf(table, Last(data))
        BY <1>6, <2>2
      <3>2. Len(data) = Limit
        BY <1>9, <2>1, <2>2
      <3>3. QED
        BY <3>1, <3>2 DEF Ends
    <2>3. CASE ~(start + Limit < Len(q))
      <3>1. next = NoCursor
        BY <1>6, <2>3
      <3>2. Len(data) = Len(q) - start
        BY <1>9, <2>1, <2>3
      <3>3. QED
        BY <3>1, <3>2 DEF Ends
    <2>4. QED
      BY <2>2, <2>3
  <1>11. /\ PageOK([data |-> data, next |-> next])
         /\ next # NoCursor => next.id \in S /\ next.key = table[next.id].key
         /\ next = NoCursor => \A i \in 1..Len(q) : Holds(data, q[i]) <=> start < i
         /\ next # NoCursor => \E k \in 1..Len(q) : /\ start < k /\ q[k] = next.id
                                                    /\ \A i \in 1..Len(q) : Holds(data, q[i]) <=> start < i /\ i <= k
         /\ \A r : Holds(data, r) => r \in S
    <2>1. Sliced(S, q, start, data, next)
      BY <1>3, <1>5, <1>8, <1>10 DEF Sliced
    <2>2. Slices(S, q, start, data, next)
      BY <1>2, <2>1, SliceFacts
    <2>3. QED
      BY <2>2 DEF Slices
  <1>12. page.data = data /\ page.next = next
    BY <1>7
  <1>13. ASSUME \A r, p \in Matching(table, f) \ v : table[r].key = table[p].key => r = p,
                \A r \in Rows : r \in v => ~Holds(data, r),
                c # NoCursor => c.id \notin v /\ Current(c, f, v)
         PROVE  Fresh(page, f, c, v)
    <2>1. ASSUME NEW i \in 1..Len(q), NEW j \in 1..Len(q), q[i] \notin v, q[j] \notin v
          PROVE  i < j <=> Precedes(table, q[i], q[j])
      <3>1. q[i] \in S /\ q[j] \in S /\ q[i] \in Rows /\ q[j] \in Rows
        BY <1>2, <1>3
      <3>2. table[q[i]].key \in Nat /\ table[q[j]].key \in Nat /\ q[i] \in Nat /\ q[j] \in Nat
        BY <3>1, KeyTypes
      <3>3. table[q[i]].key = table[q[j]].key => i = j
        BY <1>1, <1>3, <1>13, <2>1, <3>1
      <3>4. /\ i < j => table[q[i]].key <= table[q[j]].key
            /\ j < i => table[q[j]].key <= table[q[i]].key
        BY <1>3
      <3>5. i \in Int /\ j \in Int
        OBVIOUS
      <3>6. CASE i = j
        BY <3>2, <3>5, <3>6 DEF Precedes
      <3>7. CASE i < j
        BY <3>2, <3>3, <3>4, <3>5, <3>7 DEF Precedes
      <3>8. CASE j < i
        BY <3>2, <3>3, <3>4, <3>5, <3>8 DEF Precedes
      <3>9. QED
        BY <3>5, <3>6, <3>7, <3>8
    <2>2. ASSUME NEW i \in 1..Len(q), q[i] \notin v PROVE start < i <=> Follows(q[i], c)
      <3>1. q[i] \in Rows
        BY <1>2, <1>3
      <3>2. CASE c = NoCursor
        <4>1. c.id \notin S
          BY <3>2, <1>2, RowsAssumption DEF NoCursor
        <4>2. QED
          BY <1>8, <3>2, <4>1 DEF Follows
      <3>3. CASE c # NoCursor
        <4>1. c.id \in S /\ c.key = table[c.id].key /\ c.id \in Rows /\ c.id \notin v
          BY <1>1, <1>2, <1>13, <3>3 DEF Current
        <4>2. start \in 1..Len(q) /\ q[start] = c.id
          BY <1>8, <4>1
        <4>3. start < i <=> Precedes(table, c.id, q[i])
          BY <2>1, <2>2, <4>1, <4>2
        <4>4. After(table, q[i], c) <=> Precedes(table, c.id, q[i])
          BY <3>1, <4>1, AfterCursor
        <4>5. QED
          BY <3>3, <4>3, <4>4 DEF Follows
      <3>4. QED
        BY <3>2, <3>3
    <2>3. ASSUME NEW i \in 1..Len(q), q[i] \notin v
          PROVE  Holds(data, q[i]) <=> start < i /\ Precedent(q[i], next)
      <3>1. CASE next = NoCursor
        BY <1>11, <3>1 DEF Precedent
      <3>2. CASE next # NoCursor
        <4>1. PICK k \in 1..Len(q) : /\ start < k /\ q[k] = next.id
                                     /\ \A j \in 1..Len(q) : Holds(data, q[j]) <=> start < j /\ j <= k
          BY <1>11, <3>2
        <4>2. Holds(data, q[k]) /\ q[k] \in Rows /\ q[i] \in Rows
          BY <1>2, <1>3, <4>1
        <4>3. q[k] \notin v
          BY <1>13, <4>2
        <4>4. k < i <=> Precedes(table, q[k], q[i])
          BY <2>1, <2>3, <4>3
        <4>5. After(table, q[i], next) <=> Precedes(table, next.id, q[i])
          BY <1>11, <3>2, <4>1, <4>2, AfterCursor
        <4>6. Precedent(q[i], next) <=> ~(k < i)
          BY <3>2, <4>1, <4>4, <4>5 DEF Precedent
        <4>7. QED
          BY <4>1, <4>6
      <3>3. QED
        BY <3>1, <3>2
    <2>4. ASSUME NEW r \in Rows \ v
          PROVE  Holds(data, r) <=> r \in S /\ Follows(r, c) /\ Precedent(r, next)
      <3>1. CASE r \notin S
        BY <1>11, <3>1
      <3>2. CASE r \in S
        <4>1. PICK i \in 1..Len(q) : q[i] = r
          BY <1>3, <3>2
        <4>2. (Holds(data, r) <=> start < i /\ Precedent(r, next)) /\ (start < i <=> Follows(r, c))
          BY <2>2, <2>3, <4>1
        <4>3. QED
          BY <3>2, <4>2
      <3>3. QED
        BY <3>1, <3>2
    <2>5. ASSUME next # NoCursor PROVE Beyond(c, next)
      <3>1. PICK k \in 1..Len(q) : start < k /\ q[k] = next.id /\ next.key = table[next.id].key /\ Holds(data, q[k])
        BY <1>11, <2>5
      <3>2. q[k] \notin v
        BY <1>2, <1>3, <1>13, <3>1
      <3>3. Follows(next.id, c)
        BY <2>2, <3>1, <3>2
      <3>4. QED
        BY <3>1, <3>3 DEF Follows, After, Beyond
    <2>6. Current(next, f, v)
      BY <1>1, <1>11 DEF Current
    <2>7. QED
      BY <1>1, <1>12, <2>4, <2>5, <2>6 DEF Fresh
  <1>14. QED
    BY <1>7, <1>11, <1>12, <1>13

--------------------------------------------------------------------------------
(* What is asked for: only the shape of the state of the hook is used *)

\* A request is a record with these fields, and has read something only if there is one.
Shape(r) ==
  /\ r.op = "none" => r.has = {}
  /\ r \in [op: {r.op}, filter: {r.filter}, cursor: {r.cursor}, has: {r.has}, cancelled: {r.cancelled},
            page: {r.page}, total: {r.total}, touched: {r.touched}, overlaps: {r.overlaps}]

Shapes ==
  /\ req = [s \in Slots |-> req[s]] /\ \A s \in Slots : Shape(req[s])
  /\ stack \in Seq({stack[i] : i \in DOMAIN stack})

\* The cursor of request r is that of the page the stack will have on top.
Fits(r) ==
  /\ r.op \in {"filter", "next", "previous", "refresh"}
  /\ r.op = "filter" => r.cursor = NoCursor
  /\ r.op = "previous" => Len(stack) >= 2 /\ r.cursor = stack[Len(stack) - 1]
  /\ r.op = "refresh" => r.cursor = Top

\* A request that overlaps with no other is alone, and for the filters of the page.
Alone ==
  \A s \in Underway : ~req[s].overlaps =>
    Underway = {s} /\ req[s].filter = filter /\ Fits(req[s])

IInv == Shapes /\ Alone /\ ShownIsAskedFor

--------------------------------------------------------------------------------
\* What a request says besides its page and its count.
SameAim(r, q) ==
  /\ r.op = q.op /\ r.filter = q.filter /\ r.cursor = q.cursor
  /\ r.cancelled = q.cancelled /\ r.overlaps = q.overlaps

\* An empty slot.
LEMMA UnusedShape == Shape(Unused) /\ Unused.op = "none" /\ Unused.cancelled = FALSE
  BY DEF Shape, Unused

\* The positions of a sequence.
LEMMA StackFacts ==
  ASSUME NEW S, NEW q \in Seq(S)
  PROVE  /\ Len(q) \in Nat /\ DOMAIN q = 1..Len(q)
         /\ q = <<>> <=> Len(q) = 0
  OBVIOUS

\* Steps that leave the hook alone and no request's aim different.
LEMMA AimsKept ==
  ASSUME IInv, UNCHANGED <<filter, shown, stack, upset>>, Shapes', \A s \in Slots : SameAim(req'[s], req[s])
  PROVE  IInv'
  <1>1. Underway' = Underway
    BY DEF Underway, SameAim
  <1>2. UNCHANGED <<filter, shown, stack, upset>>
    OBVIOUS
  <1>3. Alone'
    <2>1. ASSUME NEW s \in Underway, ~req'[s].overlaps
          PROVE  Underway' = {s} /\ req'[s].filter = filter' /\ Fits(req[s])'
      <3>1. s \in Slots
        BY DEF Underway
      <3>2. SameAim(req'[s], req[s])
        BY <3>1
      <3>3. Underway = {s} /\ req[s].filter = filter /\ Fits(req[s])
        BY <2>1, <3>2 DEF IInv, Alone, SameAim
      <3>4. QED
        BY <1>1, <1>2, <3>2, <3>3 DEF SameAim, Fits, Top
    <2>2. QED
      BY <1>1, <2>1 DEF Alone
  <1>4. ShownIsAskedFor'
    BY <1>1, <1>2 DEF IInv, ShownIsAskedFor, Top
  <1>5. QED
    BY <1>3, <1>4 DEF IInv

\* The request of slot s becomes r.
LEMMA BecomesShape ==
  ASSUME Shapes, NEW s \in Slots, NEW r, Shape(r), req' = [req EXCEPT ![s] = r], stack' = stack
  PROVE  Shapes' /\ req'[s] = r /\ \A t \in Slots \ {s} : req'[t] = req[t]
  <1>1. req' = [t \in Slots |-> req'[t]] /\ req'[s] = r /\ \A t \in Slots \ {s} : req'[t] = req[t]
    BY DEF Shapes
  <1>2. \A t \in Slots : Shape(req'[t])
    BY <1>1 DEF Shapes
  <1>3. QED
    BY <1>1, <1>2 DEF Shapes, Shape

\* A row is marked as changed.
LEMMA TouchedShape ==
  ASSUME NEW r, Shape(r), NEW touched
  PROVE  /\ Shape([r EXCEPT !.touched = touched])
         /\ SameAim([r EXCEPT !.touched = touched], r)
  <1> DEFINE q == [r EXCEPT !.touched = touched]
  <1>1. q \in [op: {r.op}, filter: {r.filter}, cursor: {r.cursor}, has: {r.has}, cancelled: {r.cancelled},
               page: {r.page}, total: {r.total}, touched: {touched}, overlaps: {r.overlaps}]
    BY DEF Shape
  <1> HIDE DEF q
  <1>2. Shape(q) /\ SameAim(q, r)
    BY <1>1 DEF Shape, SameAim
  <1>3. QED
    BY <1>2 DEF q

\* A page is read.
LEMMA ReadShape ==
  ASSUME NEW r, Shape(r), r.op # "none", NEW page, NEW total, NEW has
  PROVE  /\ Shape([r EXCEPT !.page = page, !.has = has, !.total = total])
         /\ SameAim([r EXCEPT !.page = page, !.has = has, !.total = total], r)
  <1> DEFINE q == [r EXCEPT !.page = page, !.has = has, !.total = total]
  <1>1. q \in [op: {r.op}, filter: {r.filter}, cursor: {r.cursor}, has: {has}, cancelled: {r.cancelled},
               page: {page}, total: {total}, touched: {r.touched}, overlaps: {r.overlaps}]
    BY DEF Shape
  <1> HIDE DEF q
  <1>2. Shape(q) /\ SameAim(q, r)
    BY <1>1 DEF Shape, SameAim
  <1>3. QED
    BY <1>2 DEF q

\* The rows are counted.
LEMMA CountedShape ==
  ASSUME NEW r, Shape(r), r.op # "none", NEW total, NEW has
  PROVE  /\ Shape([r EXCEPT !.total = total, !.has = has])
         /\ SameAim([r EXCEPT !.total = total, !.has = has], r)
  <1> DEFINE q == [r EXCEPT !.total = total, !.has = has]
  <1>1. q \in [op: {r.op}, filter: {r.filter}, cursor: {r.cursor}, has: {has}, cancelled: {r.cancelled},
               page: {r.page}, total: {total}, touched: {r.touched}, overlaps: {r.overlaps}]
    BY DEF Shape
  <1> HIDE DEF q
  <1>2. Shape(q) /\ SameAim(q, r)
    BY <1>1 DEF Shape, SameAim
  <1>3. QED
    BY <1>2 DEF q

\* A change of a row changes nothing of what requests ask for.
LEMMA ChangeStep ==
  ASSUME IInv, Change
  PROVE  IInv'
  <1>1. PICK x \in Rows :
          req' = [s \in Slots |->
            IF req[s].has = {} THEN req[s] ELSE [req[s] EXCEPT !.touched = @ \cup {x}]]
    BY DEF Change
  <1>2. UNCHANGED <<filter, shown, stack, upset>>
    BY DEF Change
  <1>3. \A s \in Slots : Shape(req[s])
    BY DEF IInv, Shapes
  <1>4. ASSUME NEW s \in Slots
        PROVE  Shape(req'[s]) /\ SameAim(req'[s], req[s])
    <2>1. CASE req[s].has = {}
      BY <1>1, <1>3, <2>1 DEF SameAim
    <2>2. CASE req[s].has # {}
      <3>1. req'[s] = [req[s] EXCEPT !.touched = req[s].touched \cup {x}]
        BY <1>1, <2>2
      <3>2. PICK q, a : q = req[s] /\ req'[s] = [q EXCEPT !.touched = a]
        BY <3>1
      <3>3. Shape([q EXCEPT !.touched = a]) /\ SameAim([q EXCEPT !.touched = a], q)
        BY <1>3, <3>2, TouchedShape
      <3>4. QED
        BY <3>2, <3>3
    <2>3. QED
      BY <2>1, <2>2
  <1>5. Shapes'
    <2>1. req' = [s \in Slots |-> req'[s]]
      BY <1>1
    <2>2. \A s \in Slots : Shape(req'[s])
      BY <1>4
    <2>3. QED
      BY <1>2, <2>1, <2>2 DEF IInv, Shapes, Shape
  <1>6. QED
    BY <1>2, <1>4, <1>5, AimsKept

\* Reads and counts change nothing of what requests ask for.
LEMMA ReadStep ==
  ASSUME IInv, NEW s \in Slots, ReadPage(s) \/ Count(s) \/ Refuse(s)
  PROVE  IInv'
  <1>1. UNCHANGED <<filter, shown, stack, upset>>
    BY DEF ReadPage, Count, Refuse, hook
  <1>2. Shapes /\ Shape(req[s]) /\ req[s].op # "none"
    BY DEF IInv, Shapes, ReadPage, Count, Refuse
  <1>3. \E q : Shape(q) /\ SameAim(q, req[s]) /\ req' = [req EXCEPT ![s] = q]
    <2>1. CASE ReadPage(s)
      <3>1. PICK page, has, total :
              /\ req' = [req EXCEPT ![s].page = page, ![s].has = has, ![s].total = total]
        BY <2>1 DEF ReadPage
      <3>2. req' = [req EXCEPT ![s] = [req[s] EXCEPT !.page = page, !.has = has, !.total = total]]
        BY <3>1 DEF IInv, Shapes
      <3>3. QED
        BY <1>2, <3>2, ReadShape
    <2>2. CASE Count(s)
      <3>1. PICK has, total : has = req[s].has \cup {"total"} /\ total = Total(table, req[s].filter)
        OBVIOUS
      <3>2. req' = [req EXCEPT ![s] = [req[s] EXCEPT !.total = total, !.has = has]]
        BY <2>2, <3>1 DEF Count
      <3>3. QED
        BY <1>2, <3>2, CountedShape
    <2>3. CASE Refuse(s)
      <3>1. PICK page, has, total :
              /\ req' = [req EXCEPT ![s].page = page, ![s].total = total, ![s].has = has]
        BY <2>3 DEF Refuse
      <3>2. req' = [req EXCEPT ![s] = [req[s] EXCEPT !.page = page, !.has = has, !.total = total]]
        BY <3>1 DEF IInv, Shapes
      <3>3. QED
        BY <1>2, <3>2, ReadShape
    <2>4. QED
      BY <2>1, <2>2, <2>3
  <1>4. PICK q : Shape(q) /\ SameAim(q, req[s]) /\ req' = [req EXCEPT ![s] = q]
    BY <1>3
  <1>5. Shapes' /\ req'[s] = q /\ \A t \in Slots \ {s} : req'[t] = req[t]
    BY <1>1, <1>2, <1>4, BecomesShape
  <1>6. \A t \in Slots : SameAim(req'[t], req[t])
    BY <1>4, <1>5 DEF SameAim
  <1>7. QED
    BY <1>1, <1>5, <1>6, AimsKept
--------------------------------------------------------------------------------
(* Requests that are sent *)

\* Request q asks for cursor c of filter f with operation op.
Asks(q, op, f, c, overlaps) ==
  Shape(q) /\ q.op = op /\ q.filter = f /\ q.cursor = c /\ q.overlaps = overlaps /\ q.cancelled = FALSE

\* A new request.
LEMMA SentShape ==
  ASSUME NEW op, NEW f, NEW c, NEW overlaps
  PROVE  Asks([Unused EXCEPT !.op = op, !.filter = f, !.cursor = c, !.overlaps = overlaps], op, f, c, overlaps)
  <1> DEFINE q == [Unused EXCEPT !.op = op, !.filter = f, !.cursor = c, !.overlaps = overlaps]
  <1>1. q \in [op: {op}, filter: {f}, cursor: {c}, has: {{}}, cancelled: {FALSE},
               page: {[data |-> <<>>, next |-> NoCursor]}, total: {0},
               touched: {{}}, overlaps: {overlaps}]
    BY DEF Unused
  <1> HIDE DEF q
  <1>2. Asks(q, op, f, c, overlaps)
    BY <1>1 DEF Shape, Asks
  <1>3. QED
    BY <1>2 DEF q

\* Request q is request r, but for what it overlaps with and whether it is cancelled.
Overlapped(q, r, a, b) ==
  Shape(q) /\ q.op = r.op /\ q.overlaps = a /\ q.cancelled = b

\* A request that another is sent beside.
LEMMA OverlappedShape ==
  ASSUME NEW r, Shape(r), NEW a, NEW b
  PROVE  Overlapped([r EXCEPT !.overlaps = a, !.cancelled = b], r, a, b)
  <1> DEFINE q == [r EXCEPT !.overlaps = a, !.cancelled = b]
  <1>1. q \in [op: {r.op}, filter: {r.filter}, cursor: {r.cursor}, has: {r.has}, cancelled: {b},
               page: {r.page}, total: {r.total}, touched: {r.touched}, overlaps: {a}]
    BY DEF Shape
  <1> HIDE DEF q
  <1>2. Overlapped(q, r, a, b)
    BY <1>1 DEF Shape, Overlapped
  <1>3. QED
    BY <1>2 DEF q

\* A request sent beside all those that will be answered is alone, or they overlap.
LEMMA SendStep ==
  ASSUME IInv, NEW s \in Slots, NEW op \in {"filter", "next", "previous", "refresh"}, NEW c, NEW cancelled,
         Send(s, op, filter', c, Underway \ cancelled, cancelled),
         UNCHANGED <<shown, stack, upset>>,
         op = "filter" => c = NoCursor,
         op = "previous" => Len(stack) >= 2 /\ c = stack[Len(stack) - 1],
         op = "refresh" => c = Top
  PROVE  IInv'
  <1> DEFINE others == Underway \ cancelled
  <1>1. req' = [t \in Slots |->
          IF t = s THEN [Unused EXCEPT !.op = op, !.filter = filter', !.cursor = c, !.overlaps = others # {}]
          ELSE [req[t] EXCEPT !.overlaps = @ \/ t \in others, !.cancelled = @ \/ t \in cancelled]]
    BY DEF Send
  <1>2. PICK new, f, o :
          /\ f = filter' /\ o = (others # {})
          /\ new = [Unused EXCEPT !.op = op, !.filter = f, !.cursor = c, !.overlaps = o]
    OBVIOUS
  <1>3. /\ Shape(new) /\ req'[s] = new
        /\ new.op = op /\ new.filter = f /\ new.cursor = c /\ new.overlaps = o /\ new.cancelled = FALSE
    <2>1. Asks(new, op, f, c, o)
      BY <1>2, SentShape
    <2>2. req'[s] = new
      BY <1>1, <1>2
    <2>3. QED
      BY <1>2, <2>1, <2>2 DEF Asks
  <1>4. ASSUME NEW t \in Slots \ {s}
        PROVE  /\ Shape(req'[t]) /\ req'[t].op = req[t].op
               /\ req'[t].overlaps = (req[t].overlaps \/ t \in others)
               /\ req'[t].cancelled = (req[t].cancelled \/ t \in cancelled)
    <2>1. PICK q, a, b : /\ q = req[t] /\ a = (req[t].overlaps \/ t \in others)
                         /\ b = (req[t].cancelled \/ t \in cancelled)
                         /\ req'[t] = [q EXCEPT !.overlaps = a, !.cancelled = b]
      BY <1>1, <1>4
    <2>2. Shape(q)
      BY <2>1, <1>4 DEF IInv, Shapes
    <2>3. Overlapped([q EXCEPT !.overlaps = a, !.cancelled = b], q, a, b)
      BY <2>2, OverlappedShape
    <2>4. QED
      BY <2>1, <2>3 DEF Overlapped
  <1>5. Shapes'
    <2>1. req' = [t \in Slots |-> req'[t]]
      BY <1>1
    <2>2. \A t \in Slots : Shape(req'[t])
      BY <1>3, <1>4
    <2>3. QED
      BY <2>1, <2>2 DEF IInv, Shapes, Shape
  <1>6. s \in Underway' /\ Underway' = others \cup {s}
    <2>1. s \notin Underway
      BY DEF Send, Underway
    <2>2. s \in Underway'
      BY <1>3 DEF Underway
    <2>3. \A t \in Slots \ {s} : t \in Underway' <=> t \in others
      BY <1>4 DEF Underway
    <2>4. QED
      BY <2>1, <2>2, <2>3 DEF Underway
  <1>7. Alone'
    <2>1. ASSUME NEW t \in Underway', ~req'[t].overlaps
          PROVE  Underway' = {t} /\ req'[t].filter = filter' /\ Fits(req[t])'
      <3>1. t = s
        <4>1. SUFFICES ASSUME t # s PROVE FALSE
          OBVIOUS
        <4>2. t \in others
          BY <1>6, <4>1
        <4>3. QED
          BY <1>4, <2>1, <4>1, <4>2 DEF Underway
      <3>2. others = {}
        BY <1>2, <1>3, <2>1, <3>1
      <3>3. Fits(new)'
        BY <1>3 DEF Fits, Top
      <3>4. Fits(req[t])'
        BY <1>3, <3>1, <3>3 DEF Fits, Top
      <3>5. QED
        BY <1>2, <1>3, <1>6, <3>1, <3>2, <3>4
    <2>2. QED
      BY <2>1 DEF Alone
  <1>8. ShownIsAskedFor'
    BY <1>6 DEF ShownIsAskedFor
  <1>9. QED
    BY <1>5, <1>7, <1>8 DEF IInv

\* The request of new filters is beside those that are not cancelled.
LEMMA ChangeFilterStep ==
  ASSUME IInv, ChangeFilter
  PROVE  IInv'
  <1> DEFINE outdated == {s \in Underway : req[s].op = "filter"}
  <1>1. PICK s \in Slots : Send(s, "filter", filter', NoCursor, Underway \ outdated, outdated)
    BY DEF ChangeFilter, Cancels
  <1>2. UNCHANGED <<shown, stack, upset>>
    BY DEF ChangeFilter
  <1>3. QED
    BY <1>1, <1>2, SendStep

\* The requests of the buttons and of a refresh cancel none.
LEMMA AskStep ==
  ASSUME IInv, NEW op \in {"next", "previous", "refresh"}, NEW c, Ask(op, c),
         op = "previous" => Len(stack) >= 2 /\ c = stack[Len(stack) - 1],
         op = "refresh" => c = Top
  PROVE  IInv'
  <1>1. UNCHANGED <<filter, shown, stack, upset>>
    BY DEF Ask
  <1>2. PICK s \in Slots : Send(s, op, filter, c, Underway, {})
    BY DEF Ask
  <1>3. Underway \ {} = Underway
    OBVIOUS
  <1>4. Send(s, op, filter', c, Underway \ {}, {})
    BY <1>1, <1>2, <1>3
  <1>5. QED
    BY <1>1, <1>4, SendStep

--------------------------------------------------------------------------------
(* Requests that are answered, fail or are ignored *)

\* The request of slot s ends.
LEMMA EndedShape ==
  ASSUME IInv, NEW s \in Slots, req' = [req EXCEPT ![s] = Unused],
         stack' \in Seq({stack'[i] : i \in DOMAIN stack'})
  PROVE  Shapes' /\ Underway' = Underway \ {s} /\ \A t \in Slots \ {s} : req'[t] = req[t]
  <1>1. req' = [t \in Slots |-> req'[t]] /\ req'[s] = Unused /\ \A t \in Slots \ {s} : req'[t] = req[t]
    BY DEF IInv, Shapes
  <1>2. \A t \in Slots : Shape(req'[t])
    BY <1>1, UnusedShape DEF IInv, Shapes
  <1>3. Shapes'
    BY <1>1, <1>2 DEF Shapes, Shape
  <1>4. Underway' = Underway \ {s}
    BY <1>1, UnusedShape DEF Underway
  <1>5. QED
    BY <1>1, <1>3, <1>4

\* The stack after an answer is one, and has the request's cursor on top if it fits.
LEMMA StackShape ==
  ASSUME Shapes, NEW r, NEW after, after = StackAfter(r)
  PROVE  /\ after \in Seq({after[i] : i \in DOMAIN after})
         /\ Fits(r) => r.cursor = IF after = <<>> THEN NoCursor ELSE Last(after)
  <1> DEFINE S == {stack[i] : i \in DOMAIN stack}
  <1>1. stack \in Seq(S)
    BY DEF Shapes
  <1>2. CASE r.op = "filter"
    <2>1. after = <<NoCursor>>
      BY <1>2 DEF StackAfter
    <2>2. Fits(r) => r.cursor = NoCursor
      BY <1>2 DEF Fits
    <2>3. QED
      BY <2>1, <2>2 DEF Last
  <1>3. CASE r.op = "next"
    <2>1. after = Append(stack, r.cursor)
      BY <1>3 DEF StackAfter
    <2>2. after \in Seq(S \cup {r.cursor}) /\ Len(after) = Len(stack) + 1 /\ after[Len(after)] = r.cursor
      BY <1>1, <2>1
    <2>3. after # <<>> /\ Last(after) = r.cursor
      BY <1>1, <2>2 DEF Last
    <2>4. QED
      BY <2>2, <2>3
  <1>4. CASE r.op = "previous"
    <2>1. after = SubSeq(stack, 1, Len(stack) - 1)
      BY <1>4 DEF StackAfter
    <2>2. after \in Seq(S)
      BY <1>1, <2>1
    <2>3. ASSUME Fits(r)
          PROVE  r.cursor = IF after = <<>> THEN NoCursor ELSE Last(after)
      <3>1. Len(stack) \in Nat /\ Len(stack) >= 2 /\ r.cursor = stack[Len(stack) - 1]
        BY <1>1, <1>4, <2>3 DEF Fits
      <3>2. Len(after) = Len(stack) - 1 /\ after[Len(after)] = stack[Len(stack) - 1]
        BY <1>1, <2>1, <3>1
      <3>3. after # <<>>
        BY <2>2, <3>1, <3>2, StackFacts
      <3>4. Last(after) = r.cursor
        BY <3>1, <3>2 DEF Last
      <3>5. QED
        BY <3>3, <3>4
    <2>4. QED
      BY <2>2, <2>3
  <1>5. CASE r.op \notin {"filter", "next", "previous"}
    <2>1. after = stack
      BY <1>5 DEF StackAfter
    <2>2. Fits(r) => r.op = "refresh"
      BY <1>5 DEF Fits
    <2>3. QED
      BY <1>1, <2>1, <2>2 DEF Fits, Top
  <1>6. QED
    BY <1>2, <1>3, <1>4, <1>5

\* Where a request that will be answered ends, no other is alone.
LEMMA NoneAlone ==
  ASSUME IInv, NEW s \in Underway, req' = [req EXCEPT ![s] = Unused],
         stack' \in Seq({stack'[i] : i \in DOMAIN stack'})
  PROVE  /\ Shapes' /\ Alone' /\ Underway' = Underway \ {s}
         /\ ~req[s].overlaps => Underway = {s} /\ req[s].filter = filter /\ Fits(req[s])
  <1>1. s \in Slots
    BY DEF Underway
  <1>2. Shapes' /\ Underway' = Underway \ {s} /\ \A t \in Slots \ {s} : req'[t] = req[t]
    BY <1>1, EndedShape
  <1>3. ASSUME NEW t \in Underway', ~req'[t].overlaps
        PROVE  FALSE
    <2>1. t \in Underway /\ t # s /\ t \in Slots
      BY <1>2 DEF Underway
    <2>2. ~req[t].overlaps
      BY <1>2, <1>3, <2>1
    <2>3. Underway = {t}
      BY <2>1, <2>2 DEF IInv, Alone
    <2>4. QED
      BY <2>1, <2>3
  <1>4. Alone'
    BY <1>3 DEF Alone
  <1>5. QED
    BY <1>2, <1>4 DEF IInv, Alone

\* An answer shows what its request asks for, or it is one that overlapped.
LEMMA AnswerStep ==
  ASSUME IInv, NEW s \in Slots, Answer(s), req[s].op # "none"
  PROVE  IInv'
  <1>1. PICK r : r = req[s]
    OBVIOUS
  <1>2. /\ ~r.cancelled /\ req' = [req EXCEPT ![s] = Unused]
        /\ stack' = StackAfter(r) /\ upset' = r.overlaps /\ filter' = filter
    BY <1>1 DEF Answer
  <1>3. shown'.filter = r.filter /\ shown'.cursor = r.cursor
    BY <1>1 DEF Answer
  <1>4. s \in Underway
    BY <1>1, <1>2 DEF Underway
  <1>5. Shapes
    BY DEF IInv
  <1>6. PICK after : after = StackAfter(r)
    OBVIOUS
  <1>7. /\ after \in Seq({after[i] : i \in DOMAIN after})
        /\ Fits(r) => r.cursor = IF after = <<>> THEN NoCursor ELSE Last(after)
    BY <1>5, <1>6, StackShape
  <1>8. stack' = after
    BY <1>2, <1>6
  <1>9. /\ Shapes' /\ Alone'
        /\ ~r.overlaps => r.filter = filter /\ Fits(r)
    BY <1>1, <1>2, <1>4, <1>7, <1>8, NoneAlone
  <1>10. Fits(r) => r.cursor = Top'
    BY <1>7, <1>8 DEF Top
  <1>11. ShownIsAskedFor'
    BY <1>2, <1>3, <1>9, <1>10 DEF ShownIsAskedFor
  <1>12. QED
    BY <1>9, <1>11 DEF IInv

\* A failure upsets the page.
LEMMA FailStep ==
  ASSUME IInv, NEW s \in Slots, Fail(s)
  PROVE  IInv'
  <1>1. s \in Underway /\ req' = [req EXCEPT ![s] = Unused] /\ upset' = TRUE /\ stack' = stack
    BY DEF Fail, Underway
  <1>2. Shapes' /\ Alone'
    BY <1>1, NoneAlone DEF IInv, Shapes
  <1>3. QED
    BY <1>1, <1>2 DEF IInv, ShownIsAskedFor

\* A request that is cancelled ends unseen.
LEMMA IgnoreStep ==
  ASSUME IInv, NEW s \in Slots, Ignore(s)
  PROVE  IInv'
  <1>1. UNCHANGED <<filter, shown, stack, upset>> /\ s \notin Underway /\ req' = [req EXCEPT ![s] = Unused]
    BY DEF Ignore, hook, Underway
  <1>2. Shapes' /\ Underway' = Underway /\ \A t \in Slots \ {s} : req'[t] = req[t]
    BY <1>1, EndedShape DEF IInv, Shapes
  <1>3. ASSUME NEW t \in Underway', ~req'[t].overlaps
        PROVE  Underway' = {t} /\ req'[t].filter = filter' /\ Fits(req[t])'
    <2>1. t \in Underway /\ req'[t] = req[t]
      BY <1>1, <1>2 DEF Underway
    <2>2. Underway = {t} /\ req[t].filter = filter /\ Fits(req[t])
      BY <1>3, <2>1 DEF IInv, Alone
    <2>3. Fits(req[t])'
      BY <1>1, <2>1, <2>2 DEF Fits, Top
    <2>4. QED
      BY <1>1, <1>2, <2>1, <2>2, <2>3
  <1>4. Alone'
    BY <1>3 DEF Alone
  <1>5. ShownIsAskedFor'
    BY <1>1, <1>2 DEF IInv, ShownIsAskedFor, Top
  <1>6. QED
    BY <1>2, <1>4, <1>5 DEF IInv

--------------------------------------------------------------------------------
\* Initially no request is under way.
LEMMA InitIInv ==
  ASSUME Init
  PROVE  IInv
  <1>1. req = [s \in Slots |-> Unused] /\ stack = <<NoCursor>>
    BY DEF Init
  <1>2. Shapes
    BY <1>1, UnusedShape DEF Shapes
  <1>3. Underway = {}
    BY <1>1, UnusedShape DEF Underway
  <1>4. shown.filter = filter /\ shown.cursor = NoCursor
    BY DEF Init
  <1>5. Top = NoCursor
    BY <1>1 DEF Top, Last
  <1>6. QED
    BY <1>2, <1>3, <1>4, <1>5 DEF IInv, Alone, ShownIsAskedFor

\* Nothing happens.
LEMMA StutterStep ==
  ASSUME IInv, UNCHANGED vars
  PROVE  IInv'
  <1>1. UNCHANGED <<filter, shown, stack, upset, req>>
    BY DEF vars, hook
  <1>2. Shapes'
    BY <1>1 DEF IInv, Shapes, Shape
  <1>3. \A s \in Slots : SameAim(req'[s], req[s])
    BY <1>1 DEF SameAim
  <1>4. QED
    BY <1>1, <1>2, <1>3, AimsKept

\* Every step.
LEMMA NextStep ==
  ASSUME IInv, Next
  PROVE  IInv'
  <1>1. CASE goNext
    <2>1. Ask("next", shown.page.next)
      BY <1>1 DEF goNext
    <2>2. QED
      BY <2>1, AskStep
  <1>2. CASE goPrevious
    <2>1. Ask("previous", stack[Len(stack) - 1]) /\ Len(stack) > 1
      BY <1>2 DEF goPrevious, hasPrevious
    <2>2. stack \in Seq({stack[i] : i \in DOMAIN stack})
      BY DEF IInv, Shapes
    <2>3. Len(stack) >= 2
      BY <2>1, <2>2
    <2>4. QED
      BY <2>1, <2>3, AskStep
  <1>3. CASE refresh
    <2>1. Ask("refresh", Top)
      BY <1>3 DEF refresh
    <2>2. QED
      BY <2>1, AskStep
  <1>4. ASSUME NEW s \in Slots, Serve(s)
        PROVE  IInv'
    <2>1. CASE Answer(s)
      <3>1. req[s].op # "none"
        BY <2>1 DEF Answer, IInv, Shapes, Shape
      <3>2. QED
        BY <2>1, <3>1, AnswerStep
    <2>2. QED
      BY <1>4, <2>1, ReadStep, FailStep, IgnoreStep DEF Serve
  <1>5. QED
    BY <1>1, <1>2, <1>3, <1>4, ChangeStep, ChangeFilterStep DEF Next

\* Spec => []IInv: with no other request under way, one asks what the page will show.
THEOREM Invariance == Spec => []IInv
  <1>1. Init => IInv
    BY InitIInv
  <1>2. IInv /\ [Next]_vars => IInv'
    BY NextStep, StutterStep
  <1>3. QED
    BY <1>1, <1>2, PTL DEF Spec

\* With all answers in, the page shows what its filters and its page number ask for.
THEOREM ShownAsAsked == Spec => []ShownIsAskedFor
  <1>1. IInv => ShownIsAskedFor
    BY DEF IInv
  <1>2. QED
    BY <1>1, Invariance, PTL

--------------------------------------------------------------------------------
(* Types *)

ReqTyped(r) ==
  /\ r \in Requests /\ PageOK(r.page)
  /\ r.op # "none" => r.filter \in Filters
  /\ r.op = "next" => r.cursor # NoCursor

Scalars ==
  /\ kind \in {"keyset", "rows"} /\ table \in Tables /\ changes \in 0..MaxChanges
  /\ filter \in Filters /\ loading \in BOOLEAN /\ upset \in BOOLEAN /\ asked \in 0..MaxRequests

ShownTyped ==
  /\ shown \in [page: Pages, total: Totals, filter: Filters, cursor: Cursors \cup {NoCursor}]
  /\ PageOK(shown.page)

Nexts == {s \in Slots : req[s].op = "next"}

Stacked ==
  /\ stack \in Seq(Cursors \cup {NoCursor})
  /\ \A i \in 1..Len(stack) : stack[i] = NoCursor => i = 1
  /\ IsFiniteSet(Nexts) /\ Cardinality(Nexts) <= asked /\ Cardinality(Nexts) + Len(stack) <= asked + 1

Typed ==
  /\ Scalars /\ ShownTyped /\ Stacked
  /\ \A s \in Slots : ReqTyped(req[s])
  /\ walk \in [seen: [Rows -> Nat], touched: SUBSET Rows, pure: BOOLEAN]

\* Rows other than v have values of their own where the list is put in order in memory.
Apart(f, v) == kind = "keyset" \/ \A r, q \in Matching(table, f) \ v : table[r].key = table[q].key => r = q
\* Page shows no row of v where that matters.
Clear(page, v) == kind = "keyset" \/ \A r \in Rows : r \in v => ~Holds(page.data, r)
\* Cursor c points outside v where that matters.
Steady(c, f, v) == kind = "keyset" \/ c = NoCursor \/ (c.id \notin v /\ Current(c, f, v))

\* A page of either kind goes on at its cursor, but for rows v that include those of equal value.
LEMMA PageOfFacts ==
  ASSUME table \in Tables, kind \in {"keyset", "rows"}, NEW f, NEW c \in Cursors \cup {NoCursor},
         NEW page \in PagesOf(f, c), NEW v
  PROVE  PageOK(page) /\ (Apart(f, v) /\ Clear(page, v) /\ Steady(c, f, v) => Fresh(page, f, c, v))
  <1>1. CASE kind = "keyset"
    <2>1. page = KeysetPage(table, f, c)
      BY <1>1 DEF PagesOf
    <2>2. PageOK(page) /\ Fresh(page, f, c, {})
      BY <2>1, KeysetFacts
    <2>3. QED
      BY <2>2 DEF Fresh, Current
  <1>2. CASE kind = "rows"
    <2>1. page \in RowsPages(table, f, c)
      BY <1>2 DEF PagesOf
    <2>2. kind # "keyset"
      BY <1>2
    <2>3. /\ PageOK(page)
          /\ /\ \A r, q \in Matching(table, f) \ v : table[r].key = table[q].key => r = q
             /\ \A r \in Rows : r \in v => ~Holds(page.data, r)
             /\ c # NoCursor => c.id \notin v /\ Current(c, f, v)
             => Fresh(page, f, c, v)
      BY <2>1, RowsFacts
    <2>4. QED
      BY <2>2, <2>3 DEF Apart, Clear, Steady
  <1>3. QED
    BY <1>1, <1>2

\* A count of rows is at most their number.
LEMMA TotalFacts ==
  ASSUME NEW f
  PROVE  Total(table, f) \in Totals
  <1>1. Matching(table, f) \subseteq Rows
    BY DEF Matching
  <1>2. Cardinality(Matching(table, f)) \in Nat /\ Cardinality(Matching(table, f)) <= Cardinality(Rows)
    BY <1>1, RowsFinite
  <1>3. Cardinality(Rows) \in Nat
    BY RowsFinite
  <1>4. QED
    BY <1>2, <1>3 DEF Total, Totals

\* An empty slot is typed.
LEMMA UnusedTyped == ReqTyped(Unused)
  <1>1. PICK none : none = [data |-> <<>>, next |-> NoCursor]
    OBVIOUS
  <1>2. PageOK(none)
    <2>1. <<>> \in SeqOf(Rows, Limit)
      <3>1. <<>> \in [1..0 -> Rows] /\ 0 \in 0..Limit
        BY LimitAssumption
      <3>2. QED
        BY <3>1 DEF SeqOf
    <2>2. Distinct(<<>>)
      BY DEF Distinct
    <2>3. none.data = <<>> /\ none.next = NoCursor /\ none \in Pages
      BY <1>1, <2>1 DEF Pages
    <2>4. QED
      BY <2>2, <2>3 DEF PageOK
  <1>3. 0 \in Totals
    BY RowsFinite DEF Totals
  <1>4. /\ Unused.op = "none" /\ Unused.filter = "none" /\ Unused.cursor = NoCursor /\ Unused.has = {}
        /\ Unused.page = none /\ Unused.total = 0
    BY <1>1 DEF Unused
  <1>5. none \in Pages
    BY <1>2 DEF PageOK
  <1>6. Unused \in Requests
    BY <1>1, <1>3, <1>5 DEF Unused, Requests
  <1>7. QED
    BY <1>2, <1>4, <1>6 DEF ReqTyped

\* A row is marked as changed.
LEMMA TouchedTyped ==
  ASSUME NEW r, ReqTyped(r), NEW x \in Rows, NEW q, q = [r EXCEPT !.touched = @ \cup {x}]
  PROVE  ReqTyped(q)
  <1>1. r \in Requests
    BY DEF ReqTyped
  <1>2. q.op = r.op /\ q.filter = r.filter /\ q.cursor = r.cursor /\ q.page = r.page
    BY <1>1 DEF Requests
  <1>3. r.touched \cup {x} \in SUBSET Rows
    BY <1>1 DEF Requests
  <1>4. q \in Requests
    BY <1>1, <1>3 DEF Requests
  <1>5. QED
    BY <1>2, <1>4 DEF ReqTyped

\* A page or a count is read.
LEMMA ReadTyped ==
  ASSUME NEW r, ReqTyped(r), NEW page, PageOK(page), NEW total \in Totals, NEW has \in SUBSET {"page", "total", "error"},
         NEW q, q = [r EXCEPT !.page = page, !.has = has, !.total = total]
  PROVE  ReqTyped(q)
  <1>1. r \in Requests
    BY DEF ReqTyped
  <1>2. page \in Pages
    BY DEF PageOK
  <1>3. q.op = r.op /\ q.filter = r.filter /\ q.cursor = r.cursor /\ q.page = page
    BY <1>1 DEF Requests
  <1>4. q \in Requests
    BY <1>1, <1>2 DEF Requests
  <1>5. QED
    BY <1>3, <1>4 DEF ReqTyped

\* A request that another is sent beside.
LEMMA OverlapTyped ==
  ASSUME NEW r, ReqTyped(r), NEW a \in BOOLEAN, NEW b \in BOOLEAN, NEW q, q = [r EXCEPT !.overlaps = a, !.cancelled = b]
  PROVE  ReqTyped(q)
  <1>1. r \in Requests
    BY DEF ReqTyped
  <1>2. q.op = r.op /\ q.filter = r.filter /\ q.cursor = r.cursor /\ q.page = r.page
    BY <1>1 DEF Requests
  <1>3. q \in Requests
    BY <1>1 DEF Requests
  <1>4. QED
    BY <1>2, <1>3 DEF ReqTyped

\* A new request.
LEMMA SentTyped ==
  ASSUME NEW op \in {"filter", "next", "previous", "refresh"}, NEW f \in Filters, NEW c \in Cursors \cup {NoCursor},
         op = "next" => c # NoCursor, NEW o \in BOOLEAN,
         NEW q, q = [Unused EXCEPT !.op = op, !.filter = f, !.cursor = c, !.overlaps = o]
  PROVE  ReqTyped(q)
  <1>1. Unused \in Requests /\ PageOK(Unused.page)
    BY UnusedTyped DEF ReqTyped
  <1>2. q.op = op /\ q.filter = f /\ q.cursor = c /\ q.page = Unused.page
    BY <1>1 DEF Requests
  <1>3. q \in Requests
    BY <1>1 DEF Requests
  <1>4. QED
    BY <1>1, <1>2, <1>3 DEF ReqTyped

\* A new request leaves room on the stack for its answer.
LEMMA NextsAdd ==
  ASSUME Stacked, asked \in Nat, asked' = asked + 1, stack' = stack, NEW s \in Slots \ Nexts,
         Nexts' = Nexts \/ Nexts' = Nexts \cup {s}
  PROVE  Stacked'
  <1>1. IsFiniteSet(Nexts) /\ Cardinality(Nexts) \in Nat
    BY FS_CardinalityType DEF Stacked
  <1>2. IsFiniteSet(Nexts') /\ Cardinality(Nexts') \in Nat /\ Cardinality(Nexts') <= Cardinality(Nexts) + 1
    <2>1. CASE Nexts' = Nexts
      BY <1>1, <2>1
    <2>2. CASE Nexts' = Nexts \cup {s}
      <3>1. IsFiniteSet(Nexts \cup {s}) /\ Cardinality(Nexts \cup {s}) = Cardinality(Nexts) + 1
        BY <1>1, FS_AddElement
      <3>2. QED
        BY <1>1, <2>2, <3>1
    <2>3. QED
      BY <2>1, <2>2
  <1>3. PICK n, m, l, a : n = Cardinality(Nexts) /\ m = Cardinality(Nexts') /\ l = Len(stack) /\ a = asked
    OBVIOUS
  <1>4. l \in Nat /\ n <= a /\ n + l <= a + 1
    BY <1>3 DEF Stacked
  <1>5. m <= a + 1 /\ m + l <= a + 1 + 1
    BY <1>1, <1>2, <1>3, <1>4
  <1>6. Cardinality(Nexts') <= asked' /\ Cardinality(Nexts') + Len(stack') <= asked' + 1
    BY <1>3, <1>5
  <1>7. QED
    BY <1>2, <1>6 DEF Stacked

\* Sending a request keeps the types.
LEMMA SendTyped ==
  ASSUME Typed, NEW s \in Slots, NEW op \in {"filter", "next", "previous", "refresh"}, NEW f \in Filters,
         NEW c \in Cursors \cup {NoCursor}, op = "next" => c # NoCursor, NEW others, NEW cancelled,
         Send(s, op, f, c, others, cancelled), UNCHANGED <<kind, table, changes, shown, stack, walk, upset>>,
         filter' \in Filters, loading' \in BOOLEAN
  PROVE  Typed'
  <1>1. /\ req[s].op = "none" /\ asked < MaxRequests /\ asked' = asked + 1
        /\ req'[s] = [Unused EXCEPT !.op = op, !.filter = f, !.cursor = c, !.overlaps = others # {}]
        /\ \A t \in Slots \ {s} :
              req'[t] = [req[t] EXCEPT !.overlaps = @ \/ t \in others, !.cancelled = @ \/ t \in cancelled]
    BY DEF Send
  <1>2. ReqTyped(req'[s]) /\ req'[s].op = op
    <2>1. PICK o : o = (others # {})
      OBVIOUS
    <2>2. o \in BOOLEAN
      BY <2>1
    <2>3. req'[s] = [Unused EXCEPT !.op = op, !.filter = f, !.cursor = c, !.overlaps = o]
      BY <1>1, <2>1
    <2>4. ReqTyped(req'[s])
      BY <2>2, <2>3, SentTyped
    <2>5. req'[s].op = op
      BY <2>3 DEF Unused
    <2>6. QED
      BY <2>4, <2>5
  <1>3. ASSUME NEW t \in Slots \ {s} PROVE ReqTyped(req'[t]) /\ req'[t].op = req[t].op
    <2>1. ReqTyped(req[t])
      BY DEF Typed
    <2>2. PICK q : q = req[t]
      OBVIOUS
    <2>3. PICK a : a = (q.overlaps \/ t \in others)
      OBVIOUS
    <2>4. PICK b : b = (q.cancelled \/ t \in cancelled)
      OBVIOUS
    <2>5. req'[t] = [q EXCEPT !.overlaps = a, !.cancelled = b]
      <3>1. req'[t] = [q EXCEPT !.overlaps = q.overlaps \/ t \in others, !.cancelled = q.cancelled \/ t \in cancelled]
        BY <1>1, <1>3, <2>2
      <3>2. QED
        BY <2>3, <2>4, <3>1, Zenon
    <2>6. a \in BOOLEAN /\ b \in BOOLEAN
      BY <2>3, <2>4
    <2>7. ReqTyped(req'[t])
      BY <2>1, <2>2, <2>5, <2>6, OverlapTyped
    <2>8. q \in Requests
      BY <2>1, <2>2 DEF ReqTyped
    <2>9. req'[t].op = q.op
      BY <2>5, <2>8 DEF Requests
    <2>10. QED
      BY <2>2, <2>7, <2>9
  <1>4. s \in Slots \ Nexts
    BY <1>1 DEF Nexts
  <1>5. Nexts' = Nexts \/ Nexts' = Nexts \cup {s}
    <2>1. CASE op = "next"
      BY <1>1, <1>2, <1>3, <2>1 DEF Nexts
    <2>2. CASE op # "next"
      BY <1>1, <1>2, <1>3, <2>2 DEF Nexts
    <2>3. QED
      BY <2>1, <2>2
  <1>6. asked \in Nat /\ asked' \in 0..MaxRequests
    <2>1. asked \in 0..MaxRequests
      BY DEF Typed, Scalars
    <2>2. asked < MaxRequests /\ asked' = asked + 1
      BY <1>1
    <2>3. QED
      BY <2>1, <2>2, BoundsAssumption
  <1>7. Stacked'
    BY <1>1, <1>4, <1>5, <1>6, NextsAdd DEF Typed
  <1>8. ShownTyped' /\ Scalars'
    BY <1>6 DEF Typed, ShownTyped, Scalars
  <1>9. QED
    BY <1>2, <1>3, <1>7, <1>8 DEF Typed

\* The cursors on the stack.
LEMMA TopTyped ==
  ASSUME Typed
  PROVE  /\ Top \in Cursors \cup {NoCursor}
         /\ Len(stack) > 1 => stack[Len(stack) - 1] \in Cursors \cup {NoCursor}
  <1>1. stack \in Seq(Cursors \cup {NoCursor})
    BY DEF Typed, Stacked
  <1>2. CASE stack = <<>>
    BY <1>1, <1>2 DEF Top
  <1>3. CASE stack # <<>>
    <2>1. Len(stack) \in 1..Len(stack)
      BY <1>1, <1>3
    <2>2. QED
      BY <1>1, <1>3, <2>1 DEF Top, Last
  <1>4. QED
    BY <1>2, <1>3

\* The requests stay the requests of the same operations.
LEMMA SameNexts ==
  ASSUME Stacked, asked' = asked, stack' = stack, \A s \in Slots : req'[s].op = req[s].op
  PROVE  Stacked'
  <1>1. Nexts' = Nexts
    BY DEF Nexts
  <1>2. QED
    BY <1>1 DEF Stacked

\* A request ends, and the stack is what its answer makes of it or what it was.
LEMMA NextsLess ==
  ASSUME Stacked, asked \in Nat, asked' = asked, NEW s \in Slots, Nexts' = Nexts \ {s},
         NEW after, stack' = after, after \in Seq(Cursors \cup {NoCursor}), Len(after) <= 1 \/ Len(after) <= Len(stack)
                     \/ (s \in Nexts /\ Len(after) = Len(stack) + 1),
         \A i \in 1..Len(after) : after[i] = NoCursor => i = 1
  PROVE  Stacked'
  <1>1. IsFiniteSet(Nexts) /\ Cardinality(Nexts) \in Nat
    BY FS_CardinalityType DEF Stacked
  <1>2. /\ IsFiniteSet(Nexts') /\ Cardinality(Nexts') \in Nat /\ Cardinality(Nexts') <= Cardinality(Nexts)
        /\ s \in Nexts => Cardinality(Nexts') = Cardinality(Nexts) - 1
    <2>1. CASE s \in Nexts
      <3>1. IsFiniteSet(Nexts \ {s}) /\ Cardinality(Nexts \ {s}) = Cardinality(Nexts) - 1
        BY <1>1, <2>1, FS_RemoveElement
      <3>2. Cardinality(Nexts \ {s}) \in Nat
        BY <3>1, FS_CardinalityType
      <3>3. PICK N : N = Nexts \ {s}
        OBVIOUS
      <3>4. QED
        BY <1>1, <2>1, <3>1, <3>2
    <2>2. CASE s \notin Nexts
      <3>1. Nexts' = Nexts
        BY <2>2
      <3>2. QED
        <4>1. IsFiniteSet(Nexts') /\ Cardinality(Nexts') = Cardinality(Nexts)
          BY <1>1, <3>1, Zenon
        <4>2. QED
          BY <1>1, <2>2, <4>1
    <2>3. QED
      BY <2>1, <2>2
  <1>3. PICK n, m, l, k, a : n = Cardinality(Nexts) /\ m = Cardinality(Nexts') /\ l = Len(stack) /\ k = Len(after) /\ a = asked
    OBVIOUS
  <1>4. l \in Nat /\ k \in Nat /\ n <= a /\ n + l <= a + 1
    BY <1>3 DEF Stacked
  <1>5. m <= a /\ m + k <= a + 1
    BY <1>1, <1>2, <1>3, <1>4
  <1>6. Cardinality(Nexts') <= asked' /\ Cardinality(Nexts') + Len(stack') <= asked' + 1
    BY <1>3, <1>5
  <1>7. QED
    BY <1>2, <1>6 DEF Stacked

\* An answer makes the stack longer by one, and only one to Next does.
LEMMA AfterTyped ==
  ASSUME Stacked, NEW r, ReqTyped(r), NEW after, after = StackAfter(r)
  PROVE  /\ after \in Seq(Cursors \cup {NoCursor})
         /\ Len(after) <= 1 \/ Len(after) <= Len(stack) \/ (r.op = "next" /\ Len(after) = Len(stack) + 1)
         /\ \A i \in 1..Len(after) : after[i] = NoCursor => i = 1
  <1> DEFINE C == Cursors \cup {NoCursor}
  <1>1. stack \in Seq(C) /\ \A i \in 1..Len(stack) : stack[i] = NoCursor => i = 1
    BY DEF Stacked
  <1>2. r.cursor \in C
    BY DEF ReqTyped, Requests
  <1> HIDE DEF C
  <1>3. CASE r.op = "filter"
    <2>1. after = <<NoCursor>>
      BY <1>3 DEF StackAfter
    <2>2. NoCursor \in C
      BY DEF C
    <2>3. QED
      BY <2>1, <2>2 DEF C
  <1>4. CASE r.op = "next"
    <2>1. after = Append(stack, r.cursor) /\ r.cursor # NoCursor
      BY <1>4 DEF StackAfter, ReqTyped
    <2>2. /\ after \in Seq(C) /\ Len(after) = Len(stack) + 1 /\ Len(stack) \in Nat
          /\ \A i \in 1..Len(stack) : after[i] = stack[i]
          /\ after[Len(stack) + 1] = r.cursor
      BY <1>1, <1>2, <2>1
    <2>3. ASSUME NEW i \in 1..Len(after), after[i] = NoCursor PROVE i = 1
      <3>1. i # Len(stack) + 1
        BY <2>1, <2>2, <2>3
      <3>2. i \in 1..Len(stack)
        BY <2>2, <3>1
      <3>3. QED
        BY <1>1, <2>2, <2>3, <3>2
    <2>4. QED
      BY <1>4, <2>2, <2>3 DEF C
  <1>5. CASE r.op = "previous"
    <2>1. after = SubSeq(stack, 1, Len(stack) - 1) /\ Len(stack) \in Nat
      BY <1>1, <1>5 DEF StackAfter
    <2>2. CASE Len(stack) = 0
      <3>1. after = <<>>
        BY <2>1, <2>2, SubSeqEmpty
      <3>2. QED
        BY <3>1
    <2>3. CASE Len(stack) # 0
      <3>1. PICK n : n = Len(stack) - 1
        OBVIOUS
      <3>2. n \in Nat /\ n <= Len(stack)
        BY <2>1, <2>3, <3>1
      <3>3. after = SubSeq(stack, 1, n)
        BY <2>1, <3>1
      <3>4. after \in Seq(C) /\ Len(after) = n - 1 + 1 /\ \A i \in 1..(n - 1 + 1) : after[i] = stack[1 + i - 1]
        BY <1>1, <3>2, <3>3, SubFacts
      <3>5. n - 1 + 1 = n /\ \A i \in 1..n : 1 + i - 1 = i /\ i \in 1..Len(stack)
        BY <2>1, <3>2
      <3>6. QED
        BY <1>1, <3>2, <3>4, <3>5 DEF C
    <2>4. QED
      BY <2>2, <2>3
  <1>6. CASE r.op \notin {"filter", "next", "previous"}
    <2>1. after = stack
      BY <1>6 DEF StackAfter
    <2>2. Len(after) <= Len(stack)
      BY <1>1, <2>1
    <2>3. QED
      BY <1>1, <2>1, <2>2 DEF C
  <1>7. QED
    BY <1>3, <1>4, <1>5, <1>6

\* A page shows each of its rows once.
LEMMA TimesFacts ==
  ASSUME NEW page, PageOK(page), NEW data, data = page.data
  PROVE  /\ Len(data) \in Nat /\ Len(data) <= Limit
         /\ Times(data) \in [Rows -> Nat]
         /\ \A r \in Rows : Times(data)[r] = IF Holds(data, r) THEN 1 ELSE 0
         /\ IsFiniteSet({r \in Rows : Holds(data, r)})
         /\ Cardinality({r \in Rows : Holds(data, r)}) = Len(data)
  <1>1. data \in SeqOf(Rows, Limit) /\ Distinct(data)
    BY DEF PageOK, Pages
  <1>2. PICK n \in 0..Limit : data \in [1..n -> Rows]
    BY <1>1 DEF SeqOf
  <1>3. n \in Nat /\ Limit \in Nat
    BY <1>2, LimitAssumption
  <1>4. DOMAIN data = 1..n /\ Len(data) = n
    BY <1>2, <1>3
  <1>5. \A i, j \in 1..n : data[i] = data[j] => i = j
    BY <1>1, <1>4 DEF Distinct
  <1>6. ASSUME NEW r \in Rows
        PROVE  Cardinality({i \in DOMAIN data : data[i] = r}) = IF Holds(data, r) THEN 1 ELSE 0
    <2>1. CASE Holds(data, r)
      <3>1. PICK i \in 1..n : data[i] = r
        BY <1>4, <2>1 DEF Holds
      <3>2. {j \in DOMAIN data : data[j] = r} = {i}
        BY <1>4, <1>5, <3>1
      <3>3. QED
        BY <2>1, <3>2, FS_Singleton
    <2>2. CASE ~Holds(data, r)
      <3>1. {j \in DOMAIN data : data[j] = r} = {}
        BY <2>2 DEF Holds
      <3>2. QED
        BY <2>2, <3>1, FS_EmptySet
    <2>3. QED
      BY <2>1, <2>2
  <1>7. \A r \in Rows : Times(data)[r] = IF Holds(data, r) THEN 1 ELSE 0
    BY <1>6 DEF Times
  <1>8. Times(data) \in [Rows -> Nat]
    <2>1. Times(data) = [r \in Rows |-> Times(data)[r]]
      BY DEF Times
    <2>2. \A r \in Rows : Times(data)[r] \in Nat
      BY <1>7
    <2>3. QED
      BY <2>1, <2>2
  <1>9. PICK T : T = {r \in Rows : Holds(data, r)}
    OBVIOUS
  <1>10. IsFiniteSet(T) /\ Cardinality(T) = n
    <2>1. data \in Surjection(1..n, T)
      BY <1>2, <1>4, <1>9 DEF Surjection, Holds
    <2>2. IsFiniteSet(1..n) /\ Cardinality(1..n) = n
      BY <1>3, FS_Interval
    <2>3. data \in Injection(1..n, T)
      BY <1>5, <2>1 DEF Injection, IsInjective, Surjection
    <2>4. QED
      BY <2>1, <2>2, <2>3, FS_Surjection
  <1>11. QED
    BY <1>2, <1>3, <1>4, <1>7, <1>8, <1>9, <1>10

\* What an answer adds to the walk.
LEMMA WalkTyped ==
  ASSUME Typed, NEW r, ReqTyped(r)
  PROVE  WalkAfter(r) \in [seen: [Rows -> Nat], touched: SUBSET Rows, pure: BOOLEAN]
  <1>1. r \in Requests /\ PageOK(r.page)
    BY DEF ReqTyped
  <1>2. PICK times : times = Times(r.page.data)
    OBVIOUS
  <1>3. times \in [Rows -> Nat]
    BY <1>1, <1>2, TimesFacts
  <1>4. walk \in [seen: [Rows -> Nat], touched: SUBSET Rows, pure: BOOLEAN]
    BY DEF Typed
  <1>5. r.touched \in SUBSET Rows /\ r.overlaps \in BOOLEAN
    BY <1>1 DEF Requests
  <1>6. CASE r.cursor = NoCursor
    BY <1>2, <1>3, <1>5, <1>6 DEF WalkAfter
  <1>7. CASE r.cursor # NoCursor
    <2>1. PICK more : more = [q \in Rows |-> walk.seen[q] + times[q]]
      OBVIOUS
    <2>2. more \in [Rows -> Nat]
      <3>1. \A q \in Rows : walk.seen[q] + times[q] \in Nat
        BY <1>3, <1>4
      <3>2. QED
        BY <2>1, <3>1
    <2>3. PICK pure : pure = (walk.pure /\ r.op = "next" /\ ~r.overlaps /\ "error" \notin r.has)
      OBVIOUS
    <2>4. pure \in BOOLEAN
      BY <2>3
    <2>5. WalkAfter(r) = [walk EXCEPT !.seen = more, !.pure = pure]
      BY <1>2, <1>7, <2>1, <2>3 DEF WalkAfter
    <2>6. QED
      BY <1>4, <2>2, <2>4, <2>5
  <1>8. QED
    BY <1>6, <1>7

\* The first page.
LEMMA InitTyped ==
  ASSUME Init
  PROVE  Typed
  <1>1. Scalars
    <2>1. table \in Tables
      BY TablesAssumption DEF Init
    <2>2. 0 \in 0..MaxChanges /\ 0 \in 0..MaxRequests
      BY BoundsAssumption
    <2>3. /\ kind \in {"keyset", "rows"} /\ changes = 0 /\ asked = 0
          /\ filter \in Filters /\ loading = FALSE /\ upset = FALSE
      BY DEF Init
    <2>4. QED
      BY <2>1, <2>2, <2>3 DEF Scalars
  <1>2. PICK page, total :
          /\ page \in PagesOf(filter, NoCursor) /\ total = Total(table, filter)
          /\ shown = [page |-> page, total |-> total, filter |-> filter, cursor |-> NoCursor]
    BY DEF Init
  <1>3. PageOK(page) /\ total \in Totals /\ page \in Pages
    <2>1. table \in Tables /\ kind \in {"keyset", "rows"} /\ NoCursor \in Cursors \cup {NoCursor}
      BY <1>1 DEF Scalars
    <2>2. PageOK(page)
      BY <1>2, <2>1, PageOfFacts
    <2>3. QED
      BY <1>2, <2>2, TotalFacts DEF PageOK
  <1>4. shown = [page |-> page, total |-> total, filter |-> filter, cursor |-> NoCursor]
    BY <1>2
  <1>5. ShownTyped
    BY <1>1, <1>3, <1>4 DEF ShownTyped, Scalars
  <1>6. req = [s \in Slots |-> Unused] /\ stack = <<NoCursor>> /\ asked = 0
    BY DEF Init
  <1>7. Nexts = {}
    BY <1>6 DEF Nexts, Unused
  <1>8. Stacked
    BY <1>6, <1>7, FS_EmptySet DEF Stacked
  <1>9. walk \in [seen: [Rows -> Nat], touched: SUBSET Rows, pure: BOOLEAN]
    <2>1. PICK times : times = Times(page.data)
      OBVIOUS
    <2>2. times \in [Rows -> Nat]
      BY <1>3, <2>1, TimesFacts
    <2>3. walk = [NoWalk EXCEPT !.seen = times, !.pure = TRUE]
      <3>1. walk = [NoWalk EXCEPT !.seen = Times(shown.page.data), !.pure = TRUE]
        BY DEF Init
      <3>2. shown.page.data = page.data
        BY <1>4
      <3>3. QED
        BY <2>1, <3>1, <3>2
    <2>4. QED
      BY <2>2, <2>3 DEF NoWalk
  <1>10. \A s \in Slots : ReqTyped(req[s])
    BY <1>6, UnusedTyped
  <1>11. QED
    BY <1>1, <1>5, <1>8, <1>9, <1>10 DEF Typed

\* A row changes.
LEMMA ChangeTyped ==
  ASSUME Typed, Change
  PROVE  Typed'
  <1>1. PICK x \in Rows, new \in Tables :
          /\ table' = new /\ walk' = [walk EXCEPT !.touched = @ \cup {x}]
          /\ req' = [s \in Slots |-> IF req[s].has = {} THEN req[s] ELSE [req[s] EXCEPT !.touched = @ \cup {x}]]
    BY DEF Change
  <1>2. changes' \in 0..MaxChanges
    <2>1. changes \in 0..MaxChanges /\ changes < MaxChanges /\ changes' = changes + 1
      BY DEF Change, Typed, Scalars
    <2>2. QED
      BY <2>1, BoundsAssumption
  <1>3. UNCHANGED <<kind, filter, shown, stack, loading, upset, asked>>
    BY DEF Change
  <1>4. Scalars' /\ ShownTyped'
    BY <1>1, <1>2, <1>3 DEF Typed, Scalars, ShownTyped
  <1>5. ASSUME NEW s \in Slots PROVE ReqTyped(req'[s]) /\ req'[s].op = req[s].op
    <2>1. ReqTyped(req[s])
      BY DEF Typed
    <2>2. CASE req[s].has = {}
      <3>1. req'[s] = req[s]
        BY <1>1, <2>2
      <3>2. QED
        BY <2>1, <3>1
    <2>3. CASE req[s].has # {}
      <3>1. PICK r : r = req[s]
        OBVIOUS
      <3>2. req'[s] = [r EXCEPT !.touched = @ \cup {x}]
        BY <1>1, <2>3, <3>1
      <3>3. ReqTyped(req'[s])
        BY <2>1, <3>1, <3>2, TouchedTyped
      <3>4. req'[s].op = r.op
        BY <2>1, <3>1, <3>2 DEF ReqTyped, Requests
      <3>5. QED
        BY <3>1, <3>3, <3>4
    <2>4. QED
      BY <2>2, <2>3
  <1>6. Stacked'
    BY <1>3, <1>5, SameNexts DEF Typed
  <1>7. walk' \in [seen: [Rows -> Nat], touched: SUBSET Rows, pure: BOOLEAN]
    <2>1. walk \in [seen: [Rows -> Nat], touched: SUBSET Rows, pure: BOOLEAN]
      BY DEF Typed
    <2>2. walk.touched \cup {x} \in SUBSET Rows
      BY <2>1
    <2>3. QED
      BY <1>1, <2>1, <2>2
  <1>8. QED
    BY <1>4, <1>5, <1>6, <1>7 DEF Typed

\* A page or a count is read.
LEMMA ReadPageTyped ==
  ASSUME Typed, Shapes, NEW s \in Slots, ReadPage(s) \/ Count(s) \/ Refuse(s)
  PROVE  Typed'
  <1>1. PICK r : r = req[s]
    OBVIOUS
  <1>2. ReqTyped(r) /\ r \in Requests /\ Scalars
    BY <1>1 DEF Typed, ReqTyped
  <1>3. PICK total : total = Total(table, r.filter)
    OBVIOUS
  <1>4. total \in Totals
    BY <1>3, TotalFacts
  <1>5. UNCHANGED <<kind, table, changes, filter, shown, stack, loading, walk, upset, asked>>
    BY DEF ReadPage, Count, Refuse, hook
  <1>6. \E q : ReqTyped(q) /\ q.op = r.op /\ req' = [req EXCEPT ![s] = q]
    <2>1. r.page \in Pages /\ PageOK(r.page) /\ r.total \in Totals /\ r.has \in SUBSET {"page", "total", "error"}
      BY <1>2 DEF ReqTyped, Requests
    <2>2. CASE ReadPage(s)
      <3>1. PICK has : has = IF kind = "rows" THEN {"page", "total"} ELSE r.has \cup {"page"}
        OBVIOUS
      <3>2. PICK count : count = IF kind = "rows" THEN total ELSE r.total
        OBVIOUS
      <3>3. has \in SUBSET {"page", "total", "error"} /\ count \in Totals
        BY <1>4, <2>1, <3>1, <3>2
      <3>4. PICK page \in PagesOf(r.filter, r.cursor) :
              req' = [req EXCEPT ![s].page = page,
                                 ![s].has = IF kind = "rows" THEN {"page", "total"} ELSE @ \cup {"page"},
                                 ![s].total = IF kind = "rows" THEN Total(table, req[s].filter) ELSE @]
        BY <1>1, <2>2 DEF ReadPage
      <3>5. PageOK(page)
        <4>1. table \in Tables /\ kind \in {"keyset", "rows"} /\ r.cursor \in Cursors \cup {NoCursor}
          BY <1>2 DEF Scalars, Requests
        <4>2. QED
          BY <4>1, PageOfFacts
      <3>6. PICK q : q = [r EXCEPT !.page = page, !.has = has, !.total = count]
        OBVIOUS
      <3>7. ReqTyped(q)
        BY <1>2, <3>3, <3>5, <3>6, ReadTyped
      <3>8. q.op = r.op
        BY <1>2, <3>6 DEF Requests
      <3>9. req' = [req EXCEPT ![s] = q]
        BY <1>1, <1>3, <3>1, <3>2, <3>4, <3>6 DEF Shapes
      <3>10. QED
        BY <3>7, <3>8, <3>9
    <2>3. CASE Count(s)
      <3>1. PICK has : has = r.has \cup {"total"}
        OBVIOUS
      <3>2. has \in SUBSET {"page", "total", "error"}
        BY <2>1, <3>1
      <3>3. PICK q : q = [r EXCEPT !.page = r.page, !.has = has, !.total = total]
        OBVIOUS
      <3>4. ReqTyped(q)
        BY <1>2, <1>4, <2>1, <3>2, <3>3, ReadTyped
      <3>5. q.op = r.op
        BY <1>2, <3>3 DEF Requests
      <3>6. q = [r EXCEPT !.total = total, !.has = has]
        BY <1>2, <3>3 DEF Requests
      <3>7. req' = [req EXCEPT ![s] = q]
        BY <1>1, <1>3, <2>3, <3>1, <3>6 DEF Count
      <3>8. QED
        BY <3>4, <3>5, <3>7
    <2>4. CASE Refuse(s)
      <3>1. PICK none, zero, has : none = Unused.page /\ zero = 0 /\ has = {"error"}
        OBVIOUS
      <3>2. PageOK(none) /\ zero \in Totals /\ has \in SUBSET {"page", "total", "error"}
        BY <3>1, UnusedTyped, RowsFinite DEF ReqTyped, Totals
      <3>3. PICK q : q = [r EXCEPT !.page = none, !.has = has, !.total = zero]
        OBVIOUS
      <3>4. ReqTyped(q)
        BY <1>2, <3>2, <3>3, ReadTyped
      <3>5. q.op = r.op
        BY <1>2, <3>3 DEF Requests
      <3>6. req' = [req EXCEPT ![s].page = none, ![s].total = zero, ![s].has = has]
        BY <2>4, <3>1 DEF Refuse
      <3>7. req' = [req EXCEPT ![s] = q]
        BY <1>1, <3>3, <3>6 DEF Shapes
      <3>8. QED
        BY <3>4, <3>5, <3>7
    <2>5. QED
      BY <2>2, <2>3, <2>4
  <1>7. PICK q : ReqTyped(q) /\ q.op = r.op /\ req' = [req EXCEPT ![s] = q]
    BY <1>6
  <1>8. req'[s] = q /\ \A t \in Slots \ {s} : req'[t] = req[t]
    BY <1>7 DEF Shapes
  <1>9. \A t \in Slots : ReqTyped(req'[t]) /\ req'[t].op = req[t].op
    BY <1>1, <1>7, <1>8 DEF Typed
  <1>10. Stacked'
    BY <1>5, <1>9, SameNexts DEF Typed
  <1>11. Scalars' /\ ShownTyped'
    BY <1>5 DEF Typed, Scalars, ShownTyped
  <1>12. QED
    BY <1>5, <1>9, <1>10, <1>11 DEF Typed

\* A request ends.
LEMMA EndTyped ==
  ASSUME Typed, Shapes, NEW s \in Slots, req' = [req EXCEPT ![s] = Unused]
  PROVE  /\ \A t \in Slots : ReqTyped(req'[t])
         /\ Nexts' = Nexts \ {s}
  <1>1. req'[s] = Unused /\ \A t \in Slots \ {s} : req'[t] = req[t]
    BY DEF Shapes
  <1>2. \A t \in Slots : ReqTyped(req'[t])
    BY <1>1, UnusedTyped DEF Typed
  <1>3. Nexts' = Nexts \ {s}
    BY <1>1, UnusedShape DEF Nexts
  <1>4. QED
    BY <1>2, <1>3

\* An answer is shown.
LEMMA AnswerTyped ==
  ASSUME Typed, Shapes, NEW s \in Slots, Answer(s)
  PROVE  Typed'
  <1>1. PICK r : r = req[s]
    OBVIOUS
  <1>2. /\ r.has \in {{"page", "total"}, {"error"}}
        /\ shown' = [page |-> r.page, total |-> r.total, filter |-> r.filter, cursor |-> r.cursor]
        /\ stack' = StackAfter(r) /\ walk' = WalkAfter(r) /\ upset' = r.overlaps
        /\ loading' = FALSE /\ req' = [req EXCEPT ![s] = Unused]
        /\ UNCHANGED <<kind, table, changes, filter, asked>>
    BY <1>1 DEF Answer
  <1>3. ReqTyped(r) /\ r \in Requests /\ Shape(r)
    BY <1>1 DEF Typed, ReqTyped, Shapes
  <1>4. r.op # "none" /\ r.filter \in Filters /\ PageOK(r.page)
    BY <1>2, <1>3 DEF Shape, ReqTyped
  <1>5. Scalars'
    BY <1>2, <1>3 DEF Typed, Scalars, Requests
  <1>6. ShownTyped'
    BY <1>2, <1>3, <1>4 DEF ShownTyped, Requests
  <1>7. /\ \A t \in Slots : ReqTyped(req'[t])
        /\ Nexts' = Nexts \ {s}
    BY <1>2, EndTyped
  <1>8. Stacked'
    <2>1. Stacked /\ asked \in Nat
      BY BoundsAssumption DEF Typed, Scalars
    <2>2. PICK after : after = StackAfter(r)
      OBVIOUS
    <2>3. /\ after \in Seq(Cursors \cup {NoCursor})
          /\ Len(after) <= 1 \/ Len(after) <= Len(stack) \/ (r.op = "next" /\ Len(after) = Len(stack) + 1)
          /\ \A i \in 1..Len(after) : after[i] = NoCursor => i = 1
      BY <1>3, <2>1, <2>2, AfterTyped
    <2>4. r.op = "next" => s \in Nexts
      BY <1>1 DEF Nexts
    <2>5. asked' = asked /\ stack' = after
      BY <1>2, <2>2
    <2>6. QED
      BY <1>7, <2>1, <2>3, <2>4, <2>5, NextsLess
  <1>9. walk' \in [seen: [Rows -> Nat], touched: SUBSET Rows, pure: BOOLEAN]
    <2>1. PICK after : after = WalkAfter(r)
      OBVIOUS
    <2>2. after \in [seen: [Rows -> Nat], touched: SUBSET Rows, pure: BOOLEAN]
      BY <1>3, <2>1, WalkTyped
    <2>3. QED
      BY <1>2, <2>1, <2>2
  <1>10. QED
    BY <1>5, <1>6, <1>7, <1>8, <1>9 DEF Typed

\* A request fails or is ignored.
LEMMA EndedTyped ==
  ASSUME Typed, Shapes, NEW s \in Slots, Fail(s) \/ Ignore(s)
  PROVE  Typed'
  <1>1. /\ req' = [req EXCEPT ![s] = Unused] /\ UNCHANGED <<kind, table, changes, filter, shown, stack, asked>>
        /\ loading' = FALSE \/ loading' = loading
        /\ upset' = TRUE \/ upset' = upset
        /\ walk' = [walk EXCEPT !.pure = FALSE] \/ walk' = walk
    BY DEF Fail, Ignore, hook
  <1>2. /\ \A t \in Slots : ReqTyped(req'[t])
        /\ Nexts' = Nexts \ {s}
    BY <1>1, EndTyped
  <1>3. Scalars' /\ ShownTyped'
    BY <1>1 DEF Typed, Scalars, ShownTyped
  <1>4. walk' \in [seen: [Rows -> Nat], touched: SUBSET Rows, pure: BOOLEAN]
    BY <1>1 DEF Typed
  <1>5. Stacked'
    <2>1. Stacked /\ asked \in Nat
      BY BoundsAssumption DEF Typed, Scalars
    <2>2. PICK after : after = stack
      OBVIOUS
    <2>3. /\ after \in Seq(Cursors \cup {NoCursor}) /\ Len(after) <= Len(stack)
          /\ \A i \in 1..Len(after) : after[i] = NoCursor => i = 1
      BY <2>1, <2>2 DEF Stacked
    <2>4. QED
      BY <1>1, <1>2, <2>1, <2>2, <2>3, NextsLess
  <1>6. QED
    BY <1>2, <1>3, <1>4, <1>5 DEF Typed

\* The buttons and a refresh.
LEMMA AskTyped ==
  ASSUME Typed, NEW op \in {"next", "previous", "refresh"}, NEW c \in Cursors \cup {NoCursor},
         op = "next" => c # NoCursor, Ask(op, c)
  PROVE  Typed'
  <1>1. PICK s \in Slots : Send(s, op, filter, c, Underway, {})
    BY DEF Ask
  <1>2. /\ UNCHANGED <<kind, table, changes, shown, stack, walk, upset>>
        /\ filter \in Filters /\ filter' \in Filters /\ loading' \in BOOLEAN
    BY DEF Ask, Typed, Scalars
  <1>3. QED
    BY <1>1, <1>2, SendTyped

\* Every step keeps the types.
LEMMA NextTyped ==
  ASSUME Typed, Shapes, Next
  PROVE  Typed'
  <1>1. CASE ChangeFilter
    <2>1. PICK s \in Slots, f \in Filters \ {filter} :
            filter' = f /\ \E others, cancelled : Send(s, "filter", f, NoCursor, others, cancelled)
      BY <1>1 DEF ChangeFilter
    <2>2. /\ UNCHANGED <<kind, table, changes, shown, stack, walk, upset>>
          /\ f \in Filters /\ filter' \in Filters /\ loading' \in BOOLEAN
      BY <1>1, <2>1 DEF ChangeFilter
    <2>3. PICK c, op : c = NoCursor /\ op = "filter"
      OBVIOUS
    <2>4. PICK others, cancelled : Send(s, op, f, c, others, cancelled)
      BY <2>1, <2>3
    <2>5. c \in Cursors \cup {NoCursor} /\ op \in {"filter", "next", "previous", "refresh"} /\ op # "next"
      BY <2>3
    <2>6. QED
      BY <2>2, <2>4, <2>5, SendTyped
  <1>2. CASE goNext
    <2>1. PICK c : c = shown.page.next
      OBVIOUS
    <2>2. Ask("next", c) /\ c # NoCursor
      BY <1>2, <2>1 DEF goNext, hasNext
    <2>3. c \in Cursors \cup {NoCursor}
      BY <2>1 DEF Typed, ShownTyped, Pages
    <2>4. QED
      BY <2>2, <2>3, AskTyped
  <1>3. CASE goPrevious
    <2>1. PICK c : c = stack[Len(stack) - 1]
      OBVIOUS
    <2>2. Ask("previous", c) /\ Len(stack) > 1
      BY <1>3, <2>1 DEF goPrevious, hasPrevious
    <2>3. c \in Cursors \cup {NoCursor}
      BY <2>1, <2>2, TopTyped
    <2>4. QED
      BY <2>2, <2>3, AskTyped
  <1>4. CASE refresh
    <2>1. Ask("refresh", Top)
      BY <1>4 DEF refresh
    <2>2. PICK c : c = Top
      OBVIOUS
    <2>3. c \in Cursors \cup {NoCursor}
      BY <2>2, TopTyped
    <2>4. QED
      BY <2>1, <2>2, <2>3, AskTyped
  <1>5. ASSUME NEW s \in Slots, Serve(s) PROVE Typed'
    BY <1>5, ReadPageTyped, AnswerTyped, EndedTyped DEF Serve
  <1>6. QED
    BY <1>1, <1>2, <1>3, <1>4, <1>5, ChangeTyped DEF Next

\* Nothing happens.
LEMMA StutterTyped ==
  ASSUME Typed, UNCHANGED vars
  PROVE  Typed'
  <1>1. UNCHANGED <<kind, table, changes, filter, shown, stack, loading, walk, upset, req, asked>>
    BY DEF vars, hook
  <1>2. Scalars' /\ ShownTyped'
    BY <1>1 DEF Typed, Scalars, ShownTyped
  <1>3. Stacked'
    BY <1>1, SameNexts DEF Typed
  <1>4. QED
    BY <1>1, <1>2, <1>3 DEF Typed

\* The invariant implies the type invariant of the model.
LEMMA TypedIsTypeOK ==
  ASSUME Typed
  PROVE  TypeOK
  <1>1. Scalars /\ ShownTyped /\ Stacked
    BY DEF Typed
  <1>2. Len(stack) \in 0..MaxRequests + 1
    <2>1. Cardinality(Nexts) \in Nat
      BY <1>1, FS_CardinalityType DEF Stacked
    <2>2. PICK n, l, a : n = Cardinality(Nexts) /\ l = Len(stack) /\ a = asked
      OBVIOUS
    <2>3. l \in Nat /\ n + l <= a + 1 /\ a \in 0..MaxRequests
      BY <1>1, <2>2 DEF Stacked, Scalars
    <2>4. l \in 0..MaxRequests + 1
      BY <2>1, <2>2, <2>3, BoundsAssumption
    <2>5. QED
      BY <2>2, <2>4
  <1>3. \A i \in DOMAIN stack : stack[i] \in Cursors \cup {NoCursor}
    BY <1>1 DEF Stacked
  <1>4. \A s \in Slots : req[s] \in Requests
    BY DEF Typed, ReqTyped
  <1>5. walk.touched \in SUBSET Rows /\ walk.pure \in BOOLEAN
    BY DEF Typed
  <1>6. /\ shown.page \in Pages /\ shown.total \in Totals
        /\ shown.filter \in Filters /\ shown.cursor \in Cursors \cup {NoCursor}
    BY <1>1 DEF ShownTyped
  <1>7. QED
    BY <1>1, <1>2, <1>3, <1>4, <1>5, <1>6 DEF TypeOK, Scalars

--------------------------------------------------------------------------------
(* Walks *)

\* total counts a set of rows that agrees with the list for filter f, but for the rows u.
Counted(total, f, u) ==
  \E M \in SUBSET Rows : Cardinality(M) = total /\ \A r \in Rows \ u : r \in M <=> r \in Matching(table, f)

Ids(seen) == {r \in Rows : seen[r] > 0}

\* What the pages of a walk have shown, when the rows u have changed on the way.
Unmixed(seen, u) == kind = "keyset" \/ Ids(seen) \cap u = {}
OnceEach(seen, u, page, f) ==
  /\ Current(page.next, f, u)
  /\ \A r \in Rows \ u : seen[r] <= 1 /\ (r \in Ids(seen) => r \in Matching(table, f) /\ Precedent(r, page.next))
AllShown(seen, u, page, f, depth) ==
  /\ (depth - 1) * Limit + Len(page.data) <= Cardinality(Ids(seen))
  /\ \A r \in Rows \ u : r \in Matching(table, f) /\ Precedent(r, page.next) => r \in Ids(seen)
Walked(seen, u, page, total, f, depth) ==
  /\ Counted(total, f, u)
  /\ page.next # NoCursor => page.next.id \in Ids(seen)
  /\ Unmixed(seen, u) => OnceEach(seen, u, page, f)
  /\ Ids(seen) \cap u = {} => AllShown(seen, u, page, f, depth)

\* Rows outside v are as they were, and v covers u.
Kept(u, v) == u \subseteq v /\ kind' = kind /\ \A r \in Rows \ v : table'[r] = table[r]

\* A row that did not change is where it was.
LEMMA RowKept ==
  ASSUME NEW u, NEW v, Kept(u, v), NEW r \in Rows \ v, NEW f, NEW c
  PROVE  /\ r \in Rows \ u
         /\ r \in Matching(table, f)' <=> r \in Matching(table, f)
         /\ Precedent(r, c)' <=> Precedent(r, c)
         /\ Follows(r, c)' <=> Follows(r, c)
         /\ table'[r].key = table[r].key
  <1>1. r \in Rows \ u /\ table'[r] = table[r] /\ r \in Rows
    BY DEF Kept
  <1>2. r \in Matching(table, f)' <=> r \in Matching(table, f)
    BY <1>1 DEF Matching
  <1>3. After(table, r, c)' <=> After(table, r, c)
    BY <1>1 DEF After
  <1>4. QED
    BY <1>1, <1>2, <1>3 DEF Precedent, Follows

\* A count stays one, but for the rows that change.
LEMMA CountedKept ==
  ASSUME NEW u, NEW v, Kept(u, v), NEW total, NEW f, Counted(total, f, u)
  PROVE  Counted(total, f, v)'
  <1>1. PICK M \in SUBSET Rows : Cardinality(M) = total /\ \A r \in Rows \ u : r \in M <=> r \in Matching(table, f)
    BY DEF Counted
  <1>2. \A r \in Rows \ v : r \in M <=> r \in Matching(table, f)'
    BY <1>1, RowKept
  <1>3. QED
    BY <1>1, <1>2 DEF Counted

\* A cursor stays current, unless its row changes.
LEMMA CurrentKept ==
  ASSUME NEW u, NEW v, Kept(u, v), NEW c \in Cursors \cup {NoCursor}, NEW f, Current(c, f, u)
  PROVE  Current(c, f, v)'
  <1>1. ASSUME c # NoCursor, c.id \notin v
        PROVE  c.id \in Matching(table, f)' /\ table'[c.id].key = c.key
    <2>1. c.id \in Rows \ v
      BY <1>1 DEF Cursors
    <2>2. c.id \notin u /\ table'[c.id].key = table[c.id].key
          /\ (c.id \in Matching(table, f)' <=> c.id \in Matching(table, f))
      BY <2>1, RowKept
    <2>3. QED
      BY <1>1, <2>2 DEF Current
  <1>2. QED
    BY <1>1 DEF Current

\* A page stays right, but for the rows that change.
LEMMA FreshKept ==
  ASSUME NEW u, NEW v, Kept(u, v), NEW page, PageOK(page), NEW c, NEW f, Fresh(page, f, c, u)
  PROVE  Fresh(page, f, c, v)'
  <1>1. page.next \in Cursors \cup {NoCursor}
    BY DEF PageOK, Pages
  <1>2. Current(page.next, f, v)'
    BY <1>1, CurrentKept DEF Fresh
  <1>3. ASSUME NEW r \in Rows \ v
        PROVE  Holds(page.data, r) <=> r \in Matching(table, f)' /\ Follows(r, c)' /\ Precedent(r, page.next)'
    <2>1. r \in Rows \ u
      BY RowKept
    <2>2. Holds(page.data, r) <=> r \in Matching(table, f) /\ Follows(r, c) /\ Precedent(r, page.next)
      BY <2>1 DEF Fresh
    <2>3. QED
      BY <2>2, RowKept
  <1>4. page.next # NoCursor => Beyond(c, page.next)
    BY DEF Fresh
  <1>5. QED
    BY <1>2, <1>3, <1>4 DEF Fresh

\* So does what a walk has shown.
LEMMA WalkedKept ==
  ASSUME NEW u, NEW v, Kept(u, v), NEW seen, NEW page, PageOK(page), NEW total, NEW f, NEW depth,
         Walked(seen, u, page, total, f, depth)
  PROVE  Walked(seen, v, page, total, f, depth)'
  <1>1. Counted(total, f, v)'
    BY CountedKept DEF Walked
  <1>2. page.next # NoCursor => page.next.id \in Ids(seen)
    BY DEF Walked
  <1>3. u \subseteq v /\ kind' = kind
    BY DEF Kept
  <1>4. ASSUME Unmixed(seen, v)' PROVE OnceEach(seen, v, page, f)'
    <2>1. OnceEach(seen, u, page, f)
      BY <1>3, <1>4 DEF Unmixed, Walked
    <2>2. page.next \in Cursors \cup {NoCursor}
      BY DEF PageOK, Pages
    <2>3. Current(page.next, f, v)'
      BY <2>1, <2>2, CurrentKept DEF OnceEach
    <2>4. ASSUME NEW r \in Rows \ v
          PROVE  seen[r] <= 1 /\ (r \in Ids(seen) => r \in Matching(table, f)' /\ Precedent(r, page.next)')
      <3>1. r \in Rows \ u
        BY RowKept
      <3>2. seen[r] <= 1 /\ (r \in Ids(seen) => r \in Matching(table, f) /\ Precedent(r, page.next))
        BY <2>1, <3>1 DEF OnceEach
      <3>3. QED
        BY <3>2, RowKept
    <2>5. QED
      BY <2>3, <2>4 DEF OnceEach
  <1>5. ASSUME Ids(seen) \cap v = {} PROVE AllShown(seen, v, page, f, depth)'
    <2>1. AllShown(seen, u, page, f, depth)
      BY <1>3, <1>5 DEF Walked
    <2>2. ASSUME NEW r \in Rows \ v, r \in Matching(table, f)', Precedent(r, page.next)'
          PROVE  r \in Ids(seen)
      <3>1. r \in Rows \ u /\ r \in Matching(table, f) /\ Precedent(r, page.next)
        BY <2>2, RowKept
      <3>2. QED
        BY <2>1, <3>1 DEF AllShown
    <2>3. QED
      BY <2>1, <2>2 DEF AllShown
  <1>6. QED
    BY <1>1, <1>2, <1>4, <1>5 DEF Walked

--------------------------------------------------------------------------------
\* A count is right when it is made.
LEMMA CountedNow ==
  ASSUME NEW f, NEW u, NEW total, total = Total(table, f)
  PROVE  Counted(total, f, u)
  <1>1. Matching(table, f) \in SUBSET Rows
    BY DEF Matching
  <1>2. QED
    BY <1>1 DEF Counted, Total

\* Rows that may have changed, and those that are tied to another besides.
Exempt(u, f) == {v \in SUBSET Rows : u \subseteq v /\ Apart(f, v)}

\* They stay so where they include the rows that change.
LEMMA ExemptKept ==
  ASSUME NEW u, NEW w, Kept(u, w), NEW f, NEW v, v \in Exempt(w, f)'
  PROVE  v \in Exempt(u, f) /\ Kept(v, v) /\ v \in SUBSET Rows /\ w \subseteq v
  <1>1. v \in SUBSET Rows /\ w \subseteq v /\ Apart(f, v)' /\ u \subseteq v
    BY DEF Exempt, Kept
  <1>2. Kept(v, v)
    BY <1>1 DEF Kept
  <1>3. ASSUME kind # "keyset", NEW r \in Matching(table, f) \ v, NEW q \in Matching(table, f) \ v,
               table[r].key = table[q].key
        PROVE  r = q
    <2>1. r \in Rows \ v /\ q \in Rows \ v
      BY <1>3 DEF Matching
    <2>2. r \in Matching(table, f)' /\ q \in Matching(table, f)' /\ table'[r].key = table'[q].key
      BY <1>2, <1>3, <2>1, RowKept
    <2>3. kind' = kind
      BY DEF Kept
    <2>4. QED
      BY <1>1, <1>3, <2>1, <2>2, <2>3 DEF Apart
  <1>4. Apart(f, v)
    BY <1>3 DEF Apart
  <1>5. QED
    BY <1>1, <1>2, <1>4 DEF Exempt

\* A count that is right is right but for more rows.
LEMMA CountedMore ==
  ASSUME NEW total, NEW f, NEW u, Counted(total, f, u), NEW v, u \subseteq v
  PROVE  Counted(total, f, v)
  BY DEF Counted

\* A walk starts with a first page.
LEMMA WalkStarts ==
  ASSUME NEW page, PageOK(page), NEW f, NEW u, Clear(page, u) => Fresh(page, f, NoCursor, u), NEW total, Counted(total, f, u),
         NEW depth \in Nat, depth <= 1, NEW seen, seen = Times(page.data)
  PROVE  Walked(seen, u, page, total, f, depth)
  <1>1. PICK data, D : data = page.data /\ D = {r \in Rows : Holds(data, r)}
    OBVIOUS
  <1>2. /\ Len(data) \in Nat /\ Cardinality(D) = Len(data)
        /\ \A r \in Rows : seen[r] = IF Holds(data, r) THEN 1 ELSE 0
    BY <1>1, TimesFacts
  <1>3. Ids(seen) = D
    BY <1>1, <1>2 DEF Ids
  <1>4. page.next # NoCursor => page.next.id \in Ids(seen)
    <2>1. page.next # NoCursor => Holds(data, page.next.id) /\ page.next.id \in Rows
      BY <1>1 DEF PageOK, Pages, Cursors
    <2>2. QED
      BY <1>1, <1>3, <2>1
  <1>5. ASSUME Clear(page, u)
        PROVE  \A r \in Rows \ u : r \in D <=> r \in Matching(table, f) /\ Precedent(r, page.next)
    BY <1>1, <1>5 DEF Fresh, Follows
  <1>6. ASSUME Clear(page, u) PROVE OnceEach(seen, u, page, f)
    <2>1. Current(page.next, f, u)
      BY <1>6 DEF Fresh
    <2>2. \A r \in Rows : seen[r] <= 1
      BY <1>2
    <2>3. QED
      BY <1>3, <1>5, <1>6, <2>1, <2>2 DEF OnceEach
  <1>7. ASSUME Clear(page, u) PROVE AllShown(seen, u, page, f, depth)
    <2>1. (depth - 1) * Limit <= 0
      <3>1. CASE depth = 1
        BY <3>1, LimitAssumption
      <3>2. CASE depth = 0
        BY <3>2, LimitAssumption
      <3>3. QED
        BY <3>1, <3>2
    <2>2. PICK a : a = (depth - 1) * Limit
      OBVIOUS
    <2>3. a \in Int
      BY <2>2, LimitAssumption
    <2>4. a + Len(page.data) <= Cardinality(Ids(seen))
      BY <1>1, <1>2, <1>3, <2>1, <2>2, <2>3
    <2>5. QED
      BY <1>3, <1>5, <1>7, <2>2, <2>4 DEF AllShown
  <1>8. Unmixed(seen, u) \/ Ids(seen) \cap u = {} => Clear(page, u)
    BY <1>1, <1>3 DEF Unmixed, Clear
  <1>9. QED
    BY <1>4, <1>6, <1>7, <1>8 DEF Walked

\* What a cursor beyond another leaves to follow.
LEMMA BeyondFacts ==
  ASSUME table \in Tables, NEW c \in Cursors \cup {NoCursor}, NEW d \in Cursors, c # NoCursor, Beyond(c, d), NEW r \in Rows
  PROVE  /\ Precedent(r, c) => Precedent(r, d)
         /\ Follows(r, c) <=> ~Precedent(r, c)
  <1>1. r \in Nat /\ table[r].key \in Nat
    BY KeyTypes
  <1>2. c.id \in Nat /\ c.key \in Nat /\ d.id \in Nat /\ d.key \in Nat
    BY RowsAssumption DEF Cursors
  <1>3. QED
    BY <1>1, <1>2 DEF Precedent, Follows, Beyond, After

\* A walk goes on with the page at its cursor.
LEMMA WalkGoesOn ==
  ASSUME table \in Tables, NEW seen \in [Rows -> Nat], NEW u, NEW page, PageOK(page), NEW total, NEW f, NEW depth \in Nat,
         Walked(seen, u, page, total, f, depth),
         NEW c, c = page.next, c # NoCursor,
         NEW page2, PageOK(page2), NEW total2, Counted(total2, f, u),
         Unmixed(seen, u) /\ Clear(page2, u) => Fresh(page2, f, c, u),
         NEW seen2, seen2 = [r \in Rows |-> seen[r] + Times(page2.data)[r]]
  PROVE  Walked(seen2, u, page2, total2, f, depth + 1)
  <1>1. PICK data, D : data = page2.data /\ D = {r \in Rows : Holds(data, r)}
    OBVIOUS
  <1>2. /\ Len(data) \in Nat /\ IsFiniteSet(D) /\ Cardinality(D) = Len(data)
        /\ \A r \in Rows : Times(data)[r] = IF Holds(data, r) THEN 1 ELSE 0
    BY <1>1, TimesFacts
  <1>3. \A r \in Rows : /\ r \in D => seen2[r] = seen[r] + 1
                        /\ r \notin D => seen2[r] = seen[r]
                        /\ seen[r] \in Nat
    BY <1>1, <1>2
  <1>4. Ids(seen2) = Ids(seen) \cup D
    BY <1>1, <1>3 DEF Ids
  <1>5. c \in Cursors \cup {NoCursor} /\ page2.next \in Cursors \cup {NoCursor}
    BY DEF PageOK, Pages
  <1>6. page2.next # NoCursor => page2.next.id \in Ids(seen2)
    <2>1. page2.next # NoCursor => Holds(data, page2.next.id) /\ page2.next.id \in Rows
      BY <1>1 DEF PageOK, Pages, Cursors
    <2>2. QED
      BY <1>1, <1>4, <2>1
  <1>7. /\ Ids(seen2) \cap u = {} => Ids(seen) \cap u = {} /\ Unmixed(seen2, u)
        /\ Unmixed(seen2, u) => Unmixed(seen, u) /\ Clear(page2, u)
    BY <1>1, <1>4 DEF Unmixed, Clear
  <1>8. ASSUME NEW r \in Rows, page2.next # NoCursor, Unmixed(seen2, u), Precedent(r, c)
        PROVE  Precedent(r, page2.next)
    <2>1. page2.next \in Cursors /\ Beyond(c, page2.next)
      BY <1>5, <1>7, <1>8 DEF Fresh
    <2>2. QED
      BY <1>5, <1>8, <2>1, BeyondFacts
  <1>9. ASSUME NEW r \in Rows PROVE Follows(r, c) <=> ~Precedent(r, c)
    BY DEF Follows, Precedent
  <1>10. ASSUME Unmixed(seen2, u)
         PROVE  /\ OnceEach(seen2, u, page2, f)
                /\ \A r \in Rows \ u : r \in D => r \notin Ids(seen)
    <2>1. Fresh(page2, f, c, u) /\ OnceEach(seen, u, page, f)
      BY <1>7, <1>10 DEF Walked
    <2>2. ASSUME NEW r \in Rows \ u
          PROVE  r \in D <=> r \in Matching(table, f) /\ ~Precedent(r, c) /\ Precedent(r, page2.next)
      BY <1>1, <1>9, <2>1 DEF Fresh
    <2>3. ASSUME NEW r \in Rows \ u
          PROVE  seen[r] <= 1 /\ (r \in Ids(seen) => r \in Matching(table, f) /\ Precedent(r, c))
      BY <2>1 DEF OnceEach
    <2>4. \A r \in Rows \ u : r \in D => r \notin Ids(seen)
      BY <2>2, <2>3
    <2>5. ASSUME NEW r \in Rows \ u PROVE seen2[r] <= 1
      <3>1. CASE r \in D
        <4>1. r \notin Ids(seen)
          BY <2>4, <3>1
        <4>2. seen[r] = 0
          BY <1>3, <4>1 DEF Ids
        <4>3. QED
          BY <1>3, <3>1, <4>2
      <3>2. CASE r \notin D
        BY <1>3, <2>3, <3>2
      <3>3. QED
        BY <3>1, <3>2
    <2>6. ASSUME NEW r \in Rows \ u, r \in Ids(seen2)
          PROVE  r \in Matching(table, f) /\ Precedent(r, page2.next)
      <3>1. CASE r \in D
        BY <2>2, <3>1
      <3>2. CASE r \in Ids(seen)
        <4>1. r \in Matching(table, f) /\ Precedent(r, c)
          BY <2>3, <3>2
        <4>2. CASE page2.next = NoCursor
          BY <4>1, <4>2 DEF Precedent
        <4>3. CASE page2.next # NoCursor
          BY <1>8, <1>10, <4>1, <4>3
        <4>4. QED
          BY <4>1, <4>2, <4>3
      <3>3. QED
        BY <1>4, <2>6, <3>1, <3>2
    <2>7. Current(page2.next, f, u)
      BY <2>1 DEF Fresh
    <2>8. OnceEach(seen2, u, page2, f)
      BY <2>5, <2>6, <2>7 DEF OnceEach
    <2>9. QED
      BY <2>4, <2>8
  <1>11. ASSUME Ids(seen2) \cap u = {}
         PROVE  AllShown(seen2, u, page2, f, depth + 1)
    <2>1. AllShown(seen, u, page, f, depth) /\ Unmixed(seen2, u)
      BY <1>7, <1>11 DEF Walked
    <2>2. Fresh(page2, f, c, u) /\ \A r \in Rows \ u : r \in D => r \notin Ids(seen)
      BY <1>7, <1>10, <2>1
    <2>3. Ids(seen) \cap D = {}
      BY <1>1, <1>4, <1>11, <2>2
    <2>4. IsFiniteSet(Ids(seen))
      <3>1. Ids(seen) \subseteq Rows
        BY DEF Ids
      <3>2. QED
        BY <3>1, RowsFinite
    <2>5. Cardinality(Ids(seen2)) = Cardinality(Ids(seen)) + Len(data)
      <3>1. Cardinality(Ids(seen) \cup D) = Cardinality(Ids(seen)) + Cardinality(D) - Cardinality(Ids(seen) \cap D)
        BY <1>2, <2>4, FS_Union
      <3>2. Cardinality(Ids(seen) \cap D) = 0
        BY <2>3, FS_EmptySet
      <3>3. Cardinality(Ids(seen)) \in Nat
        BY <2>4, FS_CardinalityType
      <3>4. PICK m : m = Cardinality(Ids(seen))
        OBVIOUS
      <3>5. Cardinality(Ids(seen) \cup D) = m + Len(data) - 0 /\ m \in Nat
        BY <1>2, <3>1, <3>2, <3>3, <3>4
      <3>6. Cardinality(Ids(seen) \cup D) = m + Len(data)
        BY <1>2, <3>5
      <3>7. QED
        BY <1>4, <3>4, <3>6
    <2>6. (depth + 1 - 1) * Limit + Len(page2.data) <= Cardinality(Ids(seen2))
      <3>1. Len(page.data) = Limit
        BY DEF PageOK
      <3>2. PICK a, b : a = (depth - 1) * Limit /\ b = (depth + 1 - 1) * Limit
        OBVIOUS
      <3>3. a \in Int /\ b \in Int /\ b = a + Limit
        BY <3>2, LimitAssumption
      <3>4. PICK m, n : m = Cardinality(Ids(seen)) /\ n = Cardinality(Ids(seen2))
        OBVIOUS
      <3>5. m \in Nat
        BY <2>4, <3>4, FS_CardinalityType
      <3>6. a + Limit <= m
        BY <2>1, <3>1, <3>2, <3>4 DEF AllShown
      <3>7. n = m + Len(data)
        BY <2>5, <3>4
      <3>8. b + Len(data) <= n
        BY <1>2, <3>3, <3>5, <3>6, <3>7, LimitAssumption
      <3>9. QED
        BY <1>1, <3>2, <3>4, <3>8
    <2>7. ASSUME NEW r \in Rows \ u, r \in Matching(table, f), Precedent(r, page2.next)
          PROVE  r \in Ids(seen2)
      <3>1. CASE Precedent(r, c)
        BY <1>4, <2>1, <2>7, <3>1 DEF AllShown
      <3>2. CASE ~Precedent(r, c)
        <4>1. Holds(data, r)
          BY <1>1, <1>9, <2>2, <2>7, <3>2 DEF Fresh
        <4>2. QED
          BY <1>1, <1>4, <4>1
      <3>3. QED
        BY <3>1, <3>2
    <2>8. QED
      BY <2>6, <2>7 DEF AllShown
  <1>12. ASSUME Unmixed(seen2, u) PROVE OnceEach(seen2, u, page2, f)
    BY <1>10, <1>12
  <1>13. QED
    BY <1>6, <1>11, <1>12 DEF Walked

\* A walk that has no next page has shown every row.
LEMMA WalkEnds ==
  ASSUME NEW seen \in [Rows -> Nat], NEW u, NEW page, NEW total, NEW f, NEW depth,
         Walked(seen, u, page, total, f, depth), Ids(seen) \cap u = {},
         NEW r \in Matching(table, f) \ u,
         NEW to, to = (depth - 1) * Limit + Len(page.data)
  PROVE  seen[r] <= 1 /\ (~(page.next # NoCursor /\ to # total) => r \in Ids(seen))
  <1>1. OnceEach(seen, u, page, f) /\ AllShown(seen, u, page, f, depth) /\ Counted(total, f, u)
    BY DEF Walked, Unmixed
  <1>2. r \in Rows \ u
    BY DEF Matching
  <1>3. seen[r] <= 1
    BY <1>1, <1>2 DEF OnceEach
  <1>4. CASE page.next = NoCursor
    <2>1. Precedent(r, page.next)
      BY <1>4 DEF Precedent
    <2>2. QED
      BY <1>1, <1>2, <1>3, <2>1 DEF AllShown
  <1>5. CASE to = total
    <2>1. PICK M \in SUBSET Rows : Cardinality(M) = total /\ \A q \in Rows \ u : q \in M <=> q \in Matching(table, f)
      BY <1>1 DEF Counted
    <2>2. Cardinality(M) <= Cardinality(Ids(seen))
      BY <1>1, <1>5, <2>1 DEF AllShown
    <2>3. Ids(seen) \in SUBSET M
      BY <1>1, <2>1 DEF OnceEach, Ids
    <2>4. IsFiniteSet(M) /\ Cardinality(M) \in Nat /\ Cardinality(Ids(seen)) \in Nat
      <3>1. Ids(seen) \subseteq Rows
        BY DEF Ids
      <3>2. QED
        BY <2>1, <3>1, RowsFinite
    <2>5. /\ Cardinality(Ids(seen)) <= Cardinality(M)
          /\ Cardinality(M) = Cardinality(Ids(seen)) => M = Ids(seen)
      BY <2>3, <2>4, FS_Subset
    <2>6. M = Ids(seen)
      BY <2>2, <2>4, <2>5
    <2>7. QED
      BY <1>2, <1>3, <2>1, <2>6
  <1>6. QED
    BY <1>3, <1>4, <1>5

--------------------------------------------------------------------------------
(* What requests have read, and what the pages of the walk have shown *)

\* Request r starts a walk or may go on with it; the rows that have changed meanwhile.
Counts(r)  == r.cursor = NoCursor \/ (r.op = "next" /\ walk.pure)
Touched(r) == IF r.cursor = NoCursor THEN r.touched ELSE walk.touched
Placed(r, v) == r.cursor = NoCursor \/ Unmixed(walk.seen, v)

\* What request r has read is right, but for those rows.
Answers(r) ==
  /\ "total" \in r.has => Counted(r.total, r.filter, Touched(r))
  /\ "page" \in r.has => \A v \in Exempt(Touched(r), r.filter) :
       Placed(r, v) /\ Clear(r.page, v) => Fresh(r.page, r.filter, r.cursor, v)
  /\ r.cursor # NoCursor => r.filter = shown.filter /\ r.cursor = shown.page.next

Answering == \A s \in Underway : ~req[s].overlaps /\ Counts(req[s]) => Answers(req[s])

WalkedNow ==
  \A v \in Exempt(walk.touched, shown.filter) :
    Walked(walk.seen, v, shown.page, shown.total, shown.filter, Len(stack))
Walking   == walk.pure => ~upset /\ WalkedNow

\* Nothing changes.
LEMMA SameTable ==
  ASSUME UNCHANGED <<kind, table>>, NEW u
  PROVE  Kept(u, u)
  BY DEF Kept

\* Where neither rows nor the walk change, a request stays right.
LEMMA AnswersSame ==
  ASSUME UNCHANGED <<kind, table, walk, shown>>, NEW r, PageOK(r.page), Counts(r) => Answers(r)
  PROVE  Counts(r)' => Answers(r)'
  <1>1. UNCHANGED <<kind, table, walk, shown>>
    OBVIOUS
  <1>2. PICK u : u = Touched(r)
    OBVIOUS
  <1>3. Kept(u, u) /\ Touched(r)' = u
    BY <1>1, <1>2, SameTable DEF Touched
  <1>4. Counts(r)' = Counts(r)
    BY <1>1 DEF Counts
  <1>5. SUFFICES ASSUME Counts(r) PROVE Answers(r)'
    BY <1>4
  <1>6. "total" \in r.has => Counted(r.total, r.filter, u)'
    BY <1>2, <1>3, <1>5, CountedKept DEF Answers
  <1>7. ASSUME "page" \in r.has, NEW v, v \in Exempt(u, r.filter)', Placed(r, v)', Clear(r.page, v)'
        PROVE  Fresh(r.page, r.filter, r.cursor, v)'
    <2>1. v \in Exempt(u, r.filter) /\ Kept(v, v)
      BY <1>3, <1>7, ExemptKept
    <2>2. Placed(r, v) /\ Clear(r.page, v)
      BY <1>1, <1>7 DEF Placed, Clear, Unmixed
    <2>3. Fresh(r.page, r.filter, r.cursor, v)
      BY <1>2, <1>5, <1>7, <2>1, <2>2 DEF Answers
    <2>4. QED
      BY <2>1, <2>3, FreshKept
  <1>8. r.cursor # NoCursor => r.filter = shown'.filter /\ r.cursor = shown'.page.next
    BY <1>1, <1>5 DEF Answers
  <1>9. QED
    BY <1>3, <1>6, <1>7, <1>8 DEF Answers

\* Nor does what the walk has shown change.
LEMMA WalkingSame ==
  ASSUME UNCHANGED <<kind, table, walk, shown, stack, upset>>, PageOK(shown.page), Walking
  PROVE  Walking'
  <1>1. UNCHANGED <<kind, table, walk, shown, stack, upset>>
    OBVIOUS
  <1>2. SUFFICES ASSUME walk.pure PROVE ~upset /\ WalkedNow'
    BY <1>1 DEF Walking
  <1>3. ~upset /\ WalkedNow
    BY <1>2 DEF Walking
  <1>4. PICK seen, u, page, total, f, depth :
          /\ seen = walk.seen /\ u = walk.touched /\ page = shown.page /\ total = shown.total
          /\ f = shown.filter /\ depth = Len(stack)
    OBVIOUS
  <1>5. PageOK(page) /\ Kept(u, u)
    BY <1>1, <1>4, SameTable
  <1>6. ASSUME NEW v, v \in Exempt(u, f)' PROVE Walked(seen, v, page, total, f, depth)'
    <2>1. v \in Exempt(u, f) /\ Kept(v, v)
      BY <1>5, <1>6, ExemptKept
    <2>2. Walked(seen, v, page, total, f, depth)
      BY <1>3, <1>4, <2>1 DEF WalkedNow
    <2>3. QED
      BY <1>5, <2>1, <2>2, WalkedKept
  <1>7. /\ walk'.seen = seen /\ walk'.touched = u /\ shown'.page = page /\ shown'.total = total
        /\ shown'.filter = f /\ Len(stack') = depth
    BY <1>1, <1>4
  <1>8. QED
    BY <1>3, <1>6, <1>7 DEF WalkedNow

\* A first page is the first of the stack.
LEMMA FirstDepth ==
  ASSUME Stacked, NEW r, ReqTyped(r), Fits(r), r.cursor = NoCursor, NEW after, after = StackAfter(r)
  PROVE  Len(after) \in Nat /\ Len(after) <= 1
  <1>1. stack \in Seq(Cursors \cup {NoCursor}) /\ \A i \in 1..Len(stack) : stack[i] = NoCursor => i = 1
    BY DEF Stacked
  <1>2. Len(stack) \in Nat
    BY <1>1
  <1>3. r.op \in {"filter", "previous", "refresh"}
    BY DEF Fits, ReqTyped
  <1>4. CASE r.op = "filter"
    <2>1. after = <<NoCursor>>
      BY <1>4 DEF StackAfter
    <2>2. QED
      BY <2>1
  <1>5. CASE r.op = "previous"
    <2>1. Len(stack) >= 2 /\ stack[Len(stack) - 1] = NoCursor
      BY <1>5 DEF Fits
    <2>2. Len(stack) - 1 = 1
      <3>1. PICK n : n = Len(stack) - 1
        OBVIOUS
      <3>2. n \in 1..Len(stack) /\ stack[n] = NoCursor
        BY <1>2, <2>1, <3>1
      <3>3. QED
        BY <1>1, <3>1, <3>2
    <2>3. after = SubSeq(stack, 1, Len(stack) - 1)
      BY <1>5 DEF StackAfter
    <2>4. PICK n : n = Len(stack) - 1
      OBVIOUS
    <2>5. n \in Nat /\ n <= Len(stack) /\ n = 1 /\ after = SubSeq(stack, 1, n)
      BY <1>2, <2>2, <2>3, <2>4
    <2>6. Len(after) = n - 1 + 1
      BY <1>1, <2>5, SubFacts
    <2>7. QED
      BY <2>5, <2>6
  <1>6. CASE r.op = "refresh"
    <2>1. after = stack
      BY <1>6 DEF StackAfter
    <2>2. Top = NoCursor
      BY <1>6 DEF Fits
    <2>3. CASE stack = <<>>
      BY <2>1, <2>3
    <2>4. CASE stack # <<>>
      <3>1. Len(stack) \in 1..Len(stack) /\ stack[Len(stack)] = NoCursor
        BY <1>1, <1>2, <2>2, <2>4 DEF Top, Last
      <3>2. Len(stack) = 1
        BY <1>1, <3>1
      <3>3. QED
        BY <2>1, <3>2
    <2>5. QED
      BY <2>3, <2>4
  <1>7. QED
    BY <1>3, <1>4, <1>5, <1>6

Whole == IInv /\ Typed /\ Answering /\ Walking

\* Requests that stay as they are.
LEMMA RequestSame ==
  ASSUME Typed, Answering, UNCHANGED <<kind, table, walk, shown>>, NEW s \in Underway, req'[s] = req[s],
         ~req'[s].overlaps, Counts(req[s])'
  PROVE  Answers(req[s])'
  <1>1. PICK r : r = req[s]
    OBVIOUS
  <1>2. PageOK(r.page)
    BY <1>1 DEF Typed, ReqTyped, Underway
  <1>3. Counts(r) => Answers(r)
    BY <1>1 DEF Answering
  <1>4. Counts(r)' => Answers(r)'
    BY <1>2, <1>3, AnswersSame
  <1>5. req'[s] = r
    BY <1>1
  <1>6. QED
    BY <1>4, <1>5

\* Somebody changes a row.
LEMMA ChangeWhole ==
  ASSUME Whole, Change
  PROVE  Answering' /\ Walking'
  <1>1. PICK x \in Rows, new \in Tables :
          /\ \A q \in Rows \ {x} : new[q] = table[q]
          /\ table' = new /\ walk' = [walk EXCEPT !.touched = @ \cup {x}]
          /\ req' = [s \in Slots |-> IF req[s].has = {} THEN req[s] ELSE [req[s] EXCEPT !.touched = @ \cup {x}]]
    BY DEF Change
  <1>2. UNCHANGED <<kind, filter, shown, stack, loading, upset, asked>>
    BY DEF Change
  <1>3. walk \in [seen: [Rows -> Nat], touched: SUBSET Rows, pure: BOOLEAN] /\ PageOK(shown.page)
    BY DEF Whole, Typed, ShownTyped
  <1>4. walk'.seen = walk.seen /\ walk'.touched = walk.touched \cup {x} /\ walk'.pure = walk.pure
    BY <1>1, <1>3
  <1>5. ASSUME NEW u PROVE Kept(u, u \cup {x})
    BY <1>1, <1>2 DEF Kept
  <1>6. PICK seen, w, v : seen = walk.seen /\ w = walk.touched /\ v = w \cup {x}
    OBVIOUS
  <1>7. walk'.seen = seen /\ walk'.touched = v /\ Kept(w, v)
    BY <1>4, <1>5, <1>6
  <1>8. Walking'
    <2>1. SUFFICES ASSUME walk'.pure PROVE ~upset' /\ WalkedNow'
      BY DEF Walking
    <2>2. ~upset /\ WalkedNow
      BY <1>4, <2>1 DEF Whole, Walking
    <2>3. PICK page, total, f, depth :
            page = shown.page /\ total = shown.total /\ f = shown.filter /\ depth = Len(stack)
      OBVIOUS
    <2>4. PageOK(page)
      BY <1>3, <2>3
    <2>5. ASSUME NEW e, e \in Exempt(v, f)' PROVE Walked(seen, e, page, total, f, depth)'
      <3>1. e \in Exempt(w, f) /\ Kept(e, e)
        BY <1>7, <2>5, ExemptKept
      <3>2. Walked(seen, e, page, total, f, depth)
        BY <1>6, <2>2, <2>3, <3>1 DEF WalkedNow
      <3>3. QED
        BY <2>4, <3>1, <3>2, WalkedKept
    <2>6. shown'.page = page /\ shown'.total = total /\ shown'.filter = f /\ Len(stack') = depth /\ upset' = upset
      BY <1>2, <2>3
    <2>7. QED
      BY <1>7, <2>2, <2>5, <2>6 DEF WalkedNow
  <1>9. ASSUME NEW s \in Underway', ~req'[s].overlaps, Counts(req[s])'
        PROVE  Answers(req[s])'
    <2>1. s \in Slots
      BY DEF Underway
    <2>2. PICK r, q : r = req[s] /\ q = req'[s]
      OBVIOUS
    <2>3. ReqTyped(r) /\ r \in Requests /\ PageOK(r.page)
      BY <2>1, <2>2 DEF Whole, Typed, ReqTyped
    <2>4. q = IF r.has = {} THEN r ELSE [r EXCEPT !.touched = @ \cup {x}]
      BY <1>1, <2>1, <2>2
    <2>5. /\ q.op = r.op /\ q.filter = r.filter /\ q.cursor = r.cursor /\ q.has = r.has /\ q.cancelled = r.cancelled
          /\ q.page = r.page /\ q.total = r.total /\ q.overlaps = r.overlaps
          /\ r.has # {} => q.touched = r.touched \cup {x}
      <3>1. CASE r.has = {}
        BY <2>4, <3>1
      <3>2. CASE r.has # {}
        BY <2>3, <2>4, <3>2 DEF Requests
      <3>3. QED
        BY <3>1, <3>2
    <2>6. s \in Underway /\ ~r.overlaps /\ Counts(r)
      BY <1>4, <1>9, <2>1, <2>2, <2>5 DEF Underway, Counts
    <2>7. Answers(r)
      BY <2>2, <2>6 DEF Whole, Answering
    <2>8. PICK u, t : u = Touched(r) /\ t = Touched(q)'
      OBVIOUS
    <2>9. r.has # {} => Kept(u, t)
      <3>1. ASSUME r.has # {} PROVE t = u \cup {x}
        BY <1>4, <2>5, <2>8, <3>1 DEF Touched
      <3>2. QED
        BY <1>5, <3>1
    <2>10. "total" \in r.has => Counted(r.total, r.filter, t)'
      BY <2>7, <2>8, <2>9, CountedKept DEF Answers
    <2>11. ASSUME "page" \in r.has, NEW e, e \in Exempt(t, r.filter)', Placed(q, e)', Clear(r.page, e)'
           PROVE  Fresh(r.page, r.filter, r.cursor, e)'
      <3>1. e \in Exempt(u, r.filter) /\ Kept(e, e)
        BY <2>9, <2>11, ExemptKept
      <3>2. Placed(r, e) /\ Clear(r.page, e)
        BY <1>2, <1>4, <2>5, <2>11 DEF Placed, Clear, Unmixed
      <3>3. Fresh(r.page, r.filter, r.cursor, e)
        BY <2>7, <2>8, <2>11, <3>1, <3>2 DEF Answers
      <3>4. QED
        BY <2>3, <3>1, <3>3, FreshKept
    <2>12. r.cursor # NoCursor => r.filter = shown'.filter /\ r.cursor = shown'.page.next
      BY <1>2, <2>7 DEF Answers
    <2>13. Answers(q)'
      BY <2>5, <2>8, <2>10, <2>11, <2>12 DEF Answers
    <2>14. QED
      BY <2>2, <2>13
  <1>10. Answering'
    BY <1>9 DEF Answering
  <1>11. QED
    BY <1>8, <1>10

\* A request is sent: if it goes on with the walk it goes on where the page that is shown ends.
LEMMA SendWhole ==
  ASSUME Whole, IInv', NEW s \in Slots, NEW op, op # "none", NEW f, NEW c, NEW others, NEW cancelled,
         Send(s, op, f, c, others, cancelled), UNCHANGED <<kind, table, shown, stack, walk, upset>>,
         c = NoCursor \/ op # "next" \/ (c = shown.page.next /\ others = Underway /\ f = filter)
  PROVE  Answering' /\ Walking'
  <1>1. UNCHANGED <<kind, table, shown, stack, walk, upset>>
    OBVIOUS
  <1>2. Walking'
    <2>1. PageOK(shown.page) /\ Walking
      BY DEF Whole, Typed, ShownTyped
    <2>2. QED
      BY <1>1, <2>1, WalkingSame
  <1>3. PICK q : q = req'[s]
    OBVIOUS
  <1>4. PICK o : o = (others # {})
    OBVIOUS
  <1>5. Asks(q, op, f, c, o) /\ q.has = {}
    <2>1. q = [Unused EXCEPT !.op = op, !.filter = f, !.cursor = c, !.overlaps = o]
      BY <1>3, <1>4 DEF Send
    <2>2. q.has = {}
      BY <2>1 DEF Unused
    <2>3. QED
      BY <2>1, <2>2, SentShape
  <1>6. ASSUME NEW t \in Underway', ~req'[t].overlaps, Counts(req[t])'
        PROVE  Answers(req[t])'
    <2>1. Underway' = {t}
      BY <1>6 DEF IInv, Alone
    <2>2. CASE t # s
      <3>1. s \notin Underway'
        BY <2>1, <2>2
      <3>2. op = "none"
        BY <1>3, <1>5, <3>1 DEF Underway, Asks
      <3>3. QED
        BY <3>2
    <2>3. CASE t = s
      <3>1. ~o /\ q.cursor = c /\ q.filter = f /\ q.op = op
        BY <1>3, <1>5, <1>6, <2>3 DEF Asks
      <3>2. c = NoCursor \/ (op = "next" /\ walk.pure)
        BY <1>1, <1>3, <1>6, <2>3, <3>1 DEF Counts
      <3>3. c # NoCursor => f = shown'.filter /\ c = shown'.page.next
        <4>1. SUFFICES ASSUME c # NoCursor PROVE f = shown.filter /\ c = shown.page.next
          BY <1>1
        <4>2. c = shown.page.next /\ Underway = {} /\ f = filter /\ walk.pure
          BY <1>4, <3>1, <3>2, <4>1
        <4>3. ~upset
          BY <4>2 DEF Whole, Walking
        <4>4. shown.filter = filter
          BY <4>2, <4>3 DEF Whole, IInv, ShownIsAskedFor
        <4>5. QED
          BY <4>2, <4>4
      <3>4. Answers(q)'
        BY <1>5, <3>1, <3>3 DEF Answers
      <3>5. QED
        BY <1>3, <2>3, <3>4
    <2>4. QED
      BY <2>2, <2>3
  <1>7. QED
    BY <1>2, <1>6 DEF Answering

\* A page or a count is read.
LEMMA ReadWhole ==
  ASSUME Whole, NEW s \in Slots, ReadPage(s) \/ Count(s) \/ Refuse(s)
  PROVE  Answering' /\ Walking'
  <1>1. UNCHANGED <<kind, table, shown, stack, walk, upset>>
    BY DEF ReadPage, Count, Refuse, hook
  <1>2. Walking'
    <2>1. PageOK(shown.page) /\ Walking
      BY DEF Whole, Typed, ShownTyped
    <2>2. QED
      BY <1>1, <2>1, WalkingSame
  <1>3. PICK r, q : r = req[s] /\ q = req'[s]
    OBVIOUS
  <1>4. ReqTyped(r) /\ r \in Requests /\ PageOK(r.page) /\ Shapes /\ Scalars
    BY <1>3 DEF Whole, Typed, ReqTyped, IInv
  <1>5. PICK total : total = Total(table, r.filter)
    OBVIOUS
  <1>6. /\ q.op = r.op /\ q.filter = r.filter /\ q.cursor = r.cursor /\ q.cancelled = r.cancelled
        /\ q.touched = r.touched /\ q.overlaps = r.overlaps
        /\ \/ q.page \in PagesOf(r.filter, r.cursor)
           \/ q.page = r.page /\ ("page" \in q.has => "page" \in r.has)
           \/ "page" \notin q.has
        /\ \/ q.total = total
           \/ q.total = r.total /\ ("total" \in q.has => "total" \in r.has)
           \/ "total" \notin q.has
        /\ \A t \in Slots \ {s} : req'[t] = req[t]
    <2>1. CASE ReadPage(s)
      <3>1. PICK page \in PagesOf(r.filter, r.cursor) :
              req' = [req EXCEPT ![s].page = page,
                        ![s].has = IF kind = "rows" THEN {"page", "total"} ELSE @ \cup {"page"},
                        ![s].total = IF kind = "rows" THEN Total(table, req[s].filter) ELSE @]
        BY <1>3, <2>1 DEF ReadPage
      <3>2. PICK has : has = IF kind = "rows" THEN {"page", "total"} ELSE r.has \cup {"page"}
        OBVIOUS
      <3>3. PICK count : count = IF kind = "rows" THEN total ELSE r.total
        OBVIOUS
      <3>4. q = [r EXCEPT !.page = page, !.has = has, !.total = count] /\ \A t \in Slots \ {s} : req'[t] = req[t]
        BY <1>3, <1>4, <1>5, <3>1, <3>2, <3>3 DEF Shapes
      <3>5. /\ q.op = r.op /\ q.filter = r.filter /\ q.cursor = r.cursor /\ q.cancelled = r.cancelled
            /\ q.touched = r.touched /\ q.overlaps = r.overlaps
            /\ q.page = page /\ q.has = has /\ q.total = count
        BY <1>4, <3>4 DEF Requests
      <3>6. CASE kind = "rows"
        BY <3>2, <3>3, <3>4, <3>5, <3>6
      <3>7. CASE kind # "rows"
        BY <3>2, <3>3, <3>4, <3>5, <3>7
      <3>8. QED
        BY <3>6, <3>7
    <2>2. CASE Count(s)
      <3>1. PICK has : has = r.has \cup {"total"}
        OBVIOUS
      <3>2. q = [r EXCEPT !.total = total, !.has = has] /\ \A t \in Slots \ {s} : req'[t] = req[t]
        BY <1>3, <1>4, <1>5, <2>2, <3>1 DEF Count, Shapes
      <3>3. /\ q.op = r.op /\ q.filter = r.filter /\ q.cursor = r.cursor /\ q.cancelled = r.cancelled
            /\ q.touched = r.touched /\ q.overlaps = r.overlaps
            /\ q.page = r.page /\ q.has = has /\ q.total = total
        BY <1>4, <3>2 DEF Requests
      <3>4. QED
        BY <3>1, <3>2, <3>3
    <2>3. CASE Refuse(s)
      <3>1. PICK none, zero, has : none = Unused.page /\ zero = 0 /\ has = {"error"}
        OBVIOUS
      <3>2. q = [r EXCEPT !.page = none, !.total = zero, !.has = has] /\ \A t \in Slots \ {s} : req'[t] = req[t]
        BY <1>3, <1>4, <2>3, <3>1 DEF Refuse, Shapes
      <3>3. /\ q.op = r.op /\ q.filter = r.filter /\ q.cursor = r.cursor /\ q.cancelled = r.cancelled
            /\ q.touched = r.touched /\ q.overlaps = r.overlaps /\ q.has = has
        BY <1>4, <3>2 DEF Requests
      <3>4. QED
        BY <3>1, <3>2, <3>3
    <2>4. QED
      BY <2>1, <2>2, <2>3
  <1>7. Underway' = Underway
    BY <1>3, <1>6 DEF Underway
  <1>8. ASSUME NEW t \in Underway', ~req'[t].overlaps, Counts(req[t])', t # s
        PROVE  Answers(req[t])'
    <2>1. t \in Underway /\ req'[t] = req[t]
      BY <1>6, <1>7, <1>8 DEF Underway
    <2>2. Typed /\ Answering
      BY DEF Whole
    <2>3. QED
      BY <1>1, <1>8, <2>1, <2>2, RequestSame
  <1>9. ASSUME s \in Underway', ~q.overlaps, Counts(q)'
        PROVE  Answers(q)'
    <2>1. s \in Underway /\ ~r.overlaps /\ Counts(r)
      BY <1>1, <1>6, <1>7, <1>9 DEF Counts
    <2>2. Answers(r) /\ Counts(r)'
      BY <1>1, <1>3, <2>1 DEF Whole, Answering, Counts
    <2>3. Answers(r)'
      BY <1>1, <1>4, <2>2, AnswersSame
    <2>4. PICK f, c, u : f = r.filter /\ c = r.cursor /\ u = Touched(r)
      OBVIOUS
    <2>5. Touched(r)' = u /\ Touched(q)' = u /\ Kept(u, u)
      BY <1>1, <1>6, <2>4, SameTable DEF Touched
    <2>6. "total" \in q.has => Counted(q.total, f, u)'
      <3>1. CASE q.total = total
        <4>1. Counted(total, f, u)
          BY <1>5, <2>4, CountedNow
        <4>2. QED
          BY <2>5, <3>1, <4>1, CountedKept
      <3>2. CASE q.total = r.total /\ ("total" \in q.has => "total" \in r.has)
        BY <2>3, <2>4, <2>5, <3>2 DEF Answers
      <3>3. QED
        BY <1>6, <3>1, <3>2
    <2>7. ASSUME "page" \in q.has, NEW v, v \in Exempt(u, f)', Placed(q, v)', Clear(q.page, v)'
          PROVE  Fresh(q.page, f, c, v)'
      <3>1. v \in Exempt(u, f) /\ Kept(v, v)
        BY <2>5, <2>7, ExemptKept
      <3>2. Placed(r, v) /\ Placed(r, v)' /\ Clear(q.page, v)
        BY <1>1, <1>6, <2>7 DEF Placed, Clear, Unmixed
      <3>3. CASE q.page \in PagesOf(f, c)
        <4>1. c \in Cursors \cup {NoCursor} /\ table \in Tables /\ kind \in {"keyset", "rows"}
          BY <1>4, <2>4 DEF Requests, Scalars
        <4>2. Steady(c, f, v)
          <5>1. CASE c = NoCursor \/ kind = "keyset"
            BY <5>1 DEF Steady
          <5>2. CASE c # NoCursor /\ kind # "keyset"
            <6>1. Ids(walk.seen) \cap v = {} /\ walk.pure /\ u = walk.touched
              BY <2>1, <2>4, <3>2, <5>2 DEF Placed, Unmixed, Counts, Touched
            <6>2. f = shown.filter /\ c = shown.page.next
              BY <2>2, <2>4, <5>2 DEF Answers
            <6>3. Walked(walk.seen, v, shown.page, shown.total, shown.filter, Len(stack))
              BY <3>1, <6>1, <6>2 DEF Whole, Walking, WalkedNow
            <6>4. Current(c, f, v) /\ c.id \in Ids(walk.seen)
              BY <5>2, <6>1, <6>2, <6>3 DEF Walked, OnceEach, Unmixed
            <6>5. QED
              BY <6>1, <6>4 DEF Steady
          <5>3. QED
            BY <5>1, <5>2
        <4>3. Apart(f, v)
          BY <3>1 DEF Exempt
        <4>4. PICK page : page = q.page
          OBVIOUS
        <4>5. PageOK(page) /\ Fresh(page, f, c, v)
          BY <3>2, <3>3, <4>1, <4>2, <4>3, <4>4, PageOfFacts
        <4>6. Fresh(page, f, c, v)'
          BY <3>1, <4>5, FreshKept
        <4>7. QED
          BY <4>4, <4>6
      <3>4. CASE q.page = r.page /\ ("page" \in q.has => "page" \in r.has)
        <4>1. "page" \in r.has /\ Clear(r.page, v) /\ Clear(r.page, v)'
          BY <2>7, <3>2, <3>4
        <4>2. Fresh(r.page, f, c, v)'
          BY <2>3, <2>4, <2>5, <2>7, <3>2, <4>1 DEF Answers
        <4>3. QED
          BY <3>4, <4>2
      <3>5. QED
        BY <1>6, <2>4, <2>7, <3>3, <3>4
    <2>8. c # NoCursor => f = shown'.filter /\ c = shown'.page.next
      BY <2>3, <2>4 DEF Answers
    <2>9. QED
      BY <1>6, <2>4, <2>5, <2>6, <2>7, <2>8 DEF Answers
  <1>10. Answering'
    BY <1>3, <1>8, <1>9 DEF Answering
  <1>11. QED
    BY <1>2, <1>10

\* When a request that will be answered ends, no other counts.
LEMMA EndWhole ==
  ASSUME Whole, NEW s \in Underway, req' = [req EXCEPT ![s] = Unused],
         stack' \in Seq({stack'[i] : i \in DOMAIN stack'})
  PROVE  Answering'
  <1>1. Underway' = Underway \ {s} /\ s \in Slots
    BY NoneAlone DEF Whole, Underway
  <1>2. ASSUME NEW t \in Underway', ~req'[t].overlaps PROVE FALSE
    <2>1. t \in Underway /\ t # s /\ t \in Slots
      BY <1>1 DEF Underway
    <2>2. ~req[t].overlaps
      BY <1>1, <1>2, <2>1 DEF Whole, IInv, Shapes
    <2>3. Underway = {t}
      BY <2>1, <2>2 DEF Whole, IInv, Alone
    <2>4. QED
      BY <2>1, <2>3
  <1>3. QED
    BY <1>2 DEF Answering

\* An answer starts the walk, goes on with it, or ends it.
LEMMA AnswerWhole ==
  ASSUME Whole, NEW s \in Slots, Answer(s)
  PROVE  Answering' /\ Walking'
  <1>1. PICK r : r = req[s]
    OBVIOUS
  <1>2. /\ r.has \in {{"page", "total"}, {"error"}} /\ ~r.cancelled
        /\ shown' = [page |-> r.page, total |-> r.total, filter |-> r.filter, cursor |-> r.cursor]
        /\ stack' = StackAfter(r) /\ walk' = WalkAfter(r) /\ upset' = r.overlaps
        /\ req' = [req EXCEPT ![s] = Unused]
        /\ UNCHANGED <<kind, table>>
    BY <1>1 DEF Answer
  <1>3. ReqTyped(r) /\ r \in Requests /\ PageOK(r.page) /\ Shape(r) /\ Shapes /\ Stacked /\ Alone
    BY <1>1 DEF Whole, Typed, ReqTyped, IInv, Shapes
  <1>4. s \in Underway /\ r.op # "none"
    BY <1>1, <1>2, <1>3 DEF Underway, Shape
  <1>5. PICK after : after = StackAfter(r)
    OBVIOUS
  <1>6. after \in Seq({after[i] : i \in DOMAIN after}) /\ stack' = after
    BY <1>2, <1>3, <1>5, StackShape
  <1>7. Answering'
    BY <1>2, <1>4, <1>6, EndWhole
  <1>8. walk \in [seen: [Rows -> Nat], touched: SUBSET Rows, pure: BOOLEAN]
    BY DEF Whole, Typed
  <1>9. SUFFICES ASSUME walk'.pure PROVE ~upset' /\ WalkedNow'
    BY <1>7 DEF Walking
  <1>10. PICK times : times = Times(r.page.data)
    OBVIOUS
  <1>11. PICK page, total, f : page = r.page /\ total = r.total /\ f = r.filter
    OBVIOUS
  <1>12. shown'.page = page /\ shown'.total = total /\ shown'.filter = f
    BY <1>2, <1>11
  <1>13. CASE r.cursor = NoCursor
    <2>1. walk' = [seen |-> times, touched |-> r.touched, pure |-> ~r.overlaps /\ "error" \notin r.has]
      BY <1>2, <1>10, <1>13 DEF WalkAfter
    <2>2. walk'.seen = times /\ walk'.touched = r.touched /\ ~r.overlaps /\ "page" \in r.has /\ "total" \in r.has
      <3>1. walk'.pure = (~r.overlaps /\ "error" \notin r.has)
        BY <2>1
      <3>2. ~r.overlaps /\ "error" \notin r.has
        BY <1>9, <3>1
      <3>3. r.has \in {{"page", "total"}, {"error"}}
        BY <1>2
      <3>4. r.has = {"page", "total"}
        BY <3>2, <3>3
      <3>5. "page" \in r.has /\ "total" \in r.has
        BY <3>4
      <3>6. walk'.seen = times /\ walk'.touched = r.touched
        BY <2>1
      <3>7. QED
        BY <3>2, <3>5, <3>6
    <2>3. Fits(r)
      BY <1>1, <1>3, <1>4, <2>2 DEF Alone
    <2>4. Answers(r)
      BY <1>1, <1>4, <1>13, <2>2 DEF Whole, Answering, Counts
    <2>5. PICK u, depth : u = r.touched /\ depth = Len(after)
      OBVIOUS
    <2>6. Counted(total, f, u) /\ Kept(u, u)
      BY <1>2, <1>11, <1>13, <2>2, <2>4, <2>5, SameTable DEF Answers, Touched
    <2>7. depth \in Nat /\ depth <= 1
      BY <1>3, <1>5, <1>13, <2>3, <2>5, FirstDepth
    <2>8. times = Times(page.data) /\ PageOK(page)
      BY <1>3, <1>10, <1>11
    <2>9. ASSUME NEW v, v \in Exempt(u, f)' PROVE Walked(times, v, page, total, f, depth)'
      <3>1. v \in Exempt(u, f) /\ Kept(v, v) /\ u \subseteq v
        BY <2>6, <2>9, ExemptKept
      <3>2. Clear(page, v) => Fresh(page, f, NoCursor, v)
        BY <1>11, <1>13, <2>2, <2>4, <2>5, <3>1 DEF Answers, Touched, Placed
      <3>3. Counted(total, f, v)
        BY <2>6, <3>1, CountedMore
      <3>4. Walked(times, v, page, total, f, depth)
        BY <2>7, <2>8, <3>2, <3>3, WalkStarts
      <3>5. QED
        BY <2>8, <3>1, <3>4, WalkedKept
    <2>10. QED
      BY <1>2, <1>6, <1>12, <2>2, <2>5, <2>9 DEF WalkedNow
  <1>14. CASE r.cursor # NoCursor
    <2>1. PICK seen, u, page1, total1, f1, depth :
            /\ seen = walk.seen /\ u = walk.touched /\ page1 = shown.page /\ total1 = shown.total
            /\ f1 = shown.filter /\ depth = Len(stack)
      OBVIOUS
    <2>2. PICK seen2 : seen2 = [q \in Rows |-> seen[q] + times[q]]
      OBVIOUS
    <2>3. PICK pure : pure = (walk.pure /\ r.op = "next" /\ ~r.overlaps /\ "error" \notin r.has)
      OBVIOUS
    <2>4. walk' = [walk EXCEPT !.seen = seen2, !.pure = pure]
      BY <1>2, <1>10, <1>14, <2>1, <2>2, <2>3 DEF WalkAfter
    <2>5. walk'.seen = seen2 /\ walk'.touched = u /\ walk'.pure = pure
      BY <1>8, <2>1, <2>4
    <2>6. walk.pure /\ r.op = "next" /\ ~r.overlaps /\ "page" \in r.has /\ "total" \in r.has
      BY <1>2, <1>9, <2>3, <2>5
    <2>7. Answers(r)
      BY <1>1, <1>4, <2>6 DEF Whole, Answering, Counts
    <2>8. Counted(total, f, u) /\ f1 = f /\ r.cursor = page1.next /\ Kept(u, u)
      BY <1>2, <1>11, <1>14, <2>1, <2>6, <2>7, SameTable DEF Answers, Touched
    <2>9. after = Append(stack, r.cursor)
      BY <1>5, <2>6 DEF StackAfter
    <2>10. depth \in Nat /\ Len(after) = depth + 1
      BY <1>3, <2>1, <2>9 DEF Stacked
    <2>11. table \in Tables /\ seen \in [Rows -> Nat] /\ PageOK(page1) /\ PageOK(page)
      BY <1>3, <1>8, <1>11, <2>1 DEF Whole, Typed, Scalars, ShownTyped
    <2>12. seen2 = [q \in Rows |-> seen[q] + Times(page.data)[q]]
      BY <1>10, <1>11, <2>2
    <2>13. PICK c, depth2 : c = r.cursor /\ depth2 = Len(after)
      OBVIOUS
    <2>14. ASSUME NEW v, v \in Exempt(u, f)' PROVE Walked(seen2, v, page, total, f, depth2)'
      <3>1. v \in Exempt(u, f) /\ Kept(v, v) /\ u \subseteq v
        BY <2>8, <2>14, ExemptKept
      <3>2. Unmixed(seen, v) /\ Clear(page, v) => Fresh(page, f, c, v)
        BY <1>11, <1>14, <2>1, <2>6, <2>7, <2>13, <3>1 DEF Answers, Touched, Placed
      <3>3. Counted(total, f, v)
        BY <2>8, <3>1, CountedMore
      <3>4. Walked(seen, v, page1, total1, f, depth)
        BY <2>1, <2>6, <2>8, <3>1 DEF Whole, Walking, WalkedNow
      <3>5. Walked(seen2, v, page, total, f, depth + 1)
        BY <1>14, <2>8, <2>10, <2>11, <2>12, <2>13, <3>2, <3>3, <3>4, WalkGoesOn
      <3>6. Walked(seen2, v, page, total, f, depth2)
        BY <2>10, <2>13, <3>5
      <3>7. QED
        BY <2>11, <3>1, <3>6, WalkedKept
    <2>15. QED
      BY <1>2, <1>6, <1>12, <2>5, <2>6, <2>13, <2>14 DEF WalkedNow
  <1>15. QED
    BY <1>13, <1>14

\* A failure ends the walk.
LEMMA FailWhole ==
  ASSUME Whole, NEW s \in Slots, Fail(s)
  PROVE  Answering' /\ Walking'
  <1>1. s \in Underway /\ req' = [req EXCEPT ![s] = Unused] /\ stack' = stack
        /\ walk' = [walk EXCEPT !.pure = FALSE]
    BY DEF Fail, Underway
  <1>2. Answering'
    BY <1>1, EndWhole DEF Whole, IInv, Shapes
  <1>3. walk'.pure = FALSE
    BY <1>1 DEF Whole, Typed
  <1>4. QED
    BY <1>2, <1>3 DEF Walking

\* A cancelled request ends unseen.
LEMMA IgnoreWhole ==
  ASSUME Whole, NEW s \in Slots, Ignore(s)
  PROVE  Answering' /\ Walking'
  <1>1. UNCHANGED <<kind, table, shown, stack, walk, upset>> /\ req' = [req EXCEPT ![s] = Unused] /\ s \notin Underway
    BY DEF Ignore, hook, Underway
  <1>2. Walking'
    <2>1. PageOK(shown.page) /\ Walking
      BY DEF Whole, Typed, ShownTyped
    <2>2. QED
      BY <1>1, <2>1, WalkingSame
  <1>3. Underway' = Underway \ {s} /\ \A t \in Slots \ {s} : req'[t] = req[t]
    BY <1>1, EndedShape DEF Whole, IInv, Shapes
  <1>4. ASSUME NEW t \in Underway', ~req'[t].overlaps, Counts(req[t])'
        PROVE  Answers(req[t])'
    <2>1. t \in Underway /\ req'[t] = req[t]
      BY <1>3 DEF Underway
    <2>2. Typed /\ Answering
      BY DEF Whole
    <2>3. QED
      BY <1>1, <1>4, <2>1, <2>2, RequestSame
  <1>5. QED
    BY <1>2, <1>4 DEF Answering

\* Nothing happens.
LEMMA StutterWhole ==
  ASSUME Whole, UNCHANGED vars
  PROVE  Answering' /\ Walking'
  <1>1. UNCHANGED <<kind, table, shown, stack, walk, upset, req>>
    BY DEF vars, hook
  <1>2. Walking'
    <2>1. PageOK(shown.page) /\ Walking
      BY DEF Whole, Typed, ShownTyped
    <2>2. QED
      BY <1>1, <2>1, WalkingSame
  <1>3. ASSUME NEW t \in Underway', ~req'[t].overlaps, Counts(req[t])'
        PROVE  Answers(req[t])'
    <2>1. t \in Underway /\ req'[t] = req[t]
      BY <1>1 DEF Underway
    <2>2. Typed /\ Answering
      BY DEF Whole
    <2>3. QED
      BY <1>1, <1>3, <2>1, <2>2, RequestSame
  <1>4. QED
    BY <1>2, <1>3 DEF Answering

\* The first page starts a walk.
LEMMA InitWhole ==
  ASSUME Init, Typed
  PROVE  Answering /\ Walking
  <1>1. Underway = {}
    BY UnusedShape DEF Init, Underway
  <1>2. Answering
    BY <1>1 DEF Answering
  <1>3. PICK page, total, f, seen : page = shown.page /\ total = shown.total /\ f = shown.filter /\ seen = walk.seen
    OBVIOUS
  <1>4. page \in PagesOf(f, NoCursor) /\ total = Total(table, f)
    BY <1>3 DEF Init
  <1>5. walk.touched = {} /\ seen = Times(page.data)
    BY <1>3 DEF Init, NoWalk
  <1>6. PICK c : c = NoCursor
    OBVIOUS
  <1>7. table \in Tables /\ kind \in {"keyset", "rows"} /\ c \in Cursors \cup {NoCursor} /\ page \in PagesOf(f, c)
    BY <1>4, <1>6 DEF Typed, Scalars
  <1>8. PICK depth : depth = Len(stack)
    OBVIOUS
  <1>9. depth = 1
    BY <1>8 DEF Init
  <1>10. ASSUME NEW v \in Exempt({}, f) PROVE Walked(seen, v, page, total, f, depth)
    <2>1. Apart(f, v) /\ Steady(c, f, v)
      BY <1>6 DEF Exempt, Steady
    <2>2. PageOK(page) /\ (Clear(page, v) => Fresh(page, f, c, v))
      BY <1>7, <2>1, PageOfFacts
    <2>3. Counted(total, f, v)
      BY <1>4, CountedNow
    <2>4. QED
      <3>1. depth \in Nat /\ depth <= 1
        BY <1>9
      <3>2. seen = Times(page.data) /\ (Clear(page, v) => Fresh(page, f, NoCursor, v))
        BY <1>5, <1>6, <2>2
      <3>3. QED
        BY <2>2, <2>3, <3>1, <3>2, WalkStarts
  <1>11. WalkedNow
    BY <1>3, <1>5, <1>8, <1>10 DEF WalkedNow
  <1>12. QED
    BY <1>2, <1>11 DEF Walking, Init

\* Every step.
LEMMA NextWhole ==
  ASSUME Whole, IInv', Next
  PROVE  Answering' /\ Walking'
  <1>1. CASE ChangeFilter
    <2>1. PICK s \in Slots, f \in Filters \ {filter} :
            \E others, cancelled : Send(s, "filter", f, NoCursor, others, cancelled)
      BY <1>1 DEF ChangeFilter
    <2>2. PICK c, op : c = NoCursor /\ op = "filter"
      OBVIOUS
    <2>3. PICK others, cancelled : Send(s, op, f, c, others, cancelled)
      BY <2>1, <2>2
    <2>4. UNCHANGED <<kind, table, shown, stack, walk, upset>>
      BY <1>1 DEF ChangeFilter
    <2>5. op # "none" /\ c = NoCursor
      BY <2>2
    <2>6. QED
      BY <2>3, <2>4, <2>5, SendWhole
  <1>2. ASSUME NEW op, op # "none", NEW c, Ask(op, c), c = NoCursor \/ op # "next" \/ c = shown.page.next
        PROVE  Answering' /\ Walking'
    <2>1. PICK s \in Slots : Send(s, op, filter, c, Underway, {})
      BY <1>2 DEF Ask
    <2>2. UNCHANGED <<kind, table, shown, stack, walk, upset>>
      BY <1>2 DEF Ask
    <2>3. QED
      BY <1>2, <2>1, <2>2, SendWhole
  <1>3. CASE goNext
    <2>1. PICK c, op : c = shown.page.next /\ op = "next"
      OBVIOUS
    <2>2. Ask(op, c)
      BY <1>3, <2>1 DEF goNext
    <2>3. QED
      BY <1>2, <2>1, <2>2
  <1>4. CASE goPrevious
    <2>1. PICK c, op : c = stack[Len(stack) - 1] /\ op = "previous"
      OBVIOUS
    <2>2. Ask(op, c) /\ op # "next" /\ op # "none"
      BY <1>4, <2>1 DEF goPrevious
    <2>3. QED
      BY <1>2, <2>2
  <1>5. CASE refresh
    <2>1. PICK c, op : c = Top /\ op = "refresh"
      OBVIOUS
    <2>2. Ask(op, c) /\ op # "next" /\ op # "none"
      BY <1>5, <2>1 DEF refresh
    <2>3. QED
      BY <1>2, <2>2
  <1>6. ASSUME NEW s \in Slots, Serve(s) PROVE Answering' /\ Walking'
    BY <1>6, ReadWhole, AnswerWhole, FailWhole, IgnoreWhole DEF Serve
  <1>7. QED
    BY <1>1, <1>3, <1>4, <1>5, <1>6, ChangeWhole DEF Next

\* Spec => []Whole: the inductive invariant.
THEOREM WholeInvariance == Spec => []Whole
  <1>1. Init => Whole
    BY InitIInv, InitTyped, InitWhole DEF Whole
  <1>2. ASSUME Whole, [Next]_vars PROVE Whole'
    <2>1. IInv /\ Typed /\ Shapes
      BY <1>2 DEF Whole, IInv
    <2>2. IInv'
      BY <1>2, <2>1, NextStep, StutterStep
    <2>3. Typed'
      BY <1>2, <2>1, NextTyped, StutterTyped
    <2>4. Answering' /\ Walking'
      BY <1>2, <2>2, NextWhole, StutterWhole
    <2>5. QED
      BY <2>2, <2>3, <2>4 DEF Whole
  <1>3. QED
    BY <1>1, <1>2, PTL DEF Spec

\* The state of the page, its requests and its walk stays typed, and the stack of cursors
\* never has more entries than requests were made.
THEOREM Typing == Spec => []TypeOK
  <1>1. Whole => TypeOK
    BY TypedIsTypeOK DEF Whole
  <1>2. QED
    BY <1>1, WholeInvariance, PTL

\* Who goes through a list with Next from its first page, with no request that failed, until
\* there is no Next has seen every row that was there all along, and none of them twice
\* (paginateMany, paginateRows and the footer of useCursorPagination), unless a row already
\* shown has changed or rows of a list put in order in memory have the same value.
THEOREM WalksAreComplete == Spec => []WalkIsComplete
  <1>1. ASSUME Whole PROVE WalkIsComplete
    <2>1. SUFFICES ASSUME walk.pure, Seen \cap walk.touched = {}, Untied, NEW r \in Untouched
                   PROVE  walk.seen[r] <= 1 /\ (~hasNext => r \in Seen)
      BY DEF WalkIsComplete
    <2>2. PICK seen, u, page, total, f, depth, to :
            /\ seen = walk.seen /\ u = walk.touched /\ page = shown.page /\ total = shown.total
            /\ f = shown.filter /\ depth = Len(stack) /\ to = (depth - 1) * Limit + Len(page.data)
      OBVIOUS
    <2>3. Walked(seen, u, page, total, f, depth) /\ seen \in [Rows -> Nat]
      <3>1. seen \in [Rows -> Nat] /\ u \in SUBSET Rows /\ WalkedNow
        BY <1>1, <2>1, <2>2 DEF Whole, Typed, Walking
      <3>2. u \in Exempt(u, f)
        BY <2>1, <2>2, <3>1 DEF Exempt, Apart, Untied, Untouched
      <3>3. QED
        BY <2>2, <3>1, <3>2 DEF WalkedNow
    <2>4. Seen = Ids(seen) /\ Ids(seen) \cap u = {} /\ r \in Matching(table, f) \ u
      BY <2>1, <2>2 DEF Seen, Ids, Untouched
    <2>5. seen[r] <= 1 /\ (~(page.next # NoCursor /\ to # total) => r \in Ids(seen))
      BY <2>2, <2>3, <2>4, WalkEnds
    <2>6. hasNext <=> page.next # NoCursor /\ to # total
      BY <2>2 DEF hasNext, showingTo
    <2>7. QED
      BY <2>2, <2>4, <2>5, <2>6
  <1>2. QED
    BY <1>1, WholeInvariance, PTL

\* A list paged by the database shows no unchanged row twice, whatever else changes.
THEOREM KeysetPagesDoNotRepeat == Spec => []KeysetNeverRepeats
  <1>1. ASSUME Whole PROVE KeysetNeverRepeats
    <2>1. SUFFICES ASSUME walk.pure, kind = "keyset"
                   PROVE  \A r \in Rows \ walk.touched : walk.seen[r] <= 1
      BY DEF KeysetNeverRepeats
    <2>2. walk.touched \in SUBSET Rows /\ WalkedNow
      BY <1>1, <2>1 DEF Whole, Typed, Walking
    <2>3. walk.touched \in Exempt(walk.touched, shown.filter)
      BY <2>1, <2>2 DEF Exempt, Apart
    <2>4. QED
      BY <2>1, <2>2, <2>3 DEF WalkedNow, Walked, Unmixed, OnceEach
  <1>2. QED
    BY <1>1, WholeInvariance, PTL
================================================================================
