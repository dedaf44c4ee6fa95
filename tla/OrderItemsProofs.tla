---------------------------- MODULE OrderItemsProofs ----------------------------
(***************************************************************************)
(* Proofs about OrderItems: the stored totals are the sums over the items, *)
(* for any number of products, lines, items and overlapping requests, and  *)
(* that is why they never leave the range of their columns: what a removal *)
(* takes away was added before.                                            *)
(*                                                                         *)
(* A fold over a finite set takes in its elements in the order in which    *)
(* CHOOSE picks them; where the operation is indifferent to the order, one *)
(* more element is one more application of it (FoldMore).  Induction over  *)
(* finite sets is by the set of those that have the property, since strict *)
(* inclusion is well-founded on them (SetInduction).                       *)
(***************************************************************************)
EXTENDS OrderItems, FiniteSetTheorems, TLAPS

--------------------------------------------------------------------------------
(* Finite sets *)

\* If a set is good whenever its proper subsets are, finite sets are good.
LEMMA SetInduction ==
  ASSUME NEW S, IsFiniteSet(S), NEW Good,
         \A T \in SUBSET S : (\A U \in SUBSET T : U # T => U \in Good) => T \in Good
  PROVE  \A T \in SUBSET S : T \in Good
  <1> DEFINE Bad == {T \in SUBSET S : T \notin Good}
  <1>1. SUFFICES ASSUME Bad # {} PROVE FALSE
    OBVIOUS
  <1>2. PICK T \in Bad : \A U \in Bad : ~(<<U, T>> \in StrictSubsetOrdering(S))
    <2>1. IsWellFoundedOn(StrictSubsetOrdering(S), SUBSET S)
      BY FS_StrictSubsetOrderingWellFounded, FS_FiniteSubsetsOfFinite
    <2>2. Bad \subseteq SUBSET S
      OBVIOUS
    <2> HIDE DEF Bad
    <2>3. QED
      BY <1>1, <2>1, <2>2, WFMin
  <1>3. ASSUME NEW U \in SUBSET T, U # T PROVE U \in Good
    BY <1>2, <1>3 DEF StrictSubsetOrdering
  <1>4. QED
    BY <1>2, <1>3

(* Folds: an operation G from an element and a result to a result. *)

Pick(s) == CHOOSE x \in s : TRUE

IsFold(h, G, base, S) ==
  h = [s \in SUBSET S |-> IF s = {} THEN base ELSE G[<<Pick(s), h[s \ {Pick(s)}]>>]]

Fold(G, base, S) == (CHOOSE h : IsFold(h, G, base, S))[S]

\* S is finite, of the elements A that G takes; base and G's results are of the type V.
Foldable(G, base, S, A, V) ==
  IsFiniteSet(S) /\ S \subseteq A /\ base \in V /\ G \in [A \X V -> V]

LEMMA FoldablePart ==
  ASSUME NEW S, NEW G, NEW base, NEW A, NEW V, Foldable(G, base, S, A, V), NEW T \in SUBSET S
  PROVE  Foldable(G, base, T, A, V)
  BY FS_Subset DEF Foldable

\* Folds over different sets agree on the subsets they share.
LEMMA FoldUnique ==
  ASSUME NEW S, NEW R, IsFiniteSet(S), NEW G, NEW base, NEW h, NEW k,
         IsFold(h, G, base, S), IsFold(k, G, base, R),
         NEW T \in SUBSET S, T \in SUBSET R
  PROVE  h[T] = k[T]
  <1> DEFINE Good == {U \in SUBSET T : h[U] = k[U]}
  <1>1. ASSUME NEW U \in SUBSET T, \A W \in SUBSET U : W # U => W \in Good
        PROVE  U \in Good
    <2>1. CASE U = {}
      BY <2>1 DEF IsFold
    <2>2. CASE U # {}
      <3>1. U \ {Pick(U)} \in SUBSET U /\ U \ {Pick(U)} # U
        BY <2>2 DEF Pick
      <3>2. h[U \ {Pick(U)}] = k[U \ {Pick(U)}]
        BY <1>1, <3>1
      <3>3. h[U] = G[<<Pick(U), h[U \ {Pick(U)}]>>] /\ k[U] = G[<<Pick(U), k[U \ {Pick(U)}]>>]
        BY <2>2 DEF IsFold
      <3>4. QED
        BY <3>2, <3>3
    <2>3. QED
      BY <2>1, <2>2
  <1>2. IsFiniteSet(T)
    BY FS_Subset
  <1>3. \A U \in SUBSET T : U \in Good
    <2> HIDE DEF Good
    <2>1. QED
      BY <1>1, <1>2, SetInduction
  <1>4. QED
    BY <1>3

\* A fold over a finite set exists, and its results are of the operation's type.
LEMMA FoldDefined ==
  ASSUME NEW S, NEW G, NEW base, NEW A, NEW V, Foldable(G, base, S, A, V)
  PROVE  \E h \in [SUBSET S -> V] : IsFold(h, G, base, S)
  <1>0. IsFiniteSet(S) /\ S \subseteq A /\ base \in V /\ G \in [A \X V -> V]
    BY DEF Foldable
  <1> USE <1>0
  <1> DEFINE Good == {T \in SUBSET S : \E h \in [SUBSET T -> V] : IsFold(h, G, base, T)}
  <1>1. ASSUME NEW T \in SUBSET S, \A U \in SUBSET T : U # T => U \in Good
        PROVE  T \in Good
    <2> DEFINE On(U) == CHOOSE h : h \in [SUBSET U -> V] /\ IsFold(h, G, base, U)
               h == [s \in SUBSET T |-> IF s = {} THEN base
                                        ELSE G[<<Pick(s), On(s \ {Pick(s)})[s \ {Pick(s)}]>>]]
    <2>1. ASSUME NEW U \in SUBSET T, U # T
          PROVE  On(U) \in [SUBSET U -> V] /\ IsFold(On(U), G, base, U)
      BY <1>1, <2>1
    <2>2. ASSUME NEW s \in SUBSET T, s # {}
          PROVE  /\ Pick(s) \in s /\ s \ {Pick(s)} \in SUBSET T /\ s \ {Pick(s)} # T
      BY <2>2 DEF Pick
    <2>3. h \in [SUBSET T -> V]
      <3>1. ASSUME NEW s \in SUBSET T, s # {} PROVE G[<<Pick(s), On(s \ {Pick(s)})[s \ {Pick(s)}]>>] \in V
        <4>1. On(s \ {Pick(s)})[s \ {Pick(s)}] \in V
          <5> DEFINE t == s \ {Pick(s)}
          <5> HIDE DEF On
          <5>1. On(t) \in [SUBSET t -> V]
            BY <2>1, <2>2, <3>1
          <5> HIDE DEF t
          <5>2. On(t)[t] \in V
            BY <5>1
          <5>3. QED
            BY <5>2 DEF t
        <4>2. QED
          BY <2>2, <3>1, <4>1
      <3> HIDE DEF On
      <3>2. QED
        BY <3>1
    <2>4. ASSUME NEW s \in SUBSET T, s # T PROVE On(s)[s] = h[s]
      <3> HIDE DEF On
      <3>1. CASE s = {}
        BY <2>1, <2>4, <3>1 DEF IsFold
      <3>2. CASE s # {}
        <4> DEFINE t == s \ {Pick(s)}
        <4>1. IsFold(On(s), G, base, s) /\ IsFold(On(t), G, base, t)
          BY <2>1, <2>2, <2>4, <3>2
        <4>2. On(s)[t] = On(t)[t]
          <5>1. IsFiniteSet(s) /\ t \in SUBSET s /\ t \in SUBSET t
            BY <2>4, FS_Subset
          <5> HIDE DEF t
          <5>2. QED
            BY <4>1, <5>1, FoldUnique
        <4>3. On(s)[s] = G[<<Pick(s), On(s)[t]>>]
          BY <3>2, <4>1 DEF IsFold
        <4>4. h[s] = G[<<Pick(s), On(t)[t]>>]
          BY <3>2
        <4>5. QED
          BY <4>2, <4>3, <4>4
      <3>3. QED
        BY <3>1, <3>2
    <2>5. IsFold(h, G, base, T)
      <3>1. ASSUME NEW s \in SUBSET T, s # {}
            PROVE  On(s \ {Pick(s)})[s \ {Pick(s)}] = h[s \ {Pick(s)}]
        <4> HIDE DEF On, h
        <4>1. QED
          BY <2>2, <2>4, <3>1
      <3>2. h = [s \in SUBSET T |-> IF s = {} THEN base ELSE G[<<Pick(s), h[s \ {Pick(s)}]>>]]
        <4> HIDE DEF On
        <4>1. \A s \in SUBSET T : (IF s = {} THEN base ELSE G[<<Pick(s), On(s \ {Pick(s)})[s \ {Pick(s)}]>>])
                                   = (IF s = {} THEN base ELSE G[<<Pick(s), h[s \ {Pick(s)}]>>])
          <5> HIDE DEF h
          <5>1. QED BY <3>1
        <4>2. QED
          BY <4>1
      <3>3. QED
        BY <3>2 DEF IsFold
    <2>6. QED
      BY <2>3, <2>5
  <1>2. S \in Good
    <2> HIDE DEF Good
    <2>1. \A T \in SUBSET S : T \in Good
      BY <1>1, SetInduction
    <2>2. QED
      BY <2>1
  <1>3. QED
    BY <1>2

\* The fold over a part of a set is what the fold over the set says of it.
LEMMA FoldOfPart ==
  ASSUME NEW S, NEW G, NEW base, NEW A, NEW V, Foldable(G, base, S, A, V),
         NEW h, IsFold(h, G, base, S), NEW T \in SUBSET S
  PROVE  h[T] = Fold(G, base, T)
  <1>1. IsFiniteSet(S)
    BY DEF Foldable
  <1>2. \E k : IsFold(k, G, base, T)
    <2>1. Foldable(G, base, T, A, V)
      BY FoldablePart
    <2>2. QED
      BY <2>1, FoldDefined
  <1> DEFINE k == CHOOSE k : IsFold(k, G, base, T)
  <1>3. IsFold(k, G, base, T)
    BY <1>2
  <1>4. T \in SUBSET T
    OBVIOUS
  <1>5. h[T] = k[T]
    <2> HIDE DEF k
    <2>1. QED
      BY <1>1, <1>3, <1>4, FoldUnique
  <1>6. QED
    BY <1>5 DEF Fold

\* The fold takes in the picked element last.
LEMMA FoldPicks ==
  ASSUME NEW S, NEW G, NEW base, NEW A, NEW V, Foldable(G, base, S, A, V)
  PROVE  /\ Fold(G, base, S) \in V
         /\ S = {} => Fold(G, base, S) = base
         /\ S # {} => Fold(G, base, S) = G[<<Pick(S), Fold(G, base, S \ {Pick(S)})>>]
  <1>1. PICK h \in [SUBSET S -> V] : IsFold(h, G, base, S)
    BY FoldDefined
  <1>2. ASSUME NEW T \in SUBSET S PROVE h[T] = Fold(G, base, T)
    BY <1>1, FoldOfPart
  <1>3. h[S] = Fold(G, base, S) /\ h[S \ {Pick(S)}] = Fold(G, base, S \ {Pick(S)})
    BY <1>2
  <1>4. S \in SUBSET S
    OBVIOUS
  <1>5. h[S] \in V
    BY <1>1, <1>4
  <1>6. h[S] = IF S = {} THEN base ELSE G[<<Pick(S), h[S \ {Pick(S)}]>>]
    BY <1>1, <1>4 DEF IsFold
  <1>7. QED
    BY <1>3, <1>5, <1>6

\* The operation may be applied to the elements in any order.
AnyOrder(G, A, V) == \A x, y \in A, v \in V : G[<<x, G[<<y, v>>]>>] = G[<<y, G[<<x, v>>]>>]

\* Then the fold may take in any of its elements last.
LEMMA FoldAny ==
  ASSUME NEW S, NEW G, NEW base, NEW A, NEW V, Foldable(G, base, S, A, V), AnyOrder(G, A, V),
         NEW x \in S, NEW R, R = S \ {x}
  PROVE  Fold(G, base, S) = G[<<x, Fold(G, base, R)>>]
  <1>0. IsFiniteSet(S) /\ S \subseteq A
    BY DEF Foldable
  <1> DEFINE F(T)  == Fold(G, base, T)
             Good == {T \in SUBSET S : \A y \in T : F(T) = G[<<y, F(T \ {y})>>]}
  <1>1. ASSUME NEW T \in SUBSET S
        PROVE  F(T) \in V /\ (T # {} => F(T) = G[<<Pick(T), F(T \ {Pick(T)})>>])
    <2>1. Foldable(G, base, T, A, V)
      BY FoldablePart
    <2>2. /\ Fold(G, base, T) \in V
          /\ T = {} => Fold(G, base, T) = base
          /\ T # {} => Fold(G, base, T) = G[<<Pick(T), Fold(G, base, T \ {Pick(T)})>>]
      <3> HIDE DEF F
      <3>1. QED
        BY <2>1, FoldPicks
    <2>3. QED
      BY <2>2
  <1>2. ASSUME NEW T \in SUBSET S, \A U \in SUBSET T : U # T => U \in Good
        PROVE  T \in Good
    <2>1. SUFFICES ASSUME NEW y \in T PROVE F(T) = G[<<y, F(T \ {y})>>]
      OBVIOUS
    <2> DEFINE p == Pick(T)
               rest == (T \ {y}) \ {p}
    <2>2. p \in T
      BY DEF Pick
    <2>3. F(T) = G[<<p, F(T \ {p})>>]
      BY <1>1
    <2>4. CASE p = y
      BY <2>3, <2>4
    <2>5. CASE p # y
      <3>1. T \ {y} \in Good /\ T \ {p} \in Good /\ p \in T \ {y} /\ y \in T \ {p}
        BY <1>2, <2>2, <2>5
      <3>2. (T \ {p}) \ {y} = rest /\ (T \ {y}) \ {p} = rest
        OBVIOUS
      <3>3. F(T \ {y}) = G[<<p, F(rest)>>] /\ F(T \ {p}) = G[<<y, F(rest)>>]
        <4> HIDE DEF F, p
        <4>1. QED
          BY <3>1, <3>2
      <3>4. F(rest) \in V /\ y \in A /\ p \in A
        <4>1. rest \in SUBSET S
          OBVIOUS
        <4>2. QED
          BY <1>0, <1>1, <2>2, <4>1
      <3>5. G[<<y, G[<<p, F(rest)>>]>>] = G[<<p, G[<<y, F(rest)>>]>>]
        <4> HIDE DEF F, p, rest
        <4>1. QED
          BY <3>4 DEF AnyOrder
      <3>6. QED
        BY <2>3, <3>3, <3>5
    <2>6. QED
      BY <2>4, <2>5
  <1>3. \A T \in SUBSET S : T \in Good
    <2> HIDE DEF Good
    <2>1. QED
      BY <1>0, <1>2, SetInduction
  <1>4. S \in Good
    <2> HIDE DEF Good
    <2>1. QED
      BY <1>3
  <1>5. QED
    BY <1>4

LEMMA FoldMore ==
  ASSUME NEW S, NEW G, NEW base, NEW A, NEW V, Foldable(G, base, S, A, V),
         AnyOrder(G, A, V), NEW x \in A, x \notin S
  PROVE  Fold(G, base, S \cup {x}) = G[<<x, Fold(G, base, S)>>]
  <1> DEFINE T == S \cup {x}
  <1>1. Foldable(G, base, T, A, V)
    BY FS_AddElement DEF Foldable
  <1>2. x \in T /\ S = T \ {x}
    OBVIOUS
  <1> HIDE DEF T
  <1>3. Fold(G, base, T) = G[<<x, Fold(G, base, S)>>]
    BY <1>1, <1>2, FoldAny
  <1>4. QED
    BY <1>3 DEF T

\* Whatever goes on from subset to subset as the fold does, is the fold.
LEMMA FoldWhen ==
  ASSUME NEW S, NEW G, NEW base, NEW A, NEW V, Foldable(G, base, S, A, V),
         NEW h, h[{}] = base,
         \A T, U \in SUBSET S : T # {} /\ U = T \ {Pick(T)} /\ h[U] \in V => h[T] = G[<<Pick(T), h[U]>>]
  PROVE  h[S] = Fold(G, base, S)
  <1>0. IsFiniteSet(S)
    BY DEF Foldable
  <1> DEFINE Good == {T \in SUBSET S : h[T] = Fold(G, base, T)}
  <1>1. ASSUME NEW T \in SUBSET S, \A U \in SUBSET T : U # T => U \in Good
        PROVE  T \in Good
    <2>1. Foldable(G, base, T, A, V)
      BY FoldablePart
    <2>2. /\ Fold(G, base, T) \in V
          /\ T = {} => Fold(G, base, T) = base
          /\ T # {} => Fold(G, base, T) = G[<<Pick(T), Fold(G, base, T \ {Pick(T)})>>]
      BY <2>1, FoldPicks
    <2>3. CASE T = {}
      BY <2>2, <2>3
    <2>4. CASE T # {}
      <3> DEFINE U == T \ {Pick(T)}
      <3>1. U \in SUBSET T /\ U # T
        BY <2>4 DEF Pick
      <3>2. h[U] = Fold(G, base, U)
        BY <1>1, <3>1
      <3>3. Foldable(G, base, U, A, V)
        BY <2>1, <3>1, FoldablePart
      <3>4. Fold(G, base, U) \in V
        <4> HIDE DEF U
        <4>1. QED
          BY <3>3, FoldPicks
      <3>5. QED
        BY <2>2, <2>4, <3>2, <3>4
    <2>5. QED
      BY <2>3, <2>4
  <1>2. \A T \in SUBSET S : T \in Good
    <2> HIDE DEF Good
    <2>1. QED
      BY <1>0, <1>1, SetInduction
  <1>3. S \in Good
    <2> HIDE DEF Good
    <2>1. QED
      BY <1>2
  <1>4. QED
    BY <1>3

--------------------------------------------------------------------------------
(* The invariant *)

\* Amounts before the database has accepted them.
Wide     == [subtotal: Nat, discount: Nat, tax: Nat, total: Nat]
Rows     == [id: Nat, product: Products \cup {"none"}, amounts: Wide]
Requests == [op: {"idle", "add", "remove", "confirm"}, item: Rows, total: 0..MaxInt]

\* Adding one row to the totals.
AddRow == [p \in Rows \X Wide |-> Plus(p[1].amounts, p[2])]

IInv ==
  /\ TypeOK
  /\ TotalsMatchItems
  /\ IsFiniteSet(items)
  /\ \A i \in items : i \in Rows /\ i.id <= inserted
  /\ req \in [Slots -> Requests]
  /\ \A s \in Slots : req[s].op = "add" => req[s].item.product \in Products

--------------------------------------------------------------------------------
(* Amounts *)

LEMMA SameFields ==
  ASSUME NEW x \in Wide, NEW y \in Wide, x.subtotal = y.subtotal, x.discount = y.discount,
         x.tax = y.tax, x.total = y.total
  PROVE  x = y
  BY DEF Wide

LEMMA ZeroWide == Zero \in Wide /\ Zero \in Amounts
  BY ItemsAssumption DEF Zero, Wide, Amounts

LEMMA PlusFields ==
  ASSUME NEW x \in Wide, NEW y \in Wide
  PROVE  Plus(x, y) = [subtotal |-> x.subtotal + y.subtotal, discount |-> x.discount + y.discount,
                       tax |-> x.tax + y.tax, total |-> x.total + y.total]
  BY DEF Plus, Wide

LEMMA MinusFields ==
  ASSUME NEW x \in Wide, NEW y \in Wide
  PROVE  Minus(x, y) = [subtotal |-> x.subtotal - y.subtotal, discount |-> x.discount - y.discount,
                        tax |-> x.tax - y.tax, total |-> x.total - y.total]
  BY DEF Minus, Wide

LEMMA PlusWide ==
  ASSUME NEW x \in Wide, NEW y \in Wide
  PROVE  Plus(x, y) \in Wide
  BY PlusFields DEF Wide

LEMMA PlusCommutes ==
  ASSUME NEW x \in Wide, NEW y \in Wide
  PROVE  Plus(x, y) = Plus(y, x)
  <1>1. Plus(x, y) \in Wide /\ Plus(y, x) \in Wide
    BY PlusWide
  <1>2. ASSUME NEW f \in {"subtotal", "discount", "tax", "total"}
        PROVE  Plus(x, y)[f] = Plus(y, x)[f]
    BY DEF Plus, Wide
  <1>3. QED
    BY <1>1, <1>2, SameFields

\* What has been added can be taken away.
LEMMA MinusPlus ==
  ASSUME NEW x \in Wide, NEW y \in Wide
  PROVE  Minus(Plus(x, y), x) = y
  <1> DEFINE z == Minus(Plus(x, y), x)
  <1>1. Plus(x, y) \in Wide
    BY PlusWide
  <1>2. z = [subtotal |-> Plus(x, y).subtotal - x.subtotal, discount |-> Plus(x, y).discount - x.discount,
             tax |-> Plus(x, y).tax - x.tax, total |-> Plus(x, y).total - x.total]
    BY <1>1, MinusFields
  <1>3. /\ x.subtotal \in Nat /\ x.discount \in Nat /\ x.tax \in Nat /\ x.total \in Nat
        /\ y.subtotal \in Nat /\ y.discount \in Nat /\ y.tax \in Nat /\ y.total \in Nat
    BY DEF Wide
  <1>4. /\ Plus(x, y).subtotal = x.subtotal + y.subtotal /\ Plus(x, y).discount = x.discount + y.discount
        /\ Plus(x, y).tax = x.tax + y.tax /\ Plus(x, y).total = x.total + y.total
    BY PlusFields
  <1>5. z.subtotal = y.subtotal /\ z.discount = y.discount /\ z.tax = y.tax /\ z.total = y.total
    BY <1>2, <1>3, <1>4
  <1>6. z \in Wide
    <2>1. /\ Plus(x, y).subtotal - x.subtotal \in Nat /\ Plus(x, y).discount - x.discount \in Nat
          /\ Plus(x, y).tax - x.tax \in Nat /\ Plus(x, y).total - x.total \in Nat
      BY <1>3, <1>4
    <2>2. QED
      BY <1>2, <2>1 DEF Wide
  <1> HIDE DEF z
  <1>7. z = y
    BY <1>5, <1>6, SameFields
  <1>8. QED
    BY <1>7 DEF z

LEMMA StorableFits ==
  ASSUME NEW x \in Wide, Storable(x)
  PROVE  x \in Amounts
  BY ItemsAssumption DEF Storable, Wide, Amounts

LEMMA AmountsWide ==
  ASSUME NEW x \in Amounts
  PROVE  x \in Wide
  BY ItemsAssumption DEF Wide, Amounts

--------------------------------------------------------------------------------
(* Sums *)

LEMMA AddRowOrder == AddRow \in [Rows \X Wide -> Wide] /\ AnyOrder(AddRow, Rows, Wide)
  <1>1. ASSUME NEW i \in Rows, NEW x \in Wide
        PROVE  AddRow[<<i, x>>] = Plus(i.amounts, x) /\ Plus(i.amounts, x) \in Wide /\ i.amounts \in Wide
    BY PlusWide DEF AddRow, Rows
  <1>2. AddRow \in [Rows \X Wide -> Wide]
    <2>1. ASSUME NEW p \in Rows \X Wide PROVE Plus(p[1].amounts, p[2]) \in Wide
      BY PlusWide DEF Rows
    <2>2. QED
      BY <2>1 DEF AddRow
  <1>3. ASSUME NEW i \in Rows, NEW j \in Rows, NEW x \in Wide
        PROVE  AddRow[<<i, AddRow[<<j, x>>]>>] = AddRow[<<j, AddRow[<<i, x>>]>>]
    <2>1. Plus(i.amounts, Plus(j.amounts, x)) = Plus(j.amounts, Plus(i.amounts, x))
      <3>1. ASSUME NEW a \in Wide, NEW b \in Wide PROVE Plus(a, Plus(b, x)) = Plus(b, Plus(a, x))
        <4>1. Plus(a, x) \in Wide /\ Plus(b, x) \in Wide
          BY PlusWide
        <4>2. Plus(a, Plus(b, x)) \in Wide /\ Plus(b, Plus(a, x)) \in Wide
          BY <4>1, PlusWide
        <4>3. ASSUME NEW f \in {"subtotal", "discount", "tax", "total"}
              PROVE  Plus(a, Plus(b, x))[f] = Plus(b, Plus(a, x))[f]
          <5>1. \A y, z \in Wide : Plus(y, z)[f] = y[f] + z[f]
            BY DEF Plus, Wide
          <5>2. a[f] \in Int /\ b[f] \in Int /\ x[f] \in Int
            BY DEF Wide
          <5>3. QED
            BY <4>1, <5>1, <5>2
        <4>4. QED
          BY <4>2, <4>3, SameFields
      <3>2. QED
        BY <1>1, <3>1
    <2>2. QED
      BY <1>1, <2>1
  <1>4. QED
    BY <1>2, <1>3 DEF AnyOrder

\* SumOf adds the rows one after the other.
LEMMA SumIsFold ==
  ASSUME NEW rows, IsFiniteSet(rows), rows \subseteq Rows
  PROVE  SumOf(rows) = Fold(AddRow, Zero, rows)
  <1> DEFINE Sums(h) == h = [s \in SUBSET rows |-> IF s = {} THEN Zero
                                                  ELSE Plus(Pick(s).amounts, h[s \ {Pick(s)}])]
             h == CHOOSE h : Sums(h)
  <1>1. Foldable(AddRow, Zero, rows, Rows, Wide)
    BY AddRowOrder, ZeroWide DEF Foldable
  <1>2. ASSUME NEW s \in SUBSET rows, s # {}, NEW x \in Wide
        PROVE  AddRow[<<Pick(s), x>>] = Plus(Pick(s).amounts, x)
    <2>1. Pick(s) \in Rows
      BY <1>2 DEF Pick
    <2>2. QED
      BY <2>1 DEF AddRow
  <1>3. \E k : Sums(k)
    <2>1. PICK k \in [SUBSET rows -> Wide] : IsFold(k, AddRow, Zero, rows)
      BY <1>1, FoldDefined
    <2>2. ASSUME NEW s \in SUBSET rows, s # {}
          PROVE  AddRow[<<Pick(s), k[s \ {Pick(s)}]>>] = Plus(Pick(s).amounts, k[s \ {Pick(s)}])
      BY <1>2, <2>1, <2>2
    <2>3. k = [s \in SUBSET rows |-> IF s = {} THEN Zero ELSE AddRow[<<Pick(s), k[s \ {Pick(s)}]>>]]
      BY <2>1 DEF IsFold
    <2>4. Sums(k)
      BY <2>2, <2>3
    <2>5. QED
      BY <2>4
  <1>4. Sums(h)
    <2> HIDE DEF Sums
    <2>1. QED
      BY <1>3
  <1>5. SumOf(rows) = h[rows]
    BY DEF SumOf, FoldSet, MapThenFoldSet, Pick
  <1>6. h[{}] = Zero
    <2> HIDE DEF h
    <2>1. QED
      BY <1>4
  <1>7. ASSUME NEW s \in SUBSET rows, NEW t \in SUBSET rows, s # {}, t = s \ {Pick(s)}, h[t] \in Wide
        PROVE  h[s] = AddRow[<<Pick(s), h[t]>>]
    <2> HIDE DEF h
    <2>1. h[s] = Plus(Pick(s).amounts, h[s \ {Pick(s)}])
      BY <1>4, <1>7
    <2>2. QED
      BY <1>2, <1>7, <2>1
  <1>8. h[rows] = Fold(AddRow, Zero, rows)
    <2> HIDE DEF h
    <2>1. QED
      BY <1>1, <1>6, <1>7, FoldWhen
  <1>9. QED
    BY <1>5, <1>8

LEMMA Sums ==
  ASSUME NEW rows, IsFiniteSet(rows), rows \subseteq Rows
  PROVE  /\ SumOf(rows) \in Wide
         /\ rows = {} => SumOf(rows) = Zero
  <1>1. Foldable(AddRow, Zero, rows, Rows, Wide)
    BY AddRowOrder, ZeroWide DEF Foldable
  <1>2. Fold(AddRow, Zero, rows) \in Wide /\ (rows = {} => Fold(AddRow, Zero, rows) = Zero)
    BY <1>1, FoldPicks
  <1>3. QED
    BY <1>2, SumIsFold

LEMMA SumMore ==
  ASSUME NEW rows, IsFiniteSet(rows), rows \subseteq Rows, NEW i \in Rows, i \notin rows
  PROVE  SumOf(rows \cup {i}) = Plus(i.amounts, SumOf(rows))
  <1> DEFINE more == rows \cup {i}
  <1>1. Foldable(AddRow, Zero, rows, Rows, Wide) /\ AnyOrder(AddRow, Rows, Wide)
    BY AddRowOrder, ZeroWide DEF Foldable
  <1>2. Fold(AddRow, Zero, more) = AddRow[<<i, Fold(AddRow, Zero, rows)>>]
    BY <1>1, FoldMore
  <1>3. IsFiniteSet(more) /\ more \subseteq Rows
    BY FS_AddElement
  <1>4. SumOf(more) = Fold(AddRow, Zero, more) /\ SumOf(rows) = Fold(AddRow, Zero, rows)
    <2> HIDE DEF more
    <2>1. QED
      BY <1>3, SumIsFold
  <1>5. AddRow[<<i, SumOf(rows)>>] = Plus(i.amounts, SumOf(rows))
    BY Sums DEF AddRow
  <1>6. QED
    BY <1>2, <1>4, <1>5

LEMMA SumLess ==
  ASSUME NEW rows, IsFiniteSet(rows), rows \subseteq Rows, NEW i \in rows
  PROVE  SumOf(rows) = Plus(i.amounts, SumOf(rows \ {i}))
  <1>1. IsFiniteSet(rows \ {i}) /\ (rows \ {i}) \cup {i} = rows
    BY FS_RemoveElement
  <1> DEFINE less == rows \ {i}
  <1>2. IsFiniteSet(less) /\ less \subseteq Rows /\ i \in Rows /\ i \notin less /\ less \cup {i} = rows
    BY <1>1
  <1> HIDE DEF less
  <1>3. SumOf(less \cup {i}) = Plus(i.amounts, SumOf(less))
    BY <1>2, SumMore
  <1>4. QED
    BY <1>2, <1>3 DEF less

--------------------------------------------------------------------------------
(* Steps *)

LEMMA LineWide ==
  ASSUME NEW p \in Products, NEW line \in Lines,
         product \in [Products -> [price: Prices, active: BOOLEAN]], Valid(LineAmounts(p, line))
  PROVE  LineAmounts(p, line) \in Wide
  <1>1. /\ line.qty \in Nat /\ line.discount \in Nat /\ line.tax \in Nat
        /\ product[p].price \in Nat
    <2>1. line \in [qty: 1..MaxInt, discount: 0..MaxInt, tax: 0..MaxInt]
      BY LinesAssumption
    <2>2. product[p] \in [price: Prices, active: BOOLEAN]
      OBVIOUS
    <2>3. product[p].price \in 0..MaxInt
      BY <2>2, PricesAssumption
    <2>4. QED
      BY <2>1, <2>3, ItemsAssumption
  <1> DEFINE subtotal == line.qty * product[p].price
  <1>2. subtotal \in Nat
    BY <1>1
  <1> HIDE DEF subtotal
  <1>3. LineAmounts(p, line) = [subtotal |-> subtotal, discount |-> line.discount, tax |-> line.tax,
                                total |-> subtotal - line.discount + line.tax]
    BY DEF LineAmounts, subtotal
  <1>4. line.discount <= subtotal
    BY <1>3 DEF Valid
  <1>5. subtotal - line.discount + line.tax \in Nat
    BY <1>1, <1>2, <1>4
  <1>6. QED
    BY <1>1, <1>2, <1>3, <1>5 DEF Wide

LEMMA IdleTyped == Idle \in Requests /\ Idle.op = "idle"
  BY ZeroWide, ItemsAssumption DEF Idle, Requests, NoItem, Rows

\* A request begins or ends and the rows stay.
LEMMA RequestMoves ==
  ASSUME IInv, NEW s \in Slots, NEW r \in Requests, r.op = "add" => r.item.product \in Products,
         req' = [req EXCEPT ![s] = r]
  PROVE  /\ req' \in [Slots -> Requests]
         /\ \A t \in Slots : req'[t].op = "add" => req'[t].item.product \in Products
         /\ \A t \in Slots : req'[t].op \in {"idle", "add", "remove", "confirm"}
  <1>1. req' \in [Slots -> Requests]
    BY DEF IInv
  <1>2. \A t \in Slots : req'[t].op \in {"idle", "add", "remove", "confirm"}
    BY <1>1 DEF Requests
  <1>3. ASSUME NEW t \in Slots, req'[t].op = "add" PROVE req'[t].item.product \in Products
    BY <1>3 DEF IInv
  <1>4. QED
    BY <1>1, <1>2, <1>3

LEMMA InitInv == Init => IInv
  <1> SUFFICES ASSUME Init PROVE IInv
    OBVIOUS
  <1>1. IsFiniteSet(items) /\ items = {}
    BY FS_EmptySet DEF Init
  <1>2. TotalsMatchItems
    BY <1>1, Sums DEF Init, TotalsMatchItems
  <1>3. req \in [Slots -> Requests] /\ \A s \in Slots : req[s].op = "idle"
    BY IdleTyped DEF Init
  <1>4. TypeOK
    <2>1. product \in [Products -> [price: Prices, active: BOOLEAN]]
      BY DEF Init
    <2>2. payment \in [amount: 0..MaxInt, is: {"ABSENT", "OPEN", "PAID", "CLOSED"}]
      BY ItemsAssumption DEF Init, NoPayment
    <2>3. QED
      BY <1>1, <1>3, <2>1, <2>2, ZeroWide, ItemsAssumption DEF Init, TypeOK
  <1>5. QED
    BY <1>1, <1>2, <1>3, <1>4 DEF IInv

\* createOrder: the new rows are typed, of different ids, and their sum fits.
LEMMA CreateInv ==
  ASSUME IInv, CreateOrder
  PROVE  IInv'
  <1> DEFINE RowOf(choice, k) == [id |-> k, product |-> choice[k][1],
                                  amounts |-> LineAmounts(choice[k][1], choice[k][2])]
             Creates(n, choice) ==
               LET rows == {RowOf(choice, k) : k \in 1..n}
               IN  /\ \A i \in rows : product[i.product].active /\ Valid(i.amounts) /\ Storable(i.amounts)
                   /\ Storable(SumOf(rows))
                   /\ items' = rows /\ totals' = SumOf(rows) /\ inserted' = n
  <1>0. PICK n \in 1..MaxItems : \E choice \in [1..n -> Products \X Lines] : Creates(n, choice)
    BY DEF CreateOrder
  <1>1. PICK choice \in [1..n -> Products \X Lines] : Creates(n, choice)
    BY <1>0
  <1> DEFINE Row(k) == RowOf(choice, k)
             rows   == {Row(k) : k \in 1..n}
  <1>2. /\ \A i \in rows : Valid(i.amounts) /\ Storable(i.amounts)
        /\ Storable(SumOf(rows))
        /\ items' = rows /\ totals' = SumOf(rows) /\ inserted' = n
    BY <1>1
  <1>3. n \in Nat /\ n <= MaxItems
    BY ItemsAssumption
  <1>4. ASSUME NEW k \in 1..n
        PROVE  /\ Row(k).id = k /\ k \in 1..MaxItems /\ Row(k).product \in Products
               /\ Row(k).amounts \in Wide /\ Row(k).amounts \in Amounts /\ Row(k) \in Rows
    <2>1. Row(k) \in rows
      OBVIOUS
    <2>2. choice[k][1] \in Products /\ choice[k][2] \in Lines
      OBVIOUS
    <2>3. Valid(LineAmounts(choice[k][1], choice[k][2])) /\ Storable(LineAmounts(choice[k][1], choice[k][2]))
      BY <1>2, <2>1
    <2>4. LineAmounts(choice[k][1], choice[k][2]) \in Wide
      BY <2>2, <2>3, LineWide DEF IInv, TypeOK
    <2>5. LineAmounts(choice[k][1], choice[k][2]) \in Amounts
      BY <2>3, <2>4, StorableFits
    <2>6. k \in Nat /\ k \in 1..MaxItems
      BY <1>3, ItemsAssumption
    <2>7. QED
      BY <2>2, <2>4, <2>5, <2>6 DEF Rows
  <1>5. IsFiniteSet(rows)
    <2> DEFINE f == [k \in 1..n |-> Row(k)]
    <2>1. f \in Surjection(1..n, rows)
      BY DEF Surjection
    <2>2. IsFiniteSet(1..n)
      BY <1>3, FS_Interval
    <2> HIDE DEF f, rows
    <2>3. QED
      BY <2>1, <2>2, FS_Surjection
  <1>6. /\ rows \subseteq Rows
        /\ \A i \in rows : i.id <= n /\ i.id \in 1..MaxItems /\ i.product \in Products /\ i.amounts \in Amounts
    <2> HIDE DEF Row
    <2>1. QED
      BY <1>4
  <1>7. \A i, j \in rows : i.id = j.id => i = j
    <2>1. ASSUME NEW k \in 1..n, NEW l \in 1..n, Row(k).id = Row(l).id PROVE Row(k) = Row(l)
      BY <1>4, <2>1
    <2> HIDE DEF Row
    <2>2. QED
      BY <2>1
  <1> HIDE DEF rows
  <1>8. totals' \in Amounts
    BY <1>2, <1>5, <1>6, Sums, StorableFits
  <1>9. TypeOK'
    <2>1. inserted' \in 0..MaxItems
      BY <1>2, <1>3, ItemsAssumption
    <2>2. \A i \in items' : /\ i.id \in 1..MaxItems /\ i.product \in Products /\ i.amounts \in Amounts
                            /\ \A j \in items' : i.id = j.id => i = j
      BY <1>2, <1>6, <1>7
    <2>3. QED
      BY <1>8, <2>1, <2>2 DEF IInv, TypeOK, CreateOrder
  <1>10. (totals = SumOf(items))'
    BY <1>2
  <1>11. QED
    BY <1>2, <1>5, <1>6, <1>9, <1>10 DEF IInv, CreateOrder, TotalsMatchItems

\* addOrderItem: what is added to the rows is added to the totals.
LEMMA CommitAddInv ==
  ASSUME IInv, NEW s \in Slots, CommitAdd(s)
  PROVE  IInv'
  <1> DEFINE new == [req[s].item EXCEPT !.id = inserted + 1]
  <1>1. /\ req[s].op = "add" /\ inserted < MaxItems /\ Storable(new.amounts) /\ Storable(Plus(totals, new.amounts))
        /\ items' = items \cup {new} /\ totals' = Plus(totals, new.amounts) /\ inserted' = inserted + 1
        /\ req' = [req EXCEPT ![s] = Idle] /\ UNCHANGED <<order, product, payment>>
    BY DEF CommitAdd, Finish
  <1>2. inserted \in Nat /\ inserted + 1 \in 1..MaxItems /\ inserted' \in 0..MaxItems
    BY <1>1, ItemsAssumption DEF IInv, TypeOK
  <1>3. req[s].item \in Rows /\ req[s].item.product \in Products
    BY <1>1 DEF IInv, Requests
  <1>4. new \in Rows /\ new.id = inserted + 1 /\ new.product \in Products /\ new.amounts \in Wide
    BY <1>2, <1>3 DEF Rows
  <1> HIDE DEF new
  <1>5. items \subseteq Rows /\ IsFiniteSet(items) /\ \A i \in items : i.id \in Nat /\ i.id <= inserted
    BY DEF IInv, Rows
  <1>6. new \notin items /\ \A i \in items : i.id # new.id
    BY <1>2, <1>4, <1>5
  <1>7. totals \in Wide /\ new.amounts \in Amounts
    BY <1>1, <1>4, AmountsWide, StorableFits DEF IInv, TypeOK
  <1>8. totals' \in Amounts
    <2>1. Plus(totals, new.amounts) \in Wide
      BY <1>4, <1>7, PlusWide
    <2>2. QED
      BY <1>1, <2>1, StorableFits
  <1>9. (totals = SumOf(items))'
    <2>1. SumOf(items \cup {new}) = Plus(new.amounts, totals)
      BY <1>4, <1>5, <1>6, SumMore DEF IInv, TotalsMatchItems
    <2>2. Plus(new.amounts, totals) = Plus(totals, new.amounts)
      BY <1>4, <1>7, PlusCommutes
    <2>3. QED
      BY <1>1, <2>1, <2>2
  <1>10. IsFiniteSet(items') /\ \A i \in items' : i \in Rows /\ i.id <= inserted'
    <2>1. IsFiniteSet(items')
      BY <1>1, <1>5, FS_AddElement
    <2>2. QED
      BY <1>1, <1>2, <1>4, <1>5, <2>1
  <1>11. \A i \in items' : /\ i.id \in 1..MaxItems /\ i.product \in Products /\ i.amounts \in Amounts
                           /\ \A j \in items' : i.id = j.id => i = j
    <2>1. \A i \in items : /\ i.id \in 1..MaxItems /\ i.product \in Products /\ i.amounts \in Amounts
                           /\ \A j \in items : i.id = j.id => i = j
      BY DEF IInv, TypeOK
    <2>2. QED
      BY <1>1, <1>2, <1>4, <1>6, <1>7, <2>1
  <1>12. /\ req' \in [Slots -> Requests]
         /\ \A t \in Slots : req'[t].op = "add" => req'[t].item.product \in Products
         /\ \A t \in Slots : req'[t].op \in {"idle", "add", "remove", "confirm"}
    BY <1>1, IdleTyped, RequestMoves
  <1>13. TypeOK'
    BY <1>1, <1>2, <1>8, <1>11, <1>12 DEF IInv, TypeOK
  <1>14. QED
    BY <1>9, <1>10, <1>12, <1>13 DEF IInv, TotalsMatchItems

\* deleteOrderItem: a row that is there was added, so its amounts can be taken away.
LEMMA CommitRemoveInv ==
  ASSUME IInv, NEW s \in Slots, CommitRemove(s)
  PROVE  IInv'
  <1> DEFINE old == req[s].item
             less == items \ {old}
  <1>1. /\ old \in items /\ items' = less /\ totals' = Minus(totals, old.amounts)
        /\ req' = [req EXCEPT ![s] = Idle] /\ UNCHANGED <<order, inserted, product, payment>>
    BY DEF CommitRemove, StillThere, Finish
  <1>2. items \subseteq Rows /\ IsFiniteSet(items) /\ totals = SumOf(items)
    BY DEF IInv, TotalsMatchItems
  <1>3. old.amounts \in Wide
    BY <1>1, <1>2 DEF Rows
  <1>4. IsFiniteSet(less) /\ less \subseteq Rows /\ less \subseteq items
    BY <1>2, FS_RemoveElement
  <1>5. totals = Plus(old.amounts, SumOf(less))
    BY <1>1, <1>2, SumLess
  <1> HIDE DEF old, less
  <1>6. SumOf(less) \in Wide
    BY <1>4, Sums
  <1>7. totals' = SumOf(less)
    BY <1>1, <1>3, <1>5, <1>6, MinusPlus
  <1>8. totals' \in Amounts
    <2> DEFINE t == SumOf(less)
    <2>1. /\ totals.subtotal = old.amounts.subtotal + t.subtotal /\ totals.discount = old.amounts.discount + t.discount
          /\ totals.tax = old.amounts.tax + t.tax /\ totals.total = old.amounts.total + t.total
      BY <1>3, <1>5, <1>6, PlusFields
    <2> HIDE DEF t
    <2>2. t \in Wide /\ totals \in Amounts /\ totals' = t
      BY <1>6, <1>7 DEF t, IInv, TypeOK
    <2>3. t.subtotal <= MaxInt /\ t.discount <= MaxInt /\ t.tax <= MaxInt /\ t.total <= MaxInt
      BY <1>3, <2>1, <2>2, ItemsAssumption DEF Wide, Amounts
    <2>4. QED
      BY <2>2, <2>3, ItemsAssumption DEF Wide, Amounts
  <1>9. /\ req' \in [Slots -> Requests]
        /\ \A t \in Slots : req'[t].op = "add" => req'[t].item.product \in Products
        /\ \A t \in Slots : req'[t].op \in {"idle", "add", "remove", "confirm"}
    BY <1>1, IdleTyped, RequestMoves
  <1>10. \A i \in items' : /\ i.id \in 1..MaxItems /\ i.product \in Products /\ i.amounts \in Amounts
                           /\ \A j \in items' : i.id = j.id => i = j
    BY <1>1, <1>4 DEF IInv, TypeOK
  <1>11. TypeOK'
    BY <1>1, <1>8, <1>9, <1>10 DEF IInv, TypeOK
  <1>12. \A i \in items' : i \in Rows /\ i.id <= inserted'
    BY <1>1, <1>4 DEF IInv
  <1>13. QED
    BY <1>1, <1>4, <1>7, <1>9, <1>11, <1>12 DEF IInv, TotalsMatchItems

LEMMA DeleteInv ==
  ASSUME IInv, DeleteOrder
  PROVE  IInv'
  <1>1. IsFiniteSet(items') /\ items' = {} /\ totals' = Zero /\ totals' \in Amounts
    BY FS_EmptySet, ZeroWide DEF DeleteOrder
  <1>2. totals' = SumOf(items')
    BY <1>1, Sums
  <1>3. payment' \in [amount: 0..MaxInt, is: {"ABSENT", "OPEN", "PAID", "CLOSED"}]
    BY ItemsAssumption DEF DeleteOrder, NoPayment
  <1>4. TypeOK'
    BY <1>1, <1>3 DEF IInv, TypeOK, DeleteOrder
  <1>5. QED
    BY <1>1, <1>2, <1>4 DEF IInv, TotalsMatchItems, DeleteOrder

\* The rows and the totals stay; the request, the order or the payment moves on.
LEMMA OthersInv ==
  ASSUME IInv, UNCHANGED <<totals, items, inserted>>,
         order' \in {"ABSENT", "PENDING", "CONFIRMED", "FULFILLED", "CANCELLED", "DELETED"},
         product' \in [Products -> [price: Prices, active: BOOLEAN]],
         payment' \in [amount: 0..MaxInt, is: {"ABSENT", "OPEN", "PAID", "CLOSED"}],
         req' \in [Slots -> Requests],
         \A t \in Slots : req'[t].op = "add" => req'[t].item.product \in Products
  PROVE  IInv'
  <1>1. \A t \in Slots : req'[t].op \in {"idle", "add", "remove", "confirm"}
    BY DEF Requests
  <1>2. TypeOK'
    BY <1>1 DEF IInv, TypeOK
  <1>3. QED
    BY <1>2 DEF IInv, TotalsMatchItems

\* The step begins or ends a request and changes nothing else.
LEMMA RequestInv ==
  ASSUME IInv, NEW s \in Slots, NEW r \in Requests, r.op = "add" => r.item.product \in Products,
         req' = [req EXCEPT ![s] = r], UNCHANGED <<order, totals, items, inserted, product, payment>>
  PROVE  IInv'
  <1>1. /\ req' \in [Slots -> Requests]
        /\ \A t \in Slots : req'[t].op = "add" => req'[t].item.product \in Products
    BY RequestMoves
  <1>2. QED
    BY <1>1, OthersInv DEF IInv, TypeOK

LEMMA StepInv == IInv /\ [Next]_vars => IInv'
  <1> SUFFICES ASSUME IInv, [Next]_vars PROVE IInv'
    OBVIOUS
  <1>0. /\ req \in [Slots -> Requests] /\ totals \in Amounts
        /\ order \in {"ABSENT", "PENDING", "CONFIRMED", "FULFILLED", "CANCELLED", "DELETED"}
        /\ product \in [Products -> [price: Prices, active: BOOLEAN]]
        /\ payment \in [amount: 0..MaxInt, is: {"ABSENT", "OPEN", "PAID", "CLOSED"}]
        /\ \A t \in Slots : req[t].op = "add" => req[t].item.product \in Products
    BY DEF IInv, TypeOK
  <1>1. CASE CreateOrder
    BY <1>1, CreateInv
  <1>2. CASE DeleteOrder
    BY <1>2, DeleteInv
  <1>3. CASE Fulfil
    BY <1>0, <1>3, OthersInv DEF Fulfil
  <1>4. CASE Cancel
    BY <1>0, <1>4, OthersInv DEF Cancel
  <1>5. CASE Reopen
    <2>1. payment' \in [amount: 0..MaxInt, is: {"ABSENT", "OPEN", "PAID", "CLOSED"}]
      BY <1>5, ItemsAssumption DEF Reopen, NoPayment
    <2>2. QED
      BY <1>0, <1>5, <2>1, OthersInv DEF Reopen
  <1>6. CASE PaymentMoves
    <2>1. payment' \in [amount: 0..MaxInt, is: {"ABSENT", "OPEN", "PAID", "CLOSED"}]
      BY <1>0, <1>6 DEF PaymentMoves
    <2>2. order' \in {"ABSENT", "PENDING", "CONFIRMED", "FULFILLED", "CANCELLED", "DELETED"}
      BY <1>0, <1>6 DEF PaymentMoves
    <2>3. UNCHANGED <<totals, items, inserted, product, req>>
      BY <1>6 DEF PaymentMoves
    <2>4. QED
      BY <1>0, <2>1, <2>2, <2>3, OthersInv
  <1>7. CASE ChangeProduct
    <2>1. product' \in [Products -> [price: Prices, active: BOOLEAN]]
      BY <1>0, <1>7 DEF ChangeProduct
    <2>2. QED
      BY <1>0, <1>7, <2>1, OthersInv DEF ChangeProduct
  <1>8. ASSUME NEW s \in Slots, ReadAdd(s) PROVE IInv'
    <2>1. PICK p \in Products, line \in Lines :
            /\ Valid(LineAmounts(p, line))
            /\ Begin(s, [Idle EXCEPT !.op = "add", !.item =
                           [id |-> 0, product |-> p, amounts |-> LineAmounts(p, line)]])
      BY <1>8 DEF ReadAdd
    <2> DEFINE r == [Idle EXCEPT !.op = "add", !.item =
                      [id |-> 0, product |-> p, amounts |-> LineAmounts(p, line)]]
    <2>2. LineAmounts(p, line) \in Wide
      BY <1>0, <2>1, LineWide
    <2>3. r \in Requests /\ r.item.product \in Products
      BY <2>2, IdleTyped DEF Requests, Rows
    <2>4. req' = [req EXCEPT ![s] = r] /\ UNCHANGED <<order, totals, items, inserted, product, payment>>
      BY <1>8, <2>1 DEF Begin, ReadAdd
    <2> HIDE DEF r
    <2>5. QED
      BY <2>3, <2>4, RequestInv
  <1>9. ASSUME NEW s \in Slots, CommitAdd(s) PROVE IInv'
    BY <1>9, CommitAddInv
  <1>10. ASSUME NEW s \in Slots, ReadRemove(s) PROVE IInv'
    <2>1. PICK i \in items : Begin(s, [Idle EXCEPT !.op = "remove", !.item = i])
      BY <1>10 DEF ReadRemove
    <2> DEFINE r == [Idle EXCEPT !.op = "remove", !.item = i]
    <2>2. r \in Requests /\ r.op = "remove"
      BY IdleTyped DEF IInv, Requests
    <2>3. req' = [req EXCEPT ![s] = r] /\ UNCHANGED <<order, totals, items, inserted, product, payment>>
      BY <1>10, <2>1 DEF Begin, ReadRemove
    <2> HIDE DEF r
    <2>4. QED
      BY <2>2, <2>3, RequestInv
  <1>11. ASSUME NEW s \in Slots, CommitRemove(s) PROVE IInv'
    BY <1>11, CommitRemoveInv
  <1>12. ASSUME NEW s \in Slots, ReadConfirm(s) PROVE IInv'
    <2> DEFINE r == [Idle EXCEPT !.op = "confirm", !.total = totals.total]
    <2>1. r \in Requests /\ r.op = "confirm"
      BY <1>0, IdleTyped DEF Requests, Amounts
    <2>2. req' = [req EXCEPT ![s] = r] /\ UNCHANGED <<order, totals, items, inserted, product, payment>>
      BY <1>12 DEF Begin, ReadConfirm
    <2> HIDE DEF r
    <2>3. QED
      BY <2>1, <2>2, RequestInv
  <1>13. ASSUME NEW s \in Slots, CommitConfirm(s) PROVE IInv'
    <2>1. /\ req' \in [Slots -> Requests]
          /\ \A t \in Slots : req'[t].op = "add" => req'[t].item.product \in Products
      BY <1>13, IdleTyped, RequestMoves DEF CommitConfirm, Finish
    <2>2. payment' \in [amount: 0..MaxInt, is: {"ABSENT", "OPEN", "PAID", "CLOSED"}]
      BY <1>0, <1>13 DEF CommitConfirm, Requests
    <2>3. QED
      BY <1>0, <1>13, <2>1, <2>2, OthersInv DEF CommitConfirm
  <1>14. ASSUME NEW s \in Slots, Abort(s) PROVE IInv'
    BY <1>14, IdleTyped, RequestInv DEF Abort, Finish
  <1>15. CASE UNCHANGED vars
    BY <1>0, <1>15, OthersInv DEF vars
  <1>16. QED
    BY <1>1, <1>2, <1>3, <1>4, <1>5, <1>6, <1>7, <1>8, <1>9, <1>10, <1>11, <1>12, <1>13, <1>14, <1>15 DEF Next

--------------------------------------------------------------------------------
\* The order's rows keep their types, in particular no total leaves the range of its
\* column: the decrements of deleteOrderItem take away only what was added.
THEOREM Typing == Spec => []TypeOK
  <1>1. IInv => TypeOK
    BY DEF IInv
  <1>2. QED
    BY <1>1, InitInv, StepInv, PTL DEF Spec

\* The stored totals are the sums over the stored items, whichever requests of
\* addOrderItem, deleteOrderItem and deleteOrder overlap.
THEOREM TotalsAreSums == Spec => []TotalsMatchItems
  <1>1. IInv => TotalsMatchItems
    BY DEF IInv
  <1>2. QED
    BY <1>1, InitInv, StepInv, PTL DEF Spec
================================================================================
