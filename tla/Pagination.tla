-------------------------------- MODULE Pagination --------------------------------
(***************************************************************************)
(* How the backend cuts a list into pages: PrismaService.paginateMany for  *)
(* lists ordered by a field, InventoryService.paginateRows for lists that  *)
(* are filtered and ordered in memory.                                     *)
(*                                                                         *)
(* A row is its id; a table gives it the value it is ordered by and the    *)
(* filters it passes, none of them when it does not exist.  Ascending      *)
(* order stands for both directions.                                       *)
(***************************************************************************)
EXTENDS Integers, SequencesExt

CONSTANTS
  Rows,        \* ids of the rows that may exist
  Keys,        \* values of the field the list is ordered by
  Filters,     \* what the list may be asked for: a search, a status, a location
  Limit        \* rows of a page

ASSUME RowsAssumption == Rows \subseteq Nat \ {0} /\ IsFiniteSet(Rows) /\ Keys \subseteq Nat
ASSUME LimitAssumption == Limit \in Nat \ {0}

NoRow    == [key |-> 0, passes |-> {}]
Tables   == [Rows -> [key: Keys, passes: SUBSET Filters \ {{}}] \cup {NoRow}]
Cursors  == [id: Rows, key: Keys]
NoCursor == [id |-> 0, key |-> 0]

\* where: the rows of the table that pass filter f.
Matching(table, f) == {r \in Rows : f \in table[r].passes}

\* normalizeOrderBy, of paginateMany only: rows of equal value are ordered by their id.
Precedes(table, r, q) ==
  table[r].key < table[q].key \/ (table[r].key = table[q].key /\ r < q)

InOrder(table, S) ==
  CHOOSE rows \in [1..Cardinality(S) -> S] :
    \A i, j \in DOMAIN rows : i < j => Precedes(table, rows[i], rows[j])

AllOf(rows)   == rows                                                   \* mutated form
FirstOf(rows) == SubSeq(rows, 1, IF Len(rows) < Limit THEN Len(rows) ELSE Limit)

\* encodeCursor: the row and the value it had when it was read.
CursorOf(table, r) == [id |-> r, key |-> table[r].key]

\* buildCursorWhere: what follows the cursor, whether or not its row is still there.
AfterKey(table, r, c) == table[r].key > c.key                            \* mutated form
FromKey(table, r, c)  == table[r].key >= c.key                           \* mutated form
After(table, r, c)    == table[r].key > c.key \/ (table[r].key = c.key /\ r > c.id)

\* paginateMany: a full page has a next one.
KeysetPage(table, f, c) ==
  LET rest == {r \in Matching(table, f) : c = NoCursor \/ After(table, r, c)}
      data == FirstOf(InOrder(table, rest))
  IN  [data |-> data, next |-> IF Len(data) = Limit THEN CursorOf(table, Last(data)) ELSE NoCursor]

\* Rows put in order by the value alone: those of equal value come in any order, and
\* perhaps in another one the next time.
Listings(table, S) ==
  {rows \in [1..Cardinality(S) -> S] :
     IsInjective(rows) /\ \A i, j \in DOMAIN rows : i < j => table[rows[i]].key <= table[rows[j]].key}

\* paginateRows: the rows after the one the cursor names; the first ones when it is gone.
RowsPage(table, rows, c) ==
  LET start == IF \E i \in DOMAIN rows : rows[i] = c.id THEN CHOOSE i \in DOMAIN rows : rows[i] = c.id ELSE 0
      data  == FirstOf(SubSeq(rows, start + 1, Len(rows)))
  IN  [data |-> data, next |-> IF start + Limit < Len(rows) THEN CursorOf(table, Last(data)) ELSE NoCursor]

RowsPages(table, f, c) == {RowsPage(table, rows, c) : rows \in Listings(table, Matching(table, f))}

Total(table, f) == Cardinality(Matching(table, f))
================================================================================
