--------------------------------- MODULE Browsing ---------------------------------
(***************************************************************************)
(* A list page of the web application (useCursorPagination and its footer) *)
(* with the backend that serves its pages, while the rows change.          *)
(*                                                                         *)
(* Requests are answered in any order.  Only the request of the effect     *)
(* that follows the filters is cancelled when it is outdated; those of     *)
(* Next, Previous and a refresh are not.                                   *)
(***************************************************************************)
EXTENDS Pagination

CONSTANTS
  Slots,       \* requests of the page that may be under way at the same time
  FirstTables, \* rows at the start
  MaxChanges,  \* bound: changes of rows
  MaxRequests  \* bound: requests of the page

ASSUME TablesAssumption == FirstTables \subseteq Tables
ASSUME BoundsAssumption == MaxChanges \in Nat /\ MaxRequests \in Nat

VARIABLES
  kind,        \* "keyset" or "rows": which of the two the list is paged by
  table,       \* the rows
  changes,     \* how often rows have changed
  filter,      \* fk, the filters in the address of the page
  shown,       \* data, total and nextCursor of the hook
  stack,       \* cursorStack
  loading,
  req,         \* the requests of the page
  asked,       \* how many there have been
  walk,        \* ghost: what going through the pages has shown, see Starts
  upset        \* ghost: a request failed, or one that overlapped with another was answered

hook == <<filter, shown, stack, loading, walk, upset>>
vars == <<kind, table, changes, hook, req, asked>>

NoWalk == [seen |-> [r \in Rows |-> 0], touched |-> {}, pure |-> FALSE]
Unused == [op |-> "none", filter |-> "none", cursor |-> NoCursor, has |-> {}, cancelled |-> FALSE,
           page |-> [data |-> <<>>, next |-> NoCursor], total |-> 0,
           touched |-> {}, overlaps |-> FALSE]

Pages    == [data: SeqOf(Rows, Limit), next: Cursors \cup {NoCursor}]
Totals   == 0..Cardinality(Rows)
Requests ==
  [op: {"none", "filter", "next", "previous", "refresh"}, filter: Filters \cup {"none"},
   cursor: Cursors \cup {NoCursor}, has: SUBSET {"page", "total", "error"}, cancelled: BOOLEAN,
   page: Pages, total: Totals, touched: SUBSET Rows, overlaps: BOOLEAN]

TypeOK ==
  /\ kind \in {"keyset", "rows"} /\ table \in Tables /\ changes \in 0..MaxChanges
  /\ filter \in Filters
  /\ shown.page \in Pages /\ shown.total \in Totals
  /\ shown.filter \in Filters /\ shown.cursor \in Cursors \cup {NoCursor}
  /\ Len(stack) \in 0..MaxRequests + 1 /\ \A i \in DOMAIN stack : stack[i] \in Cursors \cup {NoCursor}
  /\ loading \in BOOLEAN /\ upset \in BOOLEAN
  /\ \A s \in Slots : req[s] \in Requests
  /\ asked \in 0..MaxRequests
  /\ walk.touched \in SUBSET Rows /\ walk.pure \in BOOLEAN

\* The pages the backend may answer with.
PagesOf(f, c) == IF kind = "keyset" THEN {KeysetPage(table, f, c)} ELSE RowsPages(table, f, c)

Times(data) == [r \in Rows |-> Cardinality({i \in DOMAIN data : data[i] = r})]

\* The page arrives with its first rows; shown.filter and shown.cursor say what for (ghosts).
Init ==
  /\ kind \in {"keyset", "rows"} /\ table \in FirstTables /\ changes = 0
  /\ filter \in Filters /\ stack = <<NoCursor>> /\ loading = FALSE /\ upset = FALSE
  /\ \E page \in PagesOf(filter, NoCursor) :
       shown = [page |-> page, total |-> Total(table, filter), filter |-> filter, cursor |-> NoCursor]
  /\ req = [s \in Slots |-> Unused] /\ asked = 0
  /\ walk = [NoWalk EXCEPT !.seen = Times(shown.page.data), !.pure = TRUE]

--------------------------------------------------------------------------------
(* The rows *)

\* Somebody creates, deletes or changes a row.
Change ==
  /\ changes < MaxChanges /\ changes' = changes + 1
  /\ \E r \in Rows, new \in Tables :
       /\ new[r] # table[r] /\ \A q \in Rows \ {r} : new[q] = table[q]
       /\ table' = new
       /\ walk' = [walk EXCEPT !.touched = @ \cup {r}]
       /\ req' = [s \in Slots |->
            IF req[s].has = {} THEN req[s] ELSE [req[s] EXCEPT !.touched = @ \cup {r}]]
  /\ UNCHANGED <<kind, filter, shown, stack, loading, upset, asked>>

--------------------------------------------------------------------------------
(* The page *)

Underway == {s \in Slots : req[s].op # "none" /\ ~req[s].cancelled}

hasPrevious == Len(stack) > 1
showingTo   == (Len(stack) - 1) * Limit + Len(shown.page.data)
hasNext     == shown.page.next # NoCursor /\ showingTo # shown.total

\* The last entry, undefined when there is none.
Top == IF stack = <<>> THEN NoCursor ELSE Last(stack)

\* A request for the page at cursor c, beside others that will be answered too.
Send(s, op, f, c, others, cancelled) ==
  /\ req[s].op = "none" /\ asked < MaxRequests /\ asked' = asked + 1
  /\ req' = [t \in Slots |->
       IF t = s THEN [Unused EXCEPT !.op = op, !.filter = f, !.cursor = c, !.overlaps = others # {}]
       ELSE [req[t] EXCEPT !.overlaps = @ \/ t \in others, !.cancelled = @ \/ t \in cancelled]]

\* The effect's cleanup cancels the request for the filters before.
CancelsNone(outdated) == {}                                             \* mutated form
Cancels(outdated)     == outdated

ChangeFilter ==
  LET outdated == {s \in Underway : req[s].op = "filter"}
  IN  /\ \E s \in Slots, f \in Filters \ {filter} :
           filter' = f /\ Send(s, "filter", f, NoCursor, Underway \ outdated, Cancels(outdated))
      /\ loading' = TRUE
      /\ UNCHANGED <<kind, table, changes, shown, stack, walk, upset>>

\* The footer's buttons are disabled while the page is loading.
Ask(op, c) ==
  /\ \E s \in Slots : Send(s, op, filter, c, Underway, {})
  /\ loading' = TRUE
  /\ UNCHANGED <<kind, table, changes, filter, shown, stack, walk, upset>>

goNext     == ~loading /\ hasNext /\ Ask("next", shown.page.next)
goPrevious == ~loading /\ hasPrevious /\ Ask("previous", stack[Len(stack) - 1])
\* A dialog reports that it has changed something.
refresh    == Ask("refresh", Top)

--------------------------------------------------------------------------------
(* The answers *)

\* findMany and count are two statements; paginateRows counts the rows it has read.
ReadPage(s) ==
  /\ req[s].op # "none" /\ req[s].has \cap {"page", "error"} = {}
  /\ \E page \in PagesOf(req[s].filter, req[s].cursor) :
       req' = [req EXCEPT ![s].page = page,
                          ![s].has = IF kind = "rows" THEN {"page", "total"} ELSE @ \cup {"page"},
                          ![s].total = IF kind = "rows" THEN Total(table, req[s].filter) ELSE @]
  /\ UNCHANGED <<kind, table, changes, hook, asked>>

Count(s) ==
  /\ kind = "keyset" /\ req[s].op # "none" /\ req[s].has \cap {"total", "error"} = {}
  /\ req' = [req EXCEPT ![s].total = Total(table, req[s].filter), ![s].has = @ \cup {"total"}]
  /\ UNCHANGED <<kind, table, changes, hook, asked>>

\* The backend answers with an HTTP error.  fetchPage does not look at it and makes an
\* empty last page of the missing data (the members page throws instead, see Fail).
Refuse(s) ==
  /\ req[s].op # "none" /\ ~req[s].cancelled /\ "error" \notin req[s].has
  /\ req' = [req EXCEPT ![s].page = Unused.page, ![s].total = 0, ![s].has = {"error"}]
  /\ UNCHANGED <<kind, table, changes, hook, asked>>

\* The stack as it is when the answer arrives.
StackAfter(r) ==
  CASE r.op = "filter"   -> <<NoCursor>>
    [] r.op = "next"     -> Append(stack, r.cursor)
    [] r.op = "previous" -> SubSeq(stack, 1, Len(stack) - 1)
    [] OTHER             -> stack

\* A first page starts a walk, the next ones go on, anything else ends it.
WalkAfter(r) ==
  IF r.cursor = NoCursor
    THEN [seen |-> Times(r.page.data), touched |-> r.touched, pure |-> ~r.overlaps /\ "error" \notin r.has]
    ELSE [walk EXCEPT !.seen = [q \in Rows |-> @[q] + Times(r.page.data)[q]],
                      !.pure = @ /\ r.op = "next" /\ ~r.overlaps /\ "error" \notin r.has]

Answer(s) ==
  LET r == req[s]
  IN  /\ r.has \in {{"page", "total"}, {"error"}} /\ ~r.cancelled
      /\ shown' = [page |-> r.page, total |-> r.total, filter |-> r.filter, cursor |-> r.cursor]
      /\ stack' = StackAfter(r) /\ walk' = WalkAfter(r) /\ upset' = r.overlaps
      /\ loading' = FALSE /\ req' = [req EXCEPT ![s] = Unused]
      /\ UNCHANGED <<kind, table, changes, filter, asked>>

\* The fetch rejects (the network, or the members page on an HTTP error): what was shown
\* stays.
Fail(s) ==
  /\ req[s].op # "none" /\ ~req[s].cancelled
  /\ loading' = FALSE /\ upset' = TRUE
  /\ req' = [req EXCEPT ![s] = Unused]
  /\ walk' = [walk EXCEPT !.pure = FALSE]
  /\ UNCHANGED <<kind, table, changes, filter, shown, stack, asked>>

\* The outcome of a cancelled request is ignored.
Ignore(s) ==
  /\ req[s].cancelled /\ req' = [req EXCEPT ![s] = Unused]
  /\ UNCHANGED <<kind, table, changes, hook, asked>>

Serve(s) == ReadPage(s) \/ Count(s) \/ Refuse(s) \/ Answer(s) \/ Fail(s) \/ Ignore(s)

Next ==
  \/ Change \/ ChangeFilter \/ goNext \/ goPrevious \/ refresh
  \/ \E s \in Slots : Serve(s)

Spec == Init /\ [][Next]_vars

--------------------------------------------------------------------------------
(* Properties *)

Seen      == {r \in Rows : walk.seen[r] > 0}
Untouched == Matching(table, shown.filter) \ walk.touched

\* Lists that are put in order in memory have no last word on rows of equal value.
Untied == kind = "keyset" \/ \A r, q \in Untouched : table[r].key = table[q].key => r = q

\* Who goes through a list from its first page with Next, with no request that failed, until
\* there is no Next has seen every row that was there all along, and none of them twice,
\* whatever else changes and however reads of pages and totals are ordered.  The exceptions:
\* a row already shown has changed (the footer compares positions with a total); two rows
\* have the same value in a list that is put in order in memory.
WalkIsComplete ==
  walk.pure /\ Seen \cap walk.touched = {} /\ Untied
    => \A r \in Untouched : walk.seen[r] <= 1 /\ (~hasNext => r \in Seen)

\* Lists paged by the database show no unchanged row twice, whatever else changes.
KeysetNeverRepeats ==
  walk.pure /\ kind = "keyset" => \A r \in Rows \ walk.touched : walk.seen[r] <= 1

\* With all answers in, a page shows what its filters and its page number ask for, in
\* whatever order answers came for filters changed in between.  The exceptions are those
\* of upset, until the next request that is on its own; an HTTP error is none of them: the
\* page it empties is the one asked for, so that the next refresh asks for it again.
ShownIsAskedFor ==
  Underway = {} /\ ~upset => shown.filter = filter /\ shown.cursor = Top
================================================================================
