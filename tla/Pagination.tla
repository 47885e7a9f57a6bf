----------------------------- MODULE Pagination -----------------------------
(***************************************************************************)
(* Reading a list page by page with the models of                          *)
(* common/models/common.models.ts: a request carries page, limit and sort  *)
(* order, RepoPagination.of turns them into skip and limit of a query, and *)
(* PaginationResponse carries the page back.  The store sorts, skips and   *)
(* cuts; other callers add and remove items between two requests.  Nothing *)
(* of the application calls these classes yet: the client and the store    *)
(* are the environment.                                                    *)
(***************************************************************************)
EXTENDS Integers, FiniteSets, SequencesExt

CONSTANTS Items,     \* what the collection can hold
          Initial,   \* its items at first, in ascending order
          Firsts,    \* pages clients begin with; Missing leaves it out
          Limits,    \* limits clients ask for
          Missing,   \* a parameter that is left out
          MaxEdits   \* bound: items added or removed

\* A client begins with the first page: with a later one it misses what stands
\* before it, and after page 0 it reads page 1 again, whatever others do.
PaginationAssumption ==
  /\ IsFiniteSet(Items) /\ Initial \in Seq(Items) /\ IsInjective(Initial)
  /\ Missing \notin Nat /\ Firsts \subseteq {Missing, 1} /\ Limits \subseteq Nat \cup {Missing}
  /\ MaxEdits \in Nat

VARIABLES
  collection, \* the items in ascending order
  ask,        \* the next request: page, limit, order
  response,   \* the last response, or Missing
  reading,    \* whether the client asks on
  pages,      \* the items of the pages read so far, one after the other
  added,      \* items added since the first page
  removed,    \* items removed since the first page
  gone        \* items that are, or were for a while, not in the collection

vars == <<collection, ask, response, reading, pages, added, removed, gone>>

Init ==
  /\ collection = Initial
  /\ ask \in [page : Firsts, limit : Limits, order : {"ASC", "DESC", Missing}]
  /\ response = Missing
  /\ reading = TRUE
  /\ pages = <<>>
  /\ added = 0 /\ removed = 0
  /\ gone = {}

-----------------------------------------------------------------------------
\* Variant: only a parameter that is left out becomes the default.
OrDefaultIfMissing(value, default) == IF value = Missing THEN default ELSE value

\* isTruthy and toNumber: a parameter that is left out or 0 becomes the default.
OrDefault(value, default) == IF value \in {Missing, 0} THEN default ELSE value

\* Variants of RepoPagination: pages counted from 0, and skip counted in pages.
RepoPaginationFromZero(request) ==
  LET page == OrDefault(request.page, 1) limit == OrDefault(request.limit, 10)
  IN [page |-> page, limit |-> limit, skip |-> page * limit,
      sortOrder |-> IF request.order = "ASC" THEN 1 ELSE -1]
RepoPaginationByLimit(request) ==
  LET page == OrDefault(request.page, 1) limit == OrDefault(request.limit, 10)
  IN [page |-> page, limit |-> limit, skip |-> page - 1,
      sortOrder |-> IF request.order = "ASC" THEN 1 ELSE -1]

\* RepoPagination.of
RepoPagination(request) ==
  LET page == OrDefault(request.page, 1) limit == OrDefault(request.limit, 10)
  IN [page |-> page, limit |-> limit, skip |-> (page - 1) * limit,
      sortOrder |-> IF request.order = "ASC" THEN 1 ELSE -1]

\* The query such a pagination stands for.
Find(p) ==
  LET sorted == IF p.sortOrder = 1 THEN collection ELSE Reverse(collection)
      last   == IF p.skip + p.limit < Len(sorted) THEN p.skip + p.limit ELSE Len(sorted)
  IN SubSeq(sorted, p.skip + 1, last)

\* PaginationResponseBuilder, given everything.
Build(p, total, list) == [page |-> p.page, limit |-> p.limit, total |-> total, list |-> list]

\* The client reads a page and goes on with the next until it has read the total.
ReadPage ==
  /\ reading
  /\ LET p == RepoPagination(ask)
         r == Build(p, Len(collection), Find(p))
         next == (IF ask.page = Missing THEN p.page ELSE ask.page) + 1
     IN /\ response' = r
        /\ pages' = pages \o r.list
        /\ reading' = (p.page * p.limit < r.total)
        /\ ask' = [ask EXCEPT !.page = next]
  /\ UNCHANGED <<collection, added, removed, gone>>

\* Others edit the collection while the client is between two pages.
Underway == reading /\ response # Missing /\ added + removed < MaxEdits

PutIn(item, i) ==
  /\ Underway /\ item \notin ToSet(collection)
  /\ collection' = InsertAt(collection, i, item)
  /\ added' = added + 1 /\ gone' = gone \cup {item}
  /\ UNCHANGED <<ask, response, reading, pages, removed>>

TakeOut(i) ==
  /\ Underway
  /\ collection' = RemoveAt(collection, i)
  /\ removed' = removed + 1 /\ gone' = gone \cup {collection[i]}
  /\ UNCHANGED <<ask, response, reading, pages, added>>

Next ==
  \/ ReadPage
  \/ \E item \in Items, i \in 1..(Len(collection) + 1) : PutIn(item, i)
  \/ \E i \in 1..Len(collection) : TakeOut(i)

Spec == Init /\ [][Next]_vars

-----------------------------------------------------------------------------
\* How often items were listed in excess, and the items that were there all the
\* time and not listed.
Excess == Len(pages) - Cardinality(ToSet(pages))
Missed == ToSet(collection) \ (ToSet(pages) \cup gone)

TypeOK ==
  /\ ToSet(collection) \subseteq Items /\ IsInjective(collection)
  /\ response # Missing =>
       /\ response.page >= 1 /\ response.limit >= 1 /\ Len(response.list) <= response.limit
       /\ response.total <= Cardinality(Items)
  /\ added + removed <= MaxEdits

\* Pages are cut by position: an item that stayed in the list all the time is
\* missed only for an item others removed meanwhile.
MissesExplained == ~reading => Cardinality(Missed) <= removed

\* And one is listed twice only for an item others added meanwhile.
RepeatsExplained == Excess <= added
=============================================================================
