------------------------------ MODULE Listing ------------------------------
(***************************************************************************)
(* GET /orders and GET /payments: a table read page by page, newest first, *)
(* while rows are inserted and change their status.  A row gets its        *)
(* created_at when its transaction begins and is seen when it commits, so  *)
(* rows do not appear in the order of their times; many may share one.     *)
(***************************************************************************)
EXTENDS FiniteSets, Integers, SequencesExt

CONSTANTS
  Ids,        \* the rows' ids, in the order the database compares them
  PageSize,   \* the caller's `limit`
  MaxTime,    \* bound: how far the clock goes
  MaxFlips    \* bound: how often a row comes to match the filter or ceases to

ASSUME ListingAssumption ==
  /\ Ids \subseteq Nat
  /\ PageSize \in Nat \ {0}
  /\ MaxTime \in Nat
  /\ MaxFlips \in Nat

VARIABLES
  clock,
  created,    \* created_at, Unborn before the row's transaction begins
  committed,  \* rows other transactions see
  fits,       \* rows with the status the caller filters on
  flips,      \* how many changes of status have moved a row in or out
  cursor,     \* <<created_at, id>> of the last row of the page before
  pages,      \* the rows returned so far
  steady      \* history: rows that could be seen, and fitted, ever since the first page

listingVars == <<clock, created, committed, fits, flips, cursor, pages, steady>>

Unborn == -1
\* Cursors of no row.
FirstPage == <<>>
LastPage == <<Unborn>>

Key(i) == <<created[i], i>>

\* Wrong: the cursor is compared by time alone.
OlderTime(i) == cursor = FirstPage \/ created[i] < cursor[1]

\* Rows after the cursor: (created_at, id) compared as a tuple.
BeyondCursor(i) ==
  \/ cursor = FirstPage
  \/ created[i] < cursor[1]
  \/ created[i] = cursor[1] /\ i < cursor[2]

Newer(i, j) == created[i] > created[j] \/ (created[i] = created[j] /\ i > j)

Matching == {i \in committed \cap fits : BeyondCursor(i)}

\* The newest matching rows in their order, as many as a page takes.
NextPages ==
  {page \in UNION {[1 .. n -> Matching] : n \in 0 .. PageSize} :
     /\ \A m, n \in DOMAIN page : m < n => Newer(page[m], page[n])
     /\ \A i \in Matching \ ToSet(page) : Len(page) = PageSize /\ Newer(Last(page), i)}

ListingInit ==
  /\ clock = 0
  /\ created = [i \in Ids |-> Unborn]
  /\ committed = {}
  /\ fits = {}
  /\ flips = [i \in Ids |-> 0]
  /\ cursor = FirstPage
  /\ pages = <<>>
  /\ steady = {}

PassTime ==
  /\ clock < MaxTime
  /\ clock' = clock + 1
  /\ UNCHANGED <<created, committed, fits, flips, cursor, pages, steady>>

BeginInsert(i) ==
  /\ created[i] = Unborn
  /\ created' = [created EXCEPT ![i] = clock]
  /\ fits' \in {fits, fits \cup {i}}
  /\ UNCHANGED <<clock, committed, flips, cursor, pages, steady>>

CommitInsert(i) ==
  /\ created[i] # Unborn
  /\ i \notin committed
  /\ committed' = committed \cup {i}
  /\ UNCHANGED <<clock, created, fits, flips, cursor, pages, steady>>

ChangeStatus(i) ==
  /\ i \in committed
  /\ flips[i] < MaxFlips
  /\ fits' = IF i \in fits THEN fits \ {i} ELSE fits \cup {i}
  /\ flips' = [flips EXCEPT ![i] = @ + 1]
  /\ steady' = steady \ {i}
  /\ UNCHANGED <<clock, created, committed, cursor, pages>>

\* The query asks for one row more than the page takes, to know if there is one.
FetchPage ==
  /\ cursor # LastPage
  /\ \E page \in NextPages :
       /\ pages' = pages \o page
       /\ cursor' = IF ToSet(page) = Matching THEN LastPage ELSE Key(Last(page))
  /\ steady' = IF cursor = FirstPage THEN committed \cap fits ELSE steady
  /\ UNCHANGED <<clock, created, committed, fits, flips>>

ListingNext ==
  \/ PassTime
  \/ \E i \in Ids : BeginInsert(i) \/ CommitInsert(i) \/ ChangeStatus(i)
  \/ FetchPage

-----------------------------------------------------------------------------
(* Properties. *)

ListingTypeOK ==
  /\ created \in [Ids -> Unborn .. MaxTime]
  /\ committed \subseteq {i \in Ids : created[i] # Unborn}
  /\ steady \subseteq committed \cap fits
  /\ cursor \in {FirstPage, LastPage} \cup (0 .. MaxTime) \X Ids
  /\ ToSet(pages) \subseteq committed

\* "Unlike OFFSET, rows inserted meanwhile never shift a page": nothing is returned
\* twice or out of order, and a reader that reaches the last page has seen every row
\* that was there, and fitted, from the first page on.
PagesComplete ==
  /\ \A m, n \in DOMAIN pages : m < n => Newer(pages[m], pages[n])
  /\ cursor = LastPage => steady \subseteq ToSet(pages)
=============================================================================
