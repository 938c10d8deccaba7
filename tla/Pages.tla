------------------------------- MODULE Pages -------------------------------
(***************************************************************************)
(* A list read page by page while the table changes: the cursor of         *)
(* src/src/lib/cursor.ts and the products of a store as its listing        *)
(* (listByStoreCursor; the other listings are its "recent" with other      *)
(* conditions).                                                            *)
(*                                                                         *)
(* The cursor is the key of the last row shown.  Between two pages rows    *)
(* are created, hidden, shown again, renamed and change their price;       *)
(* createdAt has ties, and so have prices.                                 *)
(*                                                                         *)
(* A condition is an object, and its alternatives are its one key OR.  The *)
(* search is such a key and so is the cursor, spread into the same object  *)
(* after it: the second takes the place of the first.  (The list of a      *)
(* store's interests is built the same way, with the store in the OR.)     *)
(***************************************************************************)
EXTENDS Integers, FiniteSets

CONSTANTS
  MaxRows,     \* ids are 1..MaxRows, in an order that has nothing to do with time
  Instants,    \* values of created_at
  Amounts,     \* values of price_cents
  PageSizes,
  MaxTouches   \* changes of the table

ASSUME PagesAssumption ==
  MaxRows \in Nat /\ Instants \subseteq Nat /\ Amounts \subseteq Nat /\ PageSizes \subseteq Nat \ {0}
    /\ MaxTouches \in Nat

Ids   == 1..MaxRows
Sorts == {"recent", "price_asc", "price_desc"}

\* What the reader typed: nothing, a term, or only wildcards.
Searches == {"none", "term", "blank"}

VARIABLES
  item,     \* the rows
  walk,     \* the reader: its sort and search, its next cursor, and what it was shown
  touches,
  owed,     \* history: the rows in the list from the first page on
  repriced  \* history: the rows whose price changed since the first page

pagesVars == <<item, walk, touches, owed, repriced>>

\* matches: the term is in the name or in the description.
Unmade  == [made |-> FALSE, stamp |-> 0, price |-> 0, active |-> FALSE, matches |-> FALSE]
Product == [made : {TRUE}, stamp : Instants, price : Amounts, active : BOOLEAN, matches : BOOLEAN]
Shown   == {row \in Product : row.active}
AtStart == [at |-> "first"]
AtEnd   == [at |-> "end"]
NoWalk  == [on |-> FALSE]

PagesTypeOK ==
  /\ item \in [Ids -> Product \union {Unmade}]
  /\ walk \in {NoWalk} \union
       [on : {TRUE}, sort : Sorts, search : Searches, size : PageSizes,
        seen : SUBSET Ids, again : SUBSET Ids,
        next : {AtStart, AtEnd} \union [at : {"after"}, key : Instants \union Amounts, id : Ids]]
  /\ touches \in 0..MaxTouches /\ owed \subseteq Ids /\ repriced \subseteq Ids

PagesInit ==
  /\ item \in [Ids -> Shown \union {Unmade}]
  /\ walk = NoWalk /\ touches = 0 /\ owed = {} /\ repriced = {}

-----------------------------------------------------------------------------
\* The conditions every page has, and the one of the search.
filters == {r \in Ids : item[r].made /\ item[r].active}
Matching(search) == {r \in Ids : search = "none" \/ (search = "term" /\ item[r].matches)}

\* A fault: rows of the same instant as the last one are taken for shown.
Faulty_afterCursorWhere(r, c) == item[r].stamp < c.key

\* KEYSET_ORDER_BY: newest first, and by id among those of one instant.
afterCursorWhere(r, c) == item[r].stamp < c.key \/ (item[r].stamp = c.key /\ r < c.id)

\* priceOrderBy, in either direction.
afterPriceCursorWhere(r, c, direction) ==
  LET Beyond(a, b) == IF direction = "price_asc" THEN a > b ELSE a < b
  IN  Beyond(item[r].price, c.key) \/ (item[r].price = c.key /\ Beyond(r, c.id))

After(r, c, sort) == IF sort = "recent" THEN afterCursorWhere(r, c) ELSE afterPriceCursorWhere(r, c, sort)

\* KEYSET_ORDER_BY and priceOrderBy: the column of the sort, then the id, in one direction.
SortKey(r, sort) == IF sort = "recent" THEN item[r].stamp ELSE item[r].price

Precedes(q, r, sort) ==
  LET Sooner(a, b) == IF sort = "price_asc" THEN a < b ELSE a > b
  IN  \/ Sooner(SortKey(q, sort), SortKey(r, sort))
      \/ SortKey(q, sort) = SortKey(r, sort) /\ Sooner(q, r)

\* The rows of a list with fewer than n before them, and the one that comes after all others.
FirstRows(rows, n, sort) == {r \in rows : Cardinality({q \in rows : Precedes(q, r, sort)}) < n}
LastRow(rows, sort)      == CHOOSE r \in rows : \A q \in rows : q = r \/ Precedes(q, r, sort)

\* encodeCursor, encodePriceCursor: the key of the sort, and the id.
Cursor(r, sort) == [at |-> "after", id |-> r, key |-> SortKey(r, sort)]

\* toPageBy: the rows of one page, and the cursor of the next if one more row was found.
toPageBy(rows, limit, sort) ==
  LET slice == FirstRows(rows, limit, sort)
  IN  [items |-> slice,
       next  |-> IF Cardinality(rows) > limit THEN Cursor(LastRow(slice, sort), sort) ELSE AtEnd]

\* The OR of the condition: the cursor's in the place of the search's, once there is a cursor.
OrKey(w) == IF w.next = AtStart THEN Matching(w.search) ELSE {r \in Ids : After(r, w.next, w.sort)}

-----------------------------------------------------------------------------
Begin ==
  /\ walk = NoWalk
  /\ \E sort \in Sorts, search \in Searches, size \in PageSizes :
       /\ walk' = [on |-> TRUE, sort |-> sort, search |-> search, size |-> size, next |-> AtStart,
                   seen |-> {}, again |-> {}]
       /\ owed' = filters \intersect Matching(search)
  /\ UNCHANGED <<item, touches, repriced>>

\* A term of wildcards alone finds nothing, on whatever page.
listByStoreCursor ==
  /\ walk # NoWalk /\ walk.next # AtEnd
  /\ LET found == IF walk.search = "blank" THEN {} ELSE filters \intersect OrKey(walk)
         page  == toPageBy(found, walk.size, walk.sort)
     IN  walk' = [walk EXCEPT !.seen  = @ \union page.items,
                              !.again = @ \union (page.items \intersect walk.seen),
                              !.next  = page.next]
  /\ UNCHANGED <<item, touches, owed, repriced>>

Touched == walk # NoWalk /\ touches < MaxTouches /\ touches' = touches + 1 /\ UNCHANGED walk

CreateRow(r) ==
  /\ Touched /\ ~item[r].made
  /\ \E row \in Shown : item' = [item EXCEPT ![r] = row]
  /\ UNCHANGED <<owed, repriced>>

\* archive, restore.
ToggleRow(r) ==
  /\ Touched /\ item[r].made
  /\ item' = [item EXCEPT ![r].active = ~@]
  /\ owed' = owed \ {r}
  /\ UNCHANGED repriced

Reprice(r) ==
  /\ Touched /\ item[r].made
  /\ \E price \in Amounts \ {item[r].price} : item' = [item EXCEPT ![r].price = price]
  /\ repriced' = repriced \union {r}
  /\ UNCHANGED owed

\* update, of the name or the description: nothing for whoever does not search.
RenameRow(r) ==
  /\ Touched /\ item[r].made /\ walk.search = "term"
  /\ item' = [item EXCEPT ![r].matches = ~@]
  /\ owed' = owed \ {r}
  /\ UNCHANGED repriced

PagesNext ==
  \/ Begin \/ listByStoreCursor
  \/ \E r \in Ids : CreateRow(r) \/ ToggleRow(r) \/ Reprice(r) \/ RenameRow(r)

PagesSpec == PagesInit /\ [][PagesNext]_pagesVars

-----------------------------------------------------------------------------
(* Whoever reads a list to its end was shown every row that stayed in it,  *)
(* and none twice, whatever was created, hidden, renamed or repriced       *)
(* between the pages and however many rows share an instant or a price;    *)
(* only a row whose own price changed may be missed or repeated, in the    *)
(* lists by price (encodePriceCursor, "Ordenar por preço com o cursor de   *)
(* data repetiria e perderia produto").  A searched list, too: its further *)
(* pages show rows beside those that match, and still lose none.           *)
ListedOnce ==
  walk # NoWalk =>
    LET excused == IF walk.sort = "recent" THEN {} ELSE repriced
    IN  walk.again \subseteq excused /\ (walk.next = AtEnd => owed \ excused \subseteq walk.seen)

(* What is shown to a reader who searches matches the search               *)
(* (products-discovery.test.ts:9, "filtro por categoria, busca e ordenação *)
(* precisam funcionar combinados"): every page is one of the searched      *)
(* list, and not of the whole one.                                         *)
SearchHolds ==
  [][walk # NoWalk => walk'.seen \ walk.seen \subseteq Matching(walk.search)]_pagesVars
=============================================================================
