----------------------------- MODULE Categories -----------------------------
(***************************************************************************)
(* The drawers a store sorts its products into, and the order in which its *)
(* page shows them (src/src/http/api/product-categories,                   *)
(* product-category.ts, src/src/lib/slug.ts).                              *)
(*                                                                         *)
(* Each request reads, then writes what it made of it.  The writes of a    *)
(* reordering are one transaction, and two of them that share a row either *)
(* wait for each other or one is rolled back: a commit is one step.        *)
(***************************************************************************)
EXTENDS Integers, FiniteSets, Sequences, SequencesExt

CONSTANTS
  Drawers,   \* ids of product_categories, none is used twice
  Names,     \* what slugify makes of the names people type
  Desks,     \* requests of the store's people, at most one each at a time
  MaxDesks   \* requests made

ASSUME CategoriesAssumption == IsFiniteSet(Drawers) /\ MaxDesks \in Nat

VARIABLES
  drawer,    \* the rows: id -> [pos, slug]
  spent,     \* ids given so far
  filed,     \* category_id of one product
  desk,      \* what each request has read
  asked,     \* requests made so far
  arranged   \* history: the last order that was stored

categoryVars == <<drawer, spent, filed, desk, asked, arranged>>

NoDrawer == "none"
NoDesk   == [op |-> "none"]
Slugs    == Names \X (1..(Cardinality(Drawers) + 1))   \* <<n, 1>> is n, <<n, 2>> is n-2

CategoriesTypeOK ==
  /\ DOMAIN drawer \subseteq spent /\ spent \subseteq Drawers
  /\ \A d \in DOMAIN drawer : drawer[d].pos \in Nat /\ drawer[d].slug \in Slugs
  /\ filed \in DOMAIN drawer \union {NoDrawer}
  /\ asked \in 0..MaxDesks

CategoriesInit ==
  /\ drawer = <<>> /\ spent = {} /\ filed = NoDrawer
  /\ desk = [a \in Desks |-> NoDesk] /\ asked = 0
  /\ arranged = <<>>

Asks(a, what) ==
  /\ desk[a] = NoDesk /\ asked < MaxDesks
  /\ asked' = asked + 1
  /\ desk' = [desk EXCEPT ![a] = what]
  /\ UNCHANGED <<drawer, spent, filed, arranged>>

Closes(a, op) == desk[a].op = op /\ desk' = [desk EXCEPT ![a] = NoDesk] /\ UNCHANGED asked

takenSlugs(except) == {drawer[d].slug : d \in DOMAIN drawer \ except}

\* The name, or the name with the first number that is free.
uniqueSlug(name, taken) ==
  CHOOSE slug \in {name} \X (1..(Cardinality(Drawers) + 1)) :
    slug \notin taken /\ \A j \in 1..(slug[2] - 1) : <<name, j>> \in taken

-----------------------------------------------------------------------------
createRead(a) ==
  \E name \in Names :
    Asks(a, [op |-> "create", slug |-> uniqueSlug(name, takenSlugs({})),
             pos |-> IF DOMAIN drawer = {} THEN 0
                     ELSE 1 + (CHOOSE p \in {drawer[d].pos : d \in DOMAIN drawer} :
                                 \A d \in DOMAIN drawer : drawer[d].pos <= p)])

\* The unique index refuses a slug another request took meanwhile.
create(a) ==
  /\ Closes(a, "create")
  /\ \/ /\ desk[a].slug \notin takenSlugs({})
        /\ \E d \in Drawers \ spent :
             /\ drawer' = [c \in DOMAIN drawer \union {d} |->
                             IF c = d THEN [pos |-> desk[a].pos, slug |-> desk[a].slug] ELSE drawer[c]]
             /\ spent' = spent \union {d}
     \/ /\ desk[a].slug \in takenSlugs({})
        /\ UNCHANGED <<drawer, spent>>
  /\ UNCHANGED <<filed, arranged>>

renameRead(a) ==
  \E d \in DOMAIN drawer, name \in Names :
    Asks(a, [op |-> "rename", id |-> d, slug |-> uniqueSlug(name, takenSlugs({d}))])

rename(a) ==
  /\ Closes(a, "rename")
  /\ drawer' = IF desk[a].id \notin DOMAIN drawer \/ desk[a].slug \in takenSlugs({desk[a].id}) THEN drawer
               ELSE [drawer EXCEPT ![desk[a].id].slug = desk[a].slug]
  /\ UNCHANGED <<spent, filed, arranged>>

\* An order may leave drawers out, but names none twice and none of another store.
reorderCheck(a) ==
  \E ids \in UNION {[1..n -> DOMAIN drawer] : n \in 1..Cardinality(DOMAIN drawer)} :
    IsInjective(ids) /\ Asks(a, [op |-> "reorder", ids |-> ids])

\* A fault: no transaction, so that the updates before the one that fails stay.
Faulty_Reordered(ids) ==
  LET done == {i \in 1..Len(ids) : \A j \in 1..i : ids[j] \in DOMAIN drawer}
  IN  [d \in DOMAIN drawer |->
         IF \E i \in done : ids[i] = d
         THEN [drawer[d] EXCEPT !.pos = (CHOOSE i \in done : ids[i] = d) - 1] ELSE drawer[d]]

\* Each drawer at its place in the list; one that is gone rolls everything back.
Reordered(ids) ==
  IF ~(Range(ids) \subseteq DOMAIN drawer) THEN drawer
  ELSE [d \in DOMAIN drawer |->
          IF d \in Range(ids)
          THEN [drawer[d] EXCEPT !.pos = (CHOOSE i \in 1..Len(ids) : ids[i] = d) - 1] ELSE drawer[d]]

reorder(a) ==
  LET ids == desk[a].ids
  IN
  /\ Closes(a, "reorder")
  /\ drawer' = Reordered(ids)
  /\ arranged' = IF Range(ids) \subseteq DOMAIN drawer THEN ids ELSE arranged
  /\ UNCHANGED <<spent, filed>>

\* The products of a removed drawer are in none (ON DELETE SET NULL).
remove(d) ==
  /\ drawer' = [c \in DOMAIN drawer \ {d} |-> drawer[c]]
  /\ filed' = IF filed = d THEN NoDrawer ELSE filed
  /\ UNCHANGED <<spent, desk, asked, arranged>>

assertCategoryForStore(a) == \E d \in DOMAIN drawer : Asks(a, [op |-> "file", id |-> d])

\* The foreign key refuses a drawer that was removed meanwhile.
fileProduct(a) ==
  /\ Closes(a, "file")
  /\ filed' = IF desk[a].id \in DOMAIN drawer THEN desk[a].id ELSE filed
  /\ UNCHANGED <<drawer, spent, arranged>>

CategoriesNext ==
  \/ \E a \in Desks : \/ createRead(a) \/ create(a) \/ renameRead(a) \/ rename(a)
                      \/ reorderCheck(a) \/ reorder(a) \/ assertCategoryForStore(a) \/ fileProduct(a)
  \/ \E d \in DOMAIN drawer : remove(d)

CategoriesSpec == CategoriesInit /\ [][CategoriesNext]_categoryVars

-----------------------------------------------------------------------------
(* The page shows the drawers in the last order that was stored, as a      *)
(* whole: an order that lost one of its drawers before it was written, or  *)
(* another created, renamed or reordered at the same moment, never leaves  *)
(* a mixture (ProductCategoriesRepository.reorder, "metade aplicada        *)
(* deixaria a vitrine embaralhada").                                       *)
WholeOrder ==
  \A i, j \in 1..Len(arranged) :
    i < j /\ {arranged[i], arranged[j]} \subseteq DOMAIN drawer
      => drawer[arranged[i]].pos < drawer[arranged[j]].pos
=============================================================================
