----------------------------- MODULE Catalogue -----------------------------
(***************************************************************************)
(* One product, the partner who is paid a part of each sale, and what the  *)
(* store owes that partner (src/src/http/api/products, product-payout.ts,  *)
(* src/src/http/api/payouts).                                              *)
(*                                                                         *)
(* The form of a product may carry its price, its agreement or both.  The  *)
(* request checks what would be in force with what it read of the rest,    *)
(* and writes only what it carries: the checks of two forms may miss each  *)
(* other.  A sale freezes what the checkout read.                          *)
(***************************************************************************)
EXTENDS Integers, FiniteSets, Functions

CONSTANTS
  Prices,      \* price_cents
  Values,      \* payout_value: cents, or basis points of the price
  FeeBps,      \* the store's application_fee_bps
  Editors,     \* requests to create or edit, at most one each at a time
  Sales,       \* order items
  Quantities,  \* units of an item
  MaxEdits     \* forms sent

ASSUME CatalogueAssumption ==
  /\ IsFiniteSet(Sales)
  /\ Prices \subseteq Nat /\ Values \subseteq Nat /\ Quantities \subseteq Nat \ {0}
  /\ FeeBps \in 0..10000 /\ MaxEdits \in Nat

VARIABLES
  product,   \* the row of products
  partner,   \* the partner may be chosen
  draft,     \* what each request carries and has read
  edits,     \* forms sent so far
  sale,      \* the order items
  unmatched  \* history: the last form was checked with a price or an agreement that had changed

catalogueVars == <<product, partner, draft, edits, sale, unmatched>>

Unsent        == [kind |-> "kept"]   \* a field the form does not carry
NoAgreement == [kind |-> "none"]
Agreements  == {NoAgreement} \union [kind : {"fixed_cents"}, value : Values]
                             \union [kind : {"percent_bps"}, value : {v \in Values : v <= 10000}]
KeptPrice   == -1

NoProduct == [made |-> FALSE, active |-> FALSE, price |-> 0, payout |-> NoAgreement]
NoDraft   == [step |-> "idle"]
NoSale    == [step |-> "none"]

\* Money came in: PAYOUT_ORDER_STATUSES.
PaidStatuses == {"paid", "delivery_arranged", "delivered"}

CatalogueTypeOK ==
  /\ product \in [made : BOOLEAN, active : BOOLEAN, price : Prices \union {0}, payout : Agreements]
  /\ partner \in BOOLEAN
  /\ draft \in [Editors -> {NoDraft} \union
       [step : {"checked"}, price : Prices \union {KeptPrice}, payout : Agreements \union {Unsent},
        saw : [price : Prices \union {0}, payout : Agreements]]]
  /\ edits \in 0..MaxEdits
  /\ sale \in [Sales -> {NoSale} \union
       [step : {"offered", "pending_payment", "cancelled", "refunded"} \union PaidStatuses,
        price : Prices, qty : Quantities, payout : Nat, partner : BOOLEAN, unmatched : BOOLEAN]]
  /\ unmatched \in BOOLEAN

CatalogueInit ==
  /\ product = NoProduct /\ partner = TRUE
  /\ draft = [a \in Editors |-> NoDraft] /\ edits = 0
  /\ sale = [i \in Sales |-> NoSale]
  /\ unmatched = FALSE

-----------------------------------------------------------------------------
(* The rule.                                                               *)

\* What goes to the partner for one unit, never more than its price.
unitPayoutCents(price, payout) ==
  CASE payout.kind = "none"        -> 0
    [] payout.kind = "fixed_cents" -> IF payout.value < price THEN payout.value ELSE price
    [] payout.kind = "percent_bps" -> (price * payout.value) \div 10000

FeeCents(total) == (total * FeeBps) \div 10000

\* A fault: only the agreement the form carries is compared with the price.
Faulty_assertPayoutForStore(price, payout, now) ==
  LET p    == IF price = KeptPrice THEN now.price ELSE price
      rule == IF payout = Unsent THEN NoAgreement ELSE payout
  IN  unitPayoutCents(p, rule) <= p - FeeCents(p)

\* What would be in force: the fields of the form, the others as they were read.
assertPayoutForStore(price, payout, now) ==
  LET p    == IF price = KeptPrice THEN now.price ELSE price
      rule == IF payout = Unsent THEN now.payout ELSE payout
      unit == unitPayoutCents(p, rule)
  IN  \/ rule = NoAgreement
      \/ partner /\ (unit = 0 \/ unit <= p - FeeCents(p))

-----------------------------------------------------------------------------
(* The store's people.                                                     *)

createProduct ==
  /\ ~product.made /\ edits < MaxEdits
  /\ \E price \in Prices, payout \in Agreements :
       /\ assertPayoutForStore(price, payout, [price |-> price, payout |-> payout])
       /\ product' = [made |-> TRUE, active |-> TRUE, price |-> price, payout |-> payout]
  /\ edits' = edits + 1
  /\ UNCHANGED <<partner, draft, sale, unmatched>>

updateProduct(a) ==
  LET now == [price |-> product.price, payout |-> product.payout]
  IN
  /\ product.made /\ draft[a] = NoDraft /\ edits < MaxEdits
  /\ \E price \in Prices \union {KeptPrice}, payout \in Agreements \union {Unsent} :
       /\ assertPayoutForStore(price, payout, now)
       /\ draft' = [draft EXCEPT ![a] =
            [step |-> "checked", price |-> price, payout |-> payout, saw |-> now]]
  /\ edits' = edits + 1
  /\ UNCHANGED <<product, partner, sale, unmatched>>

\* ProductsRepository.update writes the fields the form carries.
writeProduct(a) ==
  LET d == draft[a]
      kept == [price |-> product.price, payout |-> product.payout]
  IN
  /\ d # NoDraft
  /\ product' = [product EXCEPT !.price = IF d.price = KeptPrice THEN @ ELSE d.price,
                                !.payout = IF d.payout = Unsent THEN @ ELSE d.payout]
  /\ unmatched' = (kept # d.saw)
  /\ draft' = [draft EXCEPT ![a] = NoDraft]
  /\ UNCHANGED <<partner, edits, sale>>

archiveProduct == /\ product.made
                  /\ product' = [product EXCEPT !.active = FALSE]
                  /\ UNCHANGED <<partner, draft, edits, sale, unmatched>>

restoreProduct == /\ product.made /\ ~product.active
                  /\ product' = [product EXCEPT !.active = TRUE]
                  /\ UNCHANGED <<partner, draft, edits, sale, unmatched>>

updateSupplier == /\ partner' = ~partner
                  /\ UNCHANGED <<product, draft, edits, sale, unmatched>>

-----------------------------------------------------------------------------
(* The sales.                                                              *)

\* The checkout reads the product and works out the item from that one reading...
priceItem(i) ==
  /\ sale[i] = NoSale /\ product.made /\ product.active
  /\ \E qty \in Quantities :
       sale' = [sale EXCEPT ![i] =
         [step |-> "offered", price |-> product.price, qty |-> qty,
          payout |-> unitPayoutCents(product.price, product.payout) * qty,
          partner |-> product.payout # NoAgreement, unmatched |-> unmatched]]
  /\ UNCHANGED <<product, partner, draft, edits, unmatched>>

\* ...which the order keeps, whatever the product becomes.
orderChanges(i) ==
  /\ sale[i] # NoSale
  /\ \E to \in CASE sale[i].step = "offered"           -> {"pending_payment"}
                 [] sale[i].step = "pending_payment"   -> {"paid", "cancelled"}
                 [] sale[i].step = "paid"              -> {"delivery_arranged", "delivered", "refunded"}
                 [] sale[i].step = "delivery_arranged" -> {"delivered", "refunded"}
                 [] sale[i].step = "delivered"         -> {"refunded"}
                 [] OTHER                              -> {} :
       sale' = [sale EXCEPT ![i].step = to]
  /\ UNCHANGED <<product, partner, draft, edits, unmatched>>

\* totalsBySupplier, totalsByStore: what the partner earned.
earnedCents ==
  LET earned == {i \in Sales : sale[i] # NoSale /\ sale[i].partner /\ sale[i].step \in PaidStatuses}
  IN  SumFunction([i \in earned |-> sale[i].payout])

CatalogueNext ==
  \/ createProduct \/ archiveProduct \/ restoreProduct \/ updateSupplier
  \/ \E a \in Editors : updateProduct(a) \/ writeProduct(a)
  \/ \E i \in Sales : priceItem(i) \/ orderChanges(i)

CatalogueSpec == CatalogueInit /\ [][CatalogueNext]_catalogueVars

-----------------------------------------------------------------------------
(* The store never owes the partner more than its sales left after the     *)
(* platform's fee, but for a cent of rounding per further unit of an item: *)
(* whichever of price and agreement was edited last, and whatever was      *)
(* refunded, unless an item was sold while two edits had missed each other *)
(* (assertPayoutForStore, "a checagem sempre roda com o trio efetivo e o   *)
(* preço efetivo"; assertPayoutFits, "é a loja pagando para vender").      *)
SoldAtNoLoss ==
  LET taken == {i \in Sales : /\ sale[i] # NoSale /\ sale[i].partner
                              /\ sale[i].step \notin {"offered", "pending_payment", "cancelled", "refunded"}}
      left(i) == sale[i].price * sale[i].qty - FeeCents(sale[i].price * sale[i].qty)
  IN  (\A i \in taken : ~sale[i].unmatched)
        => earnedCents <= SumFunction([i \in taken |-> left(i) + sale[i].qty - 1])
=============================================================================
