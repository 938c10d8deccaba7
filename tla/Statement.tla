----------------------------- MODULE Statement -----------------------------
(***************************************************************************)
(* What a store is told about its money and its seats: the monthly         *)
(* statement, the balances of its suppliers, the result of each event and  *)
(* the list at its door (src/src/http/api/reports, payouts, events).       *)
(*                                                                         *)
(* No total is stored: each screen sums the rows of the orders again, with *)
(* its own filter, one by the status of the payment, the others by the     *)
(* status of the order.  The screens are operators over the tables of      *)
(* OrdersRepository; what is added to those tables are the fees of the     *)
(* payments, the settlements of suppliers and the marks made at the door.  *)
(* Items are seats here, one event each, sold to one store's customers.    *)
(***************************************************************************)
EXTENDS OrdersRepository, Integers, FiniteSetsExt, Functions

CONSTANTS
  Suppliers,
  SupplierOf,       \* the supplier of each item, or NoSupplier
  Price,            \* cents, frozen in the order's lines
  UnitPayout,       \* cents for the supplier, frozen as well
  ApplicationBps,   \* stores.application_fee_bps
  WooviFee,         \* WOOVI_FEE_FIXED_CENTS
  Charged,          \* fees a provider may report
  Settlements,      \* amounts a settlement may have
  MaxSettled,
  Listed            \* listAllSuppliers: the first MAX_SUPPLIERS by name, whom the tab shows

NoSupplier == "none"

ASSUME StatementAssumption ==
  /\ IsFiniteSet(Items) /\ IsFiniteSet(Suppliers)
  /\ SupplierOf \in [Items -> Suppliers \union {NoSupplier}]
  /\ Price \in [Items -> Nat \ {0}] /\ UnitPayout \in [Items -> Nat]
  /\ \A i \in Items : UnitPayout[i] <= Price[i] /\ (SupplierOf[i] = NoSupplier => UnitPayout[i] = 0)
  /\ ApplicationBps \in 0..10000 /\ WooviFee \in Nat /\ MaxSettled \in Nat
  /\ Charged \subseteq Nat /\ Settlements \subseteq Nat \ {0} /\ Listed \subseteq Suppliers

VARIABLES
  fee,      \* payments.provider_fee_cents
  settled,  \* the sum of each supplier's settlements
  present   \* order_items.checked_in_at is not null

statementVars == <<repoVars, fee, settled, present>>

StatementTypeOK ==
  /\ RepoTypeOK
  /\ fee \in [Orders -> Nat]
  /\ settled \in [Suppliers -> 0..MaxSettled]
  /\ present \in [Orders -> SUBSET Items]

StatementInit ==
  /\ RepoInit
  /\ fee = [o \in Orders |-> 0]
  /\ settled = [s \in Suppliers |-> 0]
  /\ present = [o \in Orders |-> {}]

-----------------------------------------------------------------------------
(* Amounts.                                                                *)

Lines(o) == {i \in Items : cart[o][i] > 0}
CartTotal(c) == SumFunction([i \in Items |-> Price[i] * c[i]])
Total(o) == CartTotal(cart[o])
applicationFeeCents(o) == (Total(o) * ApplicationBps) \div 10000

\* At least a cent, and less than the charge: Woovi takes no split of the whole.
wooviRetainedFeeCents(amount, cents) == Min({Max({cents, 1}), amount - 1})

\* Math.round of a quotient.
Round(n, d) == (2 * n + d) \div (2 * d)

-----------------------------------------------------------------------------
(* What changes the tables.                                                *)

\* A transaction of the repository; the reservation freezes the fee it knows.
Trade ==
  /\ RepoNext
  /\ fee' = [o \in Orders |->
       IF order[o] # "none" \/ order'[o] = "none" THEN fee[o]
       ELSE IF provider'[o] = "woovi" THEN wooviRetainedFeeCents(CartTotal(cart'[o]), WooviFee) ELSE 0]
  /\ UNCHANGED <<settled, present>>

\* recordProviderFee of the webhook, or the relay's payout: what the provider charged.
recordProviderFee(o) ==
  /\ payment[o] \in Settled
  /\ RecordProviderFee(o)
  /\ \E cents \in Charged : fee' = [fee EXCEPT ![o] = cents]
  /\ UNCHANGED <<settled, present>>

\* More than the balance may be settled: an advance.
createSettlement(s) ==
  /\ \E cents \in Settlements :
       /\ settled[s] + cents <= MaxSettled
       /\ settled' = [settled EXCEPT ![s] = @ + cents]
  /\ UNCHANGED <<repoVars, fee, present>>

\* At the door, whatever has become of the order.
markPresent(o, i) ==
  /\ i \in Lines(o)
  /\ present' \in {[present EXCEPT ![o] = @ \union {i}], [present EXCEPT ![o] = @ \ {i}]}
  /\ UNCHANGED <<repoVars, fee, settled>>

StatementNext ==
  \/ Trade
  \/ \E o \in Orders : recordProviderFee(o)
  \/ \E s \in Suppliers : createSettlement(s)
  \/ \E o \in Orders, i \in Items : markPresent(o, i)

StatementSpec == StatementInit /\ [][StatementNext]_statementVars

-----------------------------------------------------------------------------
(* The statement (reports).                                                *)

\* What some of the items of an order bring their suppliers.
PayoutOf(o, items) == SumFunction([i \in items |-> UnitPayout[i] * cart[o][i]])

\* The sums of moneyByMonth over a set of orders.
MoneyOf(sold) ==
  [sales  |-> SumFunction([o \in sold |-> Total(o)]),
   fees   |-> SumFunction([o \in sold |-> applicationFeeCents(o) + fee[o]]),
   payout |-> SumFunction([o \in sold |-> PayoutOf(o, Items)])]

Captured == {o \in Orders : payment[o] = "succeeded"}
moneyByMonth == MoneyOf(Captured)
netCents(money) == money.sales - money.fees - money.payout

-----------------------------------------------------------------------------
(* The balances of the suppliers (payouts).                                *)

PAYOUT_ORDER_STATUSES == {"paid", "delivery_arranged", "delivered"}
Earning == {o \in Orders : order[o] \in PAYOUT_ORDER_STATUSES}
LinesOf(o, s) == {i \in Lines(o) : SupplierOf[i] = s}
Sold(s)   == {o \in Earning : LinesOf(o, s) # {}}
Earned(s) == SumFunction([o \in Sold(s) |-> PayoutOf(o, LinesOf(o, s))])

\* In debt of the store when positive, in credit with it when negative.
Balance(s) == Earned(s) - settled[s]

\* The tab of the payouts: a row for each supplier listed, those no longer active while their
\* account is not empty, and the totals of the rows, where a credit is netted.
listPayouts(active) ==
  LET rows == {s \in Listed : s \in active \/ Earned(s) > 0 \/ settled[s] > 0}
  IN [earned  |-> SumFunction([s \in rows |-> Earned(s)]),
      settled |-> SumFunction([s \in rows |-> settled[s]]),
      balance |-> SumFunction([s \in rows |-> Balance(s)])]

\* The statement's own sum goes over the suppliers that earned, and drops the credits.
Debt(s) == Max({0, Balance(s)})
payoutsOpenCents == SumFunction([s \in {t \in Suppliers : Sold(t) # {}} |-> Debt(s)])

-----------------------------------------------------------------------------
(* The events.                                                             *)

EVENT_ATTENDING_STATUSES == {"pending_payment", "paid", "delivery_arranged", "delivered"}
Attending(i) == {o \in Orders : order[o] \in EVENT_ATTENDING_STATUSES /\ i \in Lines(o)}
SeatsOf(i, orders) == SumFunction([o \in orders |-> cart[o][i]])
CheckedIn(i) == {o \in Attending(i) : i \in present[o]}

listAttendees(i) == [sold |-> SeatsOf(i, Attending(i)), checkedIn |-> SeatsOf(i, CheckedIn(i))]

\* The fees of an order are shared by its lines, each share rounded on its own.
Share(o, i) == Round(Price[i] * cart[o][i] * (applicationFeeCents(o) + fee[o]), Total(o))

\* One pass over the lines of the event; money only of the orders that were paid.
listResults(i) ==
  LET paid == Attending(i) \intersect Earning
  IN [sold      |-> SeatsOf(i, Attending(i)),
      checkedIn |-> SeatsOf(i, CheckedIn(i)),
      gross     |-> Price[i] * SeatsOf(i, paid),
      payout    |-> UnitPayout[i] * SeatsOf(i, paid),
      fees      |-> SumFunction([o \in paid |-> Share(o, i)])]

-----------------------------------------------------------------------------
(* The screens tell one story, though each sums with a filter of its own   *)
(* and the two status columns are written by different callers             *)
(* (payouts.helpers.ts:4, events.repository.ts:15, reports.repository.ts:50).*)
(* The door and the result of an event count the same seats.  The tab of   *)
(* the payouts, whoever is still active, comes to the debt the statement   *)
(* shows less what is owed to suppliers past its end and less the credits  *)
(* of those it lists: the two are the same while nobody is in credit and   *)
(* nobody is cut.  And the statement, the suppliers and the events agree   *)
(* to the cent on sales and payouts, to half a cent per line on the net,   *)
(* but for two kinds of orders: a refund being asked for has left the      *)
(* statement only, and money captured for a cancelled order is in the      *)
(* statement only.                                                         *)
Credit(s) == Max({0, -Balance(s)})

ScreensAgree ==
  LET asked  == {o \in Earning : payment[o] = "refund_pending"}
      orphan == {o \in Captured : order[o] = "cancelled"}
      shown  == MoneyOf((Captured \union asked) \ orphan)
      net(i) == LET r == listResults(i) IN r.gross - r.fees - r.payout
      off    == SumFunction([i \in Items |-> net(i)])
                  - (netCents(moneyByMonth) + netCents(MoneyOf(asked)) - netCents(MoneyOf(orphan)))
      lines  == SumFunction([o \in Earning |-> Cardinality(Lines(o))])
  IN
  (\E o \in Orders : order[o] # "none") =>
    /\ \A i \in Items : LET r == listResults(i)
                        IN listAttendees(i) = [sold |-> r.sold, checkedIn |-> r.checkedIn]
    /\ \A active \in SUBSET Suppliers :
         listPayouts(active).balance = payoutsOpenCents
                                         - SumFunction([s \in Suppliers \ Listed |-> Debt(s)])
                                         - SumFunction([s \in Listed |-> Credit(s)])
    /\ SumFunction([i \in Items |-> listResults(i).gross]) = shown.sales
    /\ SumFunction([s \in Suppliers |-> Earned(s)]) = shown.payout
    /\ 2 * off <= lines /\ -2 * off <= lines

(* What the statement shows as still open is the total of the payouts tab  *)
(* (docs/ARCHITECTURE.md:298, reports.schema.ts:22).                       *)
MatchesTheTab == \A active \in SUBSET Suppliers : listPayouts(active).balance = payoutsOpenCents
=============================================================================
