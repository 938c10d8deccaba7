-------------------------- MODULE OrdersRepository --------------------------
(***************************************************************************)
(* The transactions of src/src/http/api/orders/orders.repository.ts, each  *)
(* one an action, called by anybody in any order: Spec makes no assumption *)
(* on the controllers, the workers and the webhooks that call them.  The   *)
(* module Checkout composes the real callers with these actions, and       *)
(* OrdersTx takes the longest of them apart, statement by statement.       *)
(*                                                                         *)
(* An order has exactly one payment (Payment.orderId is unique), so both   *)
(* are indexed by the order.  An item is a row with a counter: the stock   *)
(* of a product, the seats of an event sold without batches, or the seats  *)
(* of an event batch.  A row given to a reservation is the row that gets   *)
(* it back, so the three kinds need not be told apart.                     *)
(***************************************************************************)
EXTENDS Naturals, FiniteSets

CONSTANTS
  Orders,        \* the orders that will ever be created
  Items,         \* the rows a reservation takes units from
  MaxQty,        \* the largest quantity of one item in an order (99 in the schema)
  InitialStock   \* the units of each item before the first order

ASSUME OrdersAssumption == IsFiniteSet(Orders)
ASSUME QtyAssumption    == MaxQty \in Nat \ {0}
ASSUME StockAssumption  == InitialStock \in [Items -> Nat]

VARIABLES
  stock,        \* products.stock, events.seats, event_batches.seats
  order,        \* orders.status, "none" before the order exists
  payment,      \* payments.status, "none" before the order exists
  provider,     \* payments.provider
  attached,     \* payments.provider_id is not null
  staleClaim,   \* payments.updated_at is older than STALE_REFUND_CLAIM_MS
  cart,         \* order_items: units of each item the order took
  paidRows,     \* outbox rows order.paid (and order.paid.store, its twin) ever written
  orphanRows    \* outbox rows payment.orphaned ever written

repoVars == <<stock, order, payment, provider, attached, staleClaim, cart,
              paidRows, orphanRows>>

-----------------------------------------------------------------------------
(* Types.                                                                  *)

OrderStatus == {"none", "pending_payment", "paid", "delivery_arranged",
                "delivered", "cancelled", "refunded"}

PaymentStatus == {"none", "pending", "succeeded", "failed", "expired",
                  "cancelled", "refund_pending", "refunded"}

Provider == {"stripe", "woovi"}

Cart == [Items -> 0..MaxQty]

EmptyCart == [i \in Items |-> 0]

RepoTypeOK ==
  /\ stock \in [Items -> Nat]
  /\ order \in [Orders -> OrderStatus]
  /\ payment \in [Orders -> PaymentStatus]
  /\ provider \in [Orders -> Provider]
  /\ attached \in [Orders -> BOOLEAN]
  /\ staleClaim \in [Orders -> BOOLEAN]
  /\ cart \in [Orders -> Cart]
  /\ paidRows \in [Orders -> Nat]
  /\ orphanRows \in [Orders -> Nat]

RepoInit ==
  /\ stock = InitialStock
  /\ order = [o \in Orders |-> "none"]
  /\ payment = [o \in Orders |-> "none"]
  /\ provider = [o \in Orders |-> "stripe"]
  /\ attached = [o \in Orders |-> FALSE]
  /\ staleClaim = [o \in Orders |-> FALSE]
  /\ cart = [o \in Orders |-> EmptyCart]
  /\ paidRows = [o \in Orders |-> 0]
  /\ orphanRows = [o \in Orders |-> 0]

(* A Faulty_ operator is the definition that follows it with one plausible *)
(* mistake, kept to show that the properties notice the mistake.           *)

Faulty_PayableWhileRefunding ==
  {"pending", "expired", "failed", "cancelled", "refund_pending"}

\* Payment states from which a confirmation is still accepted (ADR-012).
Payable == {"pending", "expired", "failed", "cancelled"}

\* Payment states in which the money is known to have been captured.
Settled == {"succeeded", "refund_pending", "refunded"}

Faulty_RefundableUndelivered == {"paid", "delivery_arranged"}

\* Order states a confirmed refund takes to "refunded".
Refundable == {"paid", "delivery_arranged", "delivered"}

\* The transitions a store may ask for (VALID_FROM of the controller).
ValidFrom == [delivery_arranged |-> {"paid"},
              delivered |-> {"paid", "delivery_arranged"}]

\* Every write to a payment bumps updated_at, so it re-arms the claim window.
SetPayment(o, s) ==
  /\ payment' = [payment EXCEPT ![o] = s]
  /\ staleClaim' = [staleClaim EXCEPT ![o] = FALSE]

-----------------------------------------------------------------------------
(* Actions: one per transaction of the repository.                         *)

\* updateMany ... where stock >= qty, for every item of the order: one row
\* that falls short rolls the whole reservation back.
Reservable(c) == \A i \in Items : stock[i] >= c[i]

\* createPendingOrder: takes the units, creates the order and its payment.
CreatePendingOrder(o, c, p) ==
  /\ order[o] = "none"
  /\ c # EmptyCart
  /\ Reservable(c)
  /\ stock' = [i \in Items |-> stock[i] - c[i]]
  /\ order' = [order EXCEPT ![o] = "pending_payment"]
  /\ SetPayment(o, "pending")
  /\ provider' = [provider EXCEPT ![o] = p]
  /\ cart' = [cart EXCEPT ![o] = c]
  /\ UNCHANGED <<attached, paidRows, orphanRows>>

\* attachProviderId, and attachPixCharge after it: updates of the payment by
\* its id alone, whatever its status is by the time the gateway has answered.
AttachProviderId(o) ==
  /\ order[o] # "none"
  /\ attached' = [attached EXCEPT ![o] = TRUE]
  /\ SetPayment(o, payment[o])
  /\ UNCHANGED <<stock, order, provider, cart, paidRows, orphanRows>>

\* recordProviderFee of the Woovi webhook: an update by id alone too, so that a
\* payment whose refund is claimed has its claim window re-armed by it.
RecordProviderFee(o) ==
  /\ order[o] # "none"
  /\ SetPayment(o, payment[o])
  /\ UNCHANGED <<stock, order, provider, attached, cart, paidRows, orphanRows>>

\* restockItems: gives back what the reservation took.
RestockItems(c) == stock' = [i \in Items |-> stock[i] + c[i]]

Faulty_CancelUnclaimed(o) == order[o] \in {"pending_payment", "cancelled"}

\* The row both cancellations claim before they give anything back.
CancelPending(o) == order[o] = "pending_payment"

\* cancelPendingOrder: of the expiry worker, of the store and of the provider.
CancelPendingOrder(o, reason) ==
  /\ CancelPending(o)
  /\ order' = [order EXCEPT ![o] = "cancelled"]
  /\ RestockItems(cart[o])
  /\ IF payment[o] = "pending" THEN SetPayment(o, reason)
                               ELSE UNCHANGED <<payment, staleClaim>>
  /\ UNCHANGED <<provider, attached, cart, paidRows, orphanRows>>

\* compensateFailedCheckout: the same steps after a failed gateway call.
CompensateFailedCheckout(o) == CancelPendingOrder(o, "failed")

\* markPaid: a captured payment is recorded whatever became of its order, and
\* leaves one durable signal, of the sale or of the orphaned money.
MarkPaid(o) ==
  /\ payment[o] \in Payable
  /\ SetPayment(o, "succeeded")
  /\ attached' = [attached EXCEPT ![o] = @ \/ provider[o] = "stripe"]
  /\ \/ /\ order[o] = "pending_payment"
        /\ order' = [order EXCEPT ![o] = "paid"]
        /\ paidRows' = [paidRows EXCEPT ![o] = @ + 1]
        /\ UNCHANGED orphanRows
     \/ /\ order[o] # "pending_payment"
        /\ orphanRows' = [orphanRows EXCEPT ![o] = @ + 1]
        /\ UNCHANGED <<order, paidRows>>
  /\ UNCHANGED <<stock, provider, cart>>

\* The OR of claimRefund's where: free to be refunded, or claimed and abandoned.
Claimable(o) ==
  \/ payment[o] = "succeeded"
  \/ payment[o] = "refund_pending" /\ staleClaim[o]

\* claimRefund: takes the right to call the gateway.
ClaimRefund(o) ==
  /\ Claimable(o)
  /\ SetPayment(o, "refund_pending")
  /\ UNCHANGED <<stock, order, provider, attached, cart, paidRows, orphanRows>>

\* releaseRefundClaim: the gateway refused, the payment is refundable again.
ReleaseRefundClaim(o) ==
  /\ payment[o] = "refund_pending"
  /\ SetPayment(o, "succeeded")
  /\ UNCHANGED <<stock, order, provider, attached, cart, paidRows, orphanRows>>

\* refund: the provider confirmed.  The stock stays where it is (ADR-012).
Refund(o) ==
  /\ payment[o] \in {"succeeded", "refund_pending"}
  /\ SetPayment(o, "refunded")
  /\ order' = [order EXCEPT ![o] = IF @ \in Refundable THEN "refunded" ELSE @]
  /\ UNCHANGED <<stock, provider, attached, cart, paidRows, orphanRows>>

\* updateOrderStatus, with the from-states of the controller.
UpdateOrderStatus(o, to) ==
  /\ order[o] \in ValidFrom[to]
  /\ order' = [order EXCEPT ![o] = to]
  /\ UNCHANGED <<stock, payment, provider, attached, staleClaim, cart,
                 paidRows, orphanRows>>

\* Fifteen minutes pass without a write to a claimed payment.
ClaimAges(o) ==
  /\ payment[o] = "refund_pending" /\ ~staleClaim[o]
  /\ staleClaim' = [staleClaim EXCEPT ![o] = TRUE]
  /\ UNCHANGED <<stock, order, payment, provider, attached, cart, paidRows,
                 orphanRows>>

RepoStep(o) ==
  \/ \E c \in Cart, p \in Provider : CreatePendingOrder(o, c, p)
  \/ AttachProviderId(o)
  \/ RecordProviderFee(o)
  \/ \E reason \in {"expired", "failed", "cancelled"} : CancelPendingOrder(o, reason)
  \/ CompensateFailedCheckout(o)
  \/ MarkPaid(o)
  \/ ClaimRefund(o)
  \/ ReleaseRefundClaim(o)
  \/ Refund(o)
  \/ \E to \in {"delivery_arranged", "delivered"} : UpdateOrderStatus(o, to)
  \/ ClaimAges(o)

RepoNext == \E o \in Orders : RepoStep(o)

RepoSpec == RepoInit /\ [][RepoNext]_repoVars

-----------------------------------------------------------------------------
(* Properties.                                                             *)

\* The order holds its units: everything but a cancelled order keeps them,
\* a refunded one included.
Holds(o) == order[o] \notin {"none", "cancelled"}

\* The units of an item that are out of the shelf, one pair per unit.
HeldUnits(i) == {u \in Orders \X (1..MaxQty) : Holds(u[1]) /\ u[2] <= cart[u[1]][i]}

\* No unit is sold twice and none is lost: what is left in a row plus what the
\* live orders took from it is what the row had, through every mix of
\* reservations, cancellations, expiries, compensations and late payments.
StockConserved ==
  \A i \in Items : stock[i] + Cardinality(HeldUnits(i)) = InitialStock[i]

\* The two status columns, written by separate statements and by separate
\* callers, never disagree: money is never recorded against an order that is
\* still waiting, and no order is sold on a payment that was given up.
OrderMatchesPayment ==
  \A o \in Orders :
    /\ order[o] = "none" <=> payment[o] = "none"
    /\ order[o] = "pending_payment" <=> payment[o] = "pending"
    /\ order[o] \in {"paid", "delivery_arranged", "delivered"}
         => payment[o] \in {"succeeded", "refund_pending"}
    /\ order[o] = "refunded" => payment[o] = "refunded"
    /\ payment[o] \in {"failed", "expired", "cancelled"} => order[o] = "cancelled"

\* A captured payment leaves exactly one durable signal: one sale announced, or
\* one orphan to reconcile when the order was gone, never both, never two.
SignalledOnce ==
  \A o \in Orders :
    /\ paidRows[o] + orphanRows[o] = IF payment[o] \in Settled THEN 1 ELSE 0
    /\ payment[o] \in Settled => (orphanRows[o] = 1 <=> order[o] = "cancelled")

\* The order of the states an order goes through (docs/ARCHITECTURE.md:686).
Rank == [none |-> 0, pending_payment |-> 1, paid |-> 2, delivery_arranged |-> 3,
         delivered |-> 4, cancelled |-> 5, refunded |-> 5]

\* An order never goes back, and a refunded payment stays refunded, whoever
\* holds a stale claim on it.
NoWayBack ==
  [][\A o \in Orders :
       /\ order'[o] # order[o] => Rank[order[o]] < Rank[order'[o]]
       /\ payment[o] = "refunded" => payment'[o] = "refunded"]_repoVars
=============================================================================
