------------------------------ MODULE OrdersTx ------------------------------
(***************************************************************************)
(* The transactions of orders.repository.ts statement by statement.  The   *)
(* database is PostgreSQL at READ COMMITTED: an update looks for its rows  *)
(* in committed data, waits while another transaction holds one, looks at  *)
(* it again, and keeps the row until its own transaction ends; of a cycle  *)
(* of waiting transactions one is aborted.  What a transaction wrote is    *)
(* seen by nobody before Commit, which must be one step of RepoSpec.       *)
(***************************************************************************)
EXTENDS OrdersRepository, SequencesExt

CONSTANTS
  Txs,      \* connections of the pool, each with at most one transaction
  ItemId    \* the ids of the rows, as createPendingOrder compares them

ASSUME ItemIdAssumption ==
  /\ IsFiniteSet(Items)
  /\ ItemId \in [Items -> Nat]
  /\ \A i, j \in Items : ItemId[i] = ItemId[j] => i = j

VARIABLES
  tx,        \* the transaction of each connection
  locks,     \* the rows each transaction has written, and so holds
  lostPaid   \* orders whose success event failed with its transaction

txVars == <<tx, locks, lostPaid>>
allVars == <<repoVars, txVars>>

-----------------------------------------------------------------------------
ItemRow(i) == <<"item", i>>
OrderRow(o) == <<"order", o>>
PaymentRow(o) == <<"payment", o>>

Rows == ({"item"} \X Items) \cup ({"order", "payment"} \X Orders)

NoTx == [kind |-> "none"]

ItemsOf(c) == {i \in Items : c[i] > 0}

\* A purchase that takes its items as the client listed them.
Faulty_PurchaseOrders(c) == SetToSeqs(ItemsOf(c))

Ascending(todo) ==
  \A a, b \in DOMAIN todo : a < b => ItemId[todo[a]] < ItemId[todo[b]]

\* A purchase takes its items sorted by id ...
PurchaseOrders(c) == {todo \in SetToSeqs(ItemsOf(c)) : Ascending(todo)}

\* ... a cancellation in the order findMany happens to return them.
RestockOrders(c) == SetToSeqs(ItemsOf(c))

\* What each transaction writes, one statement after the other.
Script == [create   |-> <<"item", "commit">>,
           cancel   |-> <<"order", "item", "payment", "commit">>,
           markPaid |-> <<"payment", "order", "commit">>,
           refund   |-> <<"payment", "order", "commit">>]

Faulty_OrderFrom == [cancel   |-> {"pending_payment", "paid"},
                     markPaid |-> {"pending_payment"},
                     refund   |-> Refundable]

\* The statuses the where of each update asks for.
OrderFrom == [cancel   |-> {"pending_payment"},
              markPaid |-> {"pending_payment"},
              refund   |-> Refundable]

PaymentFrom == [cancel   |-> {"pending"},
                markPaid |-> Payable,
                refund   |-> {"succeeded", "refund_pending"}]

At(t) == Script[tx[t].kind][tx[t].pc]

Running(t) == tx[t].kind # "none"

\* The row the next statement of a transaction is after: none when no committed
\* row matches its where.
Wants(t) ==
  IF ~Running(t) THEN {} ELSE
  LET o == tx[t].on
  IN  {r \in Rows :
        \/ /\ At(t) = "item" /\ r = ItemRow(Head(tx[t].todo))
           /\ tx[t].kind = "create" => stock[r[2]] >= tx[t].cart[r[2]]
        \/ /\ At(t) = "order" /\ r = OrderRow(o)
           /\ order[o] \in OrderFrom[tx[t].kind]
        \/ /\ At(t) = "payment" /\ r = PaymentRow(o)
           /\ payment[o] \in PaymentFrom[tx[t].kind]}

Held(r) == \E t \in Txs : r \in locks[t]

Waits(t, u) == t # u /\ Wants(t) \cap locks[u] # {}

\* Transactions that wait for each other in a circle.
Cycle(S) ==
  \A t \in S : (\E u \in S : Waits(t, u)) /\ (\E u \in S : Waits(u, t))

TxInit ==
  /\ RepoInit
  /\ tx = [t \in Txs |-> NoTx]
  /\ locks = [t \in Txs |-> {}]
  /\ lostPaid = {}

-----------------------------------------------------------------------------
(* Beginnings.                                                             *)

Begin(t, k, o, c, todo, arg) ==
  /\ ~Running(t)
  /\ tx' = [tx EXCEPT ![t] = [kind |-> k, on |-> o, pc |-> 1, cart |-> c,
                              todo |-> todo, arg |-> arg]]
  /\ UNCHANGED <<repoVars, locks, lostPaid>>

\* The id of an order is fresh: no two transactions create the same one.
BeginCreate(t, o, c, p) ==
  /\ order[o] = "none" /\ c # EmptyCart
  /\ \A u \in Txs : Running(u) => tx[u].on # o
  /\ \E todo \in PurchaseOrders(c) : Begin(t, "create", o, c, todo, p)

BeginCancel(t, o, reason) ==
  /\ order[o] # "none"
  /\ \E todo \in RestockOrders(cart[o]) : Begin(t, "cancel", o, cart[o], todo, reason)

\* The success event of a payment is one row of webhook_events; once "failed"
\* nothing processes it again.
BeginMarkPaid(t, o) ==
  /\ order[o] # "none" /\ o \notin lostPaid
  /\ Begin(t, "markPaid", o, cart[o], <<>>, "none")

BeginRefund(t, o) ==
  /\ order[o] # "none"
  /\ Begin(t, "refund", o, cart[o], <<>>, "none")

-----------------------------------------------------------------------------
(* Statements.                                                             *)

Advanced(t) ==
  IF At(t) = "item" /\ Len(tx[t].todo) > 1
    THEN [tx[t] EXCEPT !.todo = Tail(@)]
    ELSE [tx[t] EXCEPT !.pc = @ + 1]

Advance(t) == tx' = [tx EXCEPT ![t] = Advanced(t)]

End(t) ==
  /\ tx' = [tx EXCEPT ![t] = NoTx]
  /\ locks' = [locks EXCEPT ![t] = {}]

\* The update finds its row free, writes it and holds it.
Write(t) ==
  /\ Running(t)
  /\ \E r \in Wants(t) :
       /\ ~Held(r)
       /\ locks' = [locks EXCEPT ![t] = @ \cup {r}]
  /\ Advance(t)
  /\ UNCHANGED <<repoVars, lostPaid>>

\* A claim goes on without looking at the count of its update.
Faulty_NoMatch(t) ==
  /\ Running(t) /\ At(t) # "commit" /\ Wants(t) = {}
  /\ Advance(t)
  /\ UNCHANGED <<locks, repoVars, lostPaid>>

\* The update matches nothing: a claim returns and a purchase throws, with
\* nothing done; a later update of the transaction simply counts zero.
NoMatch(t) ==
  /\ Running(t) /\ At(t) # "commit" /\ Wants(t) = {}
  /\ IF tx[t].pc = 1 THEN End(t)
                     ELSE Advance(t) /\ UNCHANGED locks
  /\ UNCHANGED <<repoVars, lostPaid>>

\* All that was written becomes visible at once.
Commit(t) ==
  /\ Running(t) /\ At(t) = "commit"
  /\ LET o == tx[t].on
         k == tx[t].kind
         wroteOrder == k = "create" \/ OrderRow(o) \in locks[t]
         wrotePayment == k = "create" \/ PaymentRow(o) \in locks[t]
         newOrder == [create |-> "pending_payment", cancel |-> "cancelled",
                      markPaid |-> "paid", refund |-> "refunded"][k]
         newPayment == [create |-> "pending", cancel |-> tx[t].arg,
                        markPaid |-> "succeeded", refund |-> "refunded"][k]
     IN  /\ order' = [order EXCEPT ![o] = IF wroteOrder THEN newOrder ELSE @]
         /\ IF wrotePayment THEN SetPayment(o, newPayment)
                            ELSE UNCHANGED <<payment, staleClaim>>
         /\ stock' = [i \in Items |->
              IF ItemRow(i) \notin locks[t] THEN stock[i]
              ELSE IF k = "create" THEN stock[i] - tx[t].cart[i]
              ELSE stock[i] + tx[t].cart[i]]
         /\ provider' = [provider EXCEPT ![o] = IF k = "create" THEN tx[t].arg ELSE @]
         /\ cart' = [cart EXCEPT ![o] = tx[t].cart]
         /\ attached' = [attached EXCEPT ![o] =
                           @ \/ (k = "markPaid" /\ provider[o] = "stripe")]
         /\ paidRows' = [paidRows EXCEPT ![o] =
                           IF k = "markPaid" /\ wroteOrder THEN @ + 1 ELSE @]
         /\ orphanRows' = [orphanRows EXCEPT ![o] =
                             IF k = "markPaid" /\ ~wroteOrder THEN @ + 1 ELSE @]
  /\ End(t)
  /\ UNCHANGED lostPaid

\* The process dies, and its connection with it: nothing was written.
Rollback(t) ==
  /\ Running(t)
  /\ End(t)
  /\ UNCHANGED <<repoVars, lostPaid>>

\* The database breaks a circle by aborting one of its transactions.  The run
\* of the webhook that called markPaid then marks its event "failed".
DeadlockVictim(t) ==
  /\ \E S \in SUBSET Txs : t \in S /\ Cycle(S)
  /\ End(t)
  /\ lostPaid' = IF tx[t].kind = "markPaid" THEN lostPaid \cup {tx[t].on} ELSE lostPaid
  /\ UNCHANGED repoVars

\* The operations that are one statement wait for their row and commit at once.
SingleStatement(o) ==
  /\ \/ ~Held(PaymentRow(o)) /\ \/ AttachProviderId(o) \/ RecordProviderFee(o)
                                \/ ClaimRefund(o) \/ ReleaseRefundClaim(o)
     \/ ~Held(OrderRow(o)) /\ \E to \in {"delivery_arranged", "delivered"} :
                                UpdateOrderStatus(o, to)
     \/ ClaimAges(o)
  /\ UNCHANGED txVars

TxStep(t) ==
  \/ \E o \in Orders : \/ \E c \in Cart, p \in Provider : BeginCreate(t, o, c, p)
                       \/ \E reason \in {"expired", "failed", "cancelled"} :
                            BeginCancel(t, o, reason)
                       \/ BeginMarkPaid(t, o)
                       \/ BeginRefund(t, o)
  \/ Write(t) \/ NoMatch(t) \/ Commit(t) \/ Rollback(t) \/ DeadlockVictim(t)

TxNext == (\E t \in Txs : TxStep(t)) \/ (\E o \in Orders : SingleStatement(o))

TxSpec == TxInit /\ [][TxNext]_allVars

-----------------------------------------------------------------------------
(* Properties.                                                             *)

\* A deadlock always involves a cancellation: two purchases take their rows in
\* the same sequence (orders.repository.ts:143), and a confirmation and a
\* refund both take the payment before the order.
DeadlockNeedsCancellation ==
  \A S \in (SUBSET Txs) \ {{}} : Cycle(S) => \E t \in S : tx[t].kind = "cancel"
=============================================================================
