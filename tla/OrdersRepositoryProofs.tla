----------------------- MODULE OrdersRepositoryProofs -----------------------
(***************************************************************************)
(* The invariants and the action property of OrdersRepository, for every   *)
(* set of orders and items, every stock and every bound on a quantity.     *)
(* RepoTypeOK, OrderMatchesPayment and SignalledOnce are proved in this    *)
(* order, each inductive once the ones before it are known; StockConserved *)
(* counts the units the orders hold, one pair per unit.                    *)
(***************************************************************************)
EXTENDS OrdersRepository, FiniteSetTheorems, TLAPS

\* A payment write names one payment and leaves the others as they are.
LEMMA SetPaymentType ==
  ASSUME RepoTypeOK, NEW o \in Orders, NEW s \in PaymentStatus, SetPayment(o, s)
  PROVE  /\ payment' \in [Orders -> PaymentStatus]
         /\ staleClaim' \in [Orders -> BOOLEAN]
         /\ payment'[o] = s
         /\ \A q \in Orders \ {o} : payment'[q] = payment[q]
BY DEF RepoTypeOK, SetPayment

-----------------------------------------------------------------------------
(* Type correctness.                                                       *)

LEMMA CancelPendingOrderType ==
  ASSUME RepoTypeOK, NEW o \in Orders,
         NEW reason \in {"expired", "failed", "cancelled"},
         CancelPendingOrder(o, reason)
  PROVE  RepoTypeOK'
<1>1. reason \in PaymentStatus
  BY DEF PaymentStatus
<1>2. payment' \in [Orders -> PaymentStatus] /\ staleClaim' \in [Orders -> BOOLEAN]
  <2>1. CASE payment[o] = "pending"
    BY <2>1, <1>1, SetPaymentType DEF CancelPendingOrder
  <2>2. CASE payment[o] # "pending"
    BY <2>2 DEF CancelPendingOrder, RepoTypeOK
  <2>. QED BY <2>1, <2>2
<1>3. stock' \in [Items -> Nat]
  BY DEF CancelPendingOrder, RestockItems, RepoTypeOK, Cart
<1>4. order' \in [Orders -> OrderStatus]
  BY DEF CancelPendingOrder, RepoTypeOK, OrderStatus
<1>. QED
  BY <1>2, <1>3, <1>4 DEF CancelPendingOrder, RepoTypeOK

LEMMA RepoTypeStep ==
  ASSUME RepoTypeOK, NEW o \in Orders, RepoStep(o)
  PROVE  RepoTypeOK'
<1>1. ASSUME NEW c \in Cart, NEW p \in Provider, CreatePendingOrder(o, c, p)
      PROVE  RepoTypeOK'
  <2>1. stock' \in [Items -> Nat]
    BY <1>1 DEF CreatePendingOrder, Reservable, RepoTypeOK, Cart
  <2>2. payment' \in [Orders -> PaymentStatus] /\ staleClaim' \in [Orders -> BOOLEAN]
    BY <1>1 DEF CreatePendingOrder, SetPayment, RepoTypeOK, PaymentStatus
  <2>. QED
    BY <1>1, <2>1, <2>2 DEF CreatePendingOrder, RepoTypeOK, OrderStatus
<1>2. CASE AttachProviderId(o)
  BY <1>2 DEF AttachProviderId, SetPayment, RepoTypeOK
<1>10. CASE RecordProviderFee(o)
  BY <1>10 DEF RecordProviderFee, SetPayment, RepoTypeOK
<1>3. ASSUME NEW reason \in {"expired", "failed", "cancelled"},
             CancelPendingOrder(o, reason)
      PROVE  RepoTypeOK'
  BY <1>3, CancelPendingOrderType
<1>4. CASE CompensateFailedCheckout(o)
  BY <1>4, CancelPendingOrderType DEF CompensateFailedCheckout
<1>5. CASE MarkPaid(o)
  <2>1. payment' \in [Orders -> PaymentStatus] /\ staleClaim' \in [Orders -> BOOLEAN]
    BY <1>5 DEF MarkPaid, SetPayment, RepoTypeOK, PaymentStatus
  <2>2. order' \in [Orders -> OrderStatus]
    BY <1>5 DEF MarkPaid, RepoTypeOK, OrderStatus
  <2>3. paidRows' \in [Orders -> Nat] /\ orphanRows' \in [Orders -> Nat]
    BY <1>5 DEF MarkPaid, RepoTypeOK
  <2>4. attached' \in [Orders -> BOOLEAN]
    BY <1>5 DEF MarkPaid, RepoTypeOK
  <2>. QED
    BY <1>5, <2>1, <2>2, <2>3, <2>4 DEF MarkPaid, RepoTypeOK
<1>6. CASE ClaimRefund(o)
  BY <1>6 DEF ClaimRefund, Claimable, SetPayment, RepoTypeOK, PaymentStatus
<1>7. CASE ReleaseRefundClaim(o)
  BY <1>7 DEF ReleaseRefundClaim, SetPayment, RepoTypeOK, PaymentStatus
<1>8. CASE Refund(o)
  BY <1>8 DEF Refund, SetPayment, RepoTypeOK, PaymentStatus, OrderStatus
<1>9. ASSUME NEW to \in {"delivery_arranged", "delivered"}, UpdateOrderStatus(o, to)
      PROVE  RepoTypeOK'
  BY <1>9 DEF UpdateOrderStatus, RepoTypeOK, OrderStatus
<1>11. CASE ClaimAges(o)
  BY <1>11 DEF ClaimAges, RepoTypeOK
<1>. QED
  BY <1>1, <1>2, <1>3, <1>4, <1>5, <1>6, <1>7, <1>8, <1>9, <1>10,
     <1>11 DEF RepoStep

LEMMA RepoTypeInit == RepoInit => RepoTypeOK
BY StockAssumption, QtyAssumption
   DEF RepoInit, RepoTypeOK, OrderStatus, PaymentStatus, Provider, Cart, EmptyCart

LEMMA RepoTypeNext == RepoTypeOK /\ [RepoNext]_repoVars => RepoTypeOK'
<1>. SUFFICES ASSUME RepoTypeOK, [RepoNext]_repoVars PROVE RepoTypeOK'
  OBVIOUS
<1>1. CASE RepoNext
  BY <1>1, RepoTypeStep DEF RepoNext
<1>2. CASE UNCHANGED repoVars
  BY <1>2 DEF RepoTypeOK, repoVars
<1>. QED BY <1>1, <1>2

\* The columns keep their types: no counter of a row ever goes below zero, and
\* no status outside the enumerations is written.
THEOREM RepoTypeCorrect == RepoSpec => []RepoTypeOK
BY RepoTypeInit, RepoTypeNext, PTL DEF RepoSpec

-----------------------------------------------------------------------------
(* The two status columns agree.                                           *)

LEMMA OrderMatchesPaymentInit == RepoInit => OrderMatchesPayment
BY DEF RepoInit, OrderMatchesPayment, Refundable

LEMMA OrderMatchesPaymentStep ==
  ASSUME RepoTypeOK, OrderMatchesPayment, NEW o \in Orders, RepoStep(o)
  PROVE  OrderMatchesPayment'
<1>. USE DEF OrderMatchesPayment, Refundable
<1>1. ASSUME NEW c \in Cart, NEW p \in Provider, CreatePendingOrder(o, c, p)
      PROVE  OrderMatchesPayment'
  BY <1>1 DEF CreatePendingOrder, SetPayment, RepoTypeOK
<1>2. CASE AttachProviderId(o)
  BY <1>2 DEF AttachProviderId, SetPayment, RepoTypeOK
<1>10. CASE RecordProviderFee(o)
  BY <1>10 DEF RecordProviderFee, SetPayment, RepoTypeOK
<1>3. ASSUME NEW reason \in {"expired", "failed", "cancelled"},
             CancelPendingOrder(o, reason)
      PROVE  OrderMatchesPayment'
  BY <1>3 DEF CancelPendingOrder, CancelPending, SetPayment, RepoTypeOK
<1>4. CASE CompensateFailedCheckout(o)
  BY <1>4, <1>3 DEF CompensateFailedCheckout
<1>5. CASE MarkPaid(o)
  BY <1>5 DEF MarkPaid, SetPayment, Payable, RepoTypeOK
<1>6. CASE ClaimRefund(o)
  BY <1>6 DEF ClaimRefund, Claimable, SetPayment, RepoTypeOK
<1>7. CASE ReleaseRefundClaim(o)
  BY <1>7 DEF ReleaseRefundClaim, SetPayment, RepoTypeOK
<1>8. CASE Refund(o)
  BY <1>8 DEF Refund, SetPayment, RepoTypeOK
<1>9. ASSUME NEW to \in {"delivery_arranged", "delivered"}, UpdateOrderStatus(o, to)
      PROVE  OrderMatchesPayment'
  BY <1>9 DEF UpdateOrderStatus, ValidFrom, RepoTypeOK
<1>11. CASE ClaimAges(o)
  BY <1>11 DEF ClaimAges
<1>. QED
  BY <1>1, <1>2, <1>3, <1>4, <1>5, <1>6, <1>7, <1>8, <1>9, <1>10,
     <1>11 DEF RepoStep

LEMMA OrderMatchesPaymentNext ==
  RepoTypeOK /\ OrderMatchesPayment /\ [RepoNext]_repoVars => OrderMatchesPayment'
<1>. SUFFICES ASSUME RepoTypeOK, OrderMatchesPayment, [RepoNext]_repoVars
              PROVE  OrderMatchesPayment'
  OBVIOUS
<1>1. CASE RepoNext
  BY <1>1, OrderMatchesPaymentStep DEF RepoNext
<1>2. CASE UNCHANGED repoVars
  BY <1>2 DEF OrderMatchesPayment, repoVars
<1>. QED BY <1>1, <1>2

\* Whatever the callers do and in whatever order, orders.status and
\* payments.status tell the same story: a sold order has captured money, and a
\* payment that was given up belongs to a cancelled order.
THEOREM StatusesAgree == RepoSpec => []OrderMatchesPayment
BY RepoTypeInit, RepoTypeNext, OrderMatchesPaymentInit, OrderMatchesPaymentNext, PTL
   DEF RepoSpec

-----------------------------------------------------------------------------
(* One signal per captured payment.                                        *)

LEMMA SignalledOnceInit == RepoInit => SignalledOnce
BY DEF RepoInit, SignalledOnce, Settled

LEMMA SignalledOnceStep ==
  ASSUME RepoTypeOK, OrderMatchesPayment, SignalledOnce,
         NEW o \in Orders, RepoStep(o)
  PROVE  SignalledOnce'
<1>. USE DEF SignalledOnce, Settled
<1>1. ASSUME NEW c \in Cart, NEW p \in Provider, CreatePendingOrder(o, c, p)
      PROVE  SignalledOnce'
  BY <1>1 DEF CreatePendingOrder, SetPayment, RepoTypeOK, OrderMatchesPayment
<1>2. CASE AttachProviderId(o)
  BY <1>2 DEF AttachProviderId, SetPayment, RepoTypeOK
<1>10. CASE RecordProviderFee(o)
  BY <1>10 DEF RecordProviderFee, SetPayment, RepoTypeOK
<1>3. ASSUME NEW reason \in {"expired", "failed", "cancelled"},
             CancelPendingOrder(o, reason)
      PROVE  SignalledOnce'
  BY <1>3 DEF CancelPendingOrder, CancelPending, SetPayment, RepoTypeOK,
              OrderMatchesPayment
<1>4. CASE CompensateFailedCheckout(o)
  BY <1>4, <1>3 DEF CompensateFailedCheckout
<1>5. CASE MarkPaid(o)
  <2>1. payment'[o] = "succeeded" /\ payment[o] \notin Settled
    BY <1>5 DEF MarkPaid, SetPayment, Payable, RepoTypeOK
  <2>2. paidRows[o] = 0 /\ orphanRows[o] = 0
    BY <2>1 DEF RepoTypeOK
  <2>3. CASE order[o] = "pending_payment"
    BY <1>5, <2>1, <2>2, <2>3 DEF MarkPaid, SetPayment, RepoTypeOK
  <2>4. CASE order[o] # "pending_payment"
    <3>1. order[o] = "cancelled"
      BY <1>5, <2>4 DEF MarkPaid, Payable, OrderMatchesPayment
    <3>. QED BY <1>5, <2>1, <2>2, <2>4, <3>1 DEF MarkPaid, SetPayment, RepoTypeOK
  <2>. QED BY <2>3, <2>4
<1>6. CASE ClaimRefund(o)
  BY <1>6 DEF ClaimRefund, Claimable, SetPayment, RepoTypeOK
<1>7. CASE ReleaseRefundClaim(o)
  BY <1>7 DEF ReleaseRefundClaim, SetPayment, RepoTypeOK
<1>8. CASE Refund(o)
  BY <1>8 DEF Refund, SetPayment, Refundable, RepoTypeOK
<1>9. ASSUME NEW to \in {"delivery_arranged", "delivered"}, UpdateOrderStatus(o, to)
      PROVE  SignalledOnce'
  BY <1>9 DEF UpdateOrderStatus, ValidFrom, RepoTypeOK
<1>11. CASE ClaimAges(o)
  BY <1>11 DEF ClaimAges
<1>. QED
  BY <1>1, <1>2, <1>3, <1>4, <1>5, <1>6, <1>7, <1>8, <1>9, <1>10,
     <1>11 DEF RepoStep

LEMMA SignalledOnceNext ==
  RepoTypeOK /\ OrderMatchesPayment /\ SignalledOnce /\ [RepoNext]_repoVars
    => SignalledOnce'
<1>. SUFFICES ASSUME RepoTypeOK, OrderMatchesPayment, SignalledOnce,
                     [RepoNext]_repoVars
              PROVE  SignalledOnce'
  OBVIOUS
<1>1. CASE RepoNext
  BY <1>1, SignalledOnceStep DEF RepoNext
<1>2. CASE UNCHANGED repoVars
  BY <1>2 DEF SignalledOnce, repoVars
<1>. QED BY <1>1, <1>2

\* However often and however late a capture is reported, it is announced once:
\* as a sale, or as orphaned money when the order was already cancelled.
THEOREM CapturesSignalledOnce == RepoSpec => []SignalledOnce
BY RepoTypeInit, RepoTypeNext, OrderMatchesPaymentInit, OrderMatchesPaymentNext,
   SignalledOnceInit, SignalledOnceNext, PTL
   DEF RepoSpec

-----------------------------------------------------------------------------
(* The stock.                                                              *)

\* The units one order holds of one item, when it holds q of them.
LEMMA UnitsOfOneOrder ==
  ASSUME NEW o \in Orders, NEW q \in Nat
  PROVE  /\ IsFiniteSet({o} \X (1..q))
         /\ Cardinality({o} \X (1..q)) = q
<1>1. IsFiniteSet({o}) /\ Cardinality({o}) = 1
  BY FS_Singleton
<1>2. IsFiniteSet(1..q) /\ Cardinality(1..q) = q
  BY FS_Interval
<1>3. /\ IsFiniteSet({o} \X (1..q))
      /\ Cardinality({o} \X (1..q)) = Cardinality({o}) * Cardinality(1..q)
  BY <1>1, <1>2, FS_Product, Zenon
<1>4. 1 * q = q
  OBVIOUS
<1>. QED BY <1>1, <1>2, <1>3, <1>4

LEMMA HeldUnitsFinite ==
  ASSUME NEW i \in Items
  PROVE  IsFiniteSet(HeldUnits(i))
<1>1. IsFiniteSet(1..MaxQty)
  BY FS_Interval, QtyAssumption
<1>2. IsFiniteSet(Orders \X (1..MaxQty))
  BY <1>1, FS_Product, OrdersAssumption
<1>. QED BY <1>2, FS_Subset DEF HeldUnits

\* A step that neither starts nor stops holding units leaves the count alone.
LEMMA HeldUnitsSame ==
  ASSUME NEW i \in Items, cart' = cart, \A o \in Orders : Holds(o)' = Holds(o)
  PROVE  HeldUnits(i)' = HeldUnits(i)
BY DEF HeldUnits

\* A reservation takes as many units from each row as it adds to the count.
LEMMA CreateConserves ==
  ASSUME RepoTypeOK, OrderMatchesPayment, StockConserved, NEW o \in Orders,
         NEW c \in Cart, NEW p \in Provider, CreatePendingOrder(o, c, p)
  PROVE  StockConserved'
<1>. SUFFICES ASSUME NEW i \in Items
              PROVE  stock'[i] + Cardinality(HeldUnits(i)') = InitialStock[i]
  BY DEF StockConserved
<1>. DEFINE mine == {o} \X (1..c[i])
<1>1. c[i] \in 0..MaxQty
  BY DEF Cart
<1>2. IsFiniteSet(mine) /\ Cardinality(mine) = c[i]
  BY <1>1, UnitsOfOneOrder
<1>3. IsFiniteSet(HeldUnits(i))
  BY HeldUnitsFinite
<1>4. HeldUnits(i)' = HeldUnits(i) \cup mine
  <2>1. ~Holds(o) /\ Holds(o)' /\ cart'[o] = c
    BY DEF CreatePendingOrder, Holds, RepoTypeOK
  <2>2. \A q \in Orders \ {o} : Holds(q)' = Holds(q) /\ cart'[q] = cart[q]
    BY DEF CreatePendingOrder, Holds, RepoTypeOK
  <2>. QED BY <1>1, <2>1, <2>2, QtyAssumption DEF HeldUnits
<1>5. HeldUnits(i) \cap mine = {}
  BY DEF HeldUnits, Holds, CreatePendingOrder
<1>6. Cardinality(HeldUnits(i)') = Cardinality(HeldUnits(i)) + c[i]
  <2>1. Cardinality(HeldUnits(i) \cup mine)
          = Cardinality(HeldUnits(i)) + Cardinality(mine)
              - Cardinality(HeldUnits(i) \cap mine)
    BY <1>2, <1>3, FS_Union, Zenon
  <2>2. Cardinality(HeldUnits(i) \cap mine) = 0
    BY <1>5, FS_EmptySet, Zenon
  <2>3. Cardinality(HeldUnits(i)) \in Nat
    BY <1>3, FS_CardinalityType
  <2>. HIDE DEF mine
  <2>4. Cardinality(HeldUnits(i)') = Cardinality(HeldUnits(i) \cup mine)
    BY <1>4, Zenon
  <2>. QED BY <1>1, <1>2, <2>1, <2>2, <2>3, <2>4
<1>7. stock'[i] = stock[i] - c[i]
  BY DEF CreatePendingOrder
<1>8. stock[i] \in Nat /\ Cardinality(HeldUnits(i)) \in Nat
  BY <1>3, FS_CardinalityType DEF RepoTypeOK
<1>. QED BY <1>1, <1>6, <1>7, <1>8 DEF StockConserved

\* A cancellation gives back exactly what the order held.
LEMMA CancelConserves ==
  ASSUME RepoTypeOK, StockConserved, NEW o \in Orders, NEW reason,
         CancelPendingOrder(o, reason)
  PROVE  StockConserved'
<1>. SUFFICES ASSUME NEW i \in Items
              PROVE  stock'[i] + Cardinality(HeldUnits(i)') = InitialStock[i]
  BY DEF StockConserved
<1>. DEFINE mine == {o} \X (1..cart[o][i])
<1>1. cart[o][i] \in 0..MaxQty
  BY DEF RepoTypeOK, Cart
<1>2. IsFiniteSet(mine) /\ Cardinality(mine) = cart[o][i]
  BY <1>1, UnitsOfOneOrder
<1>3. IsFiniteSet(HeldUnits(i))
  BY HeldUnitsFinite
<1>4. Holds(o) /\ ~Holds(o)' /\ cart' = cart
  BY DEF CancelPendingOrder, CancelPending, Holds, RepoTypeOK
<1>5. \A q \in Orders \ {o} : Holds(q)' = Holds(q)
  BY DEF CancelPendingOrder, Holds, RepoTypeOK
<1>6. HeldUnits(i)' = HeldUnits(i) \ mine
  BY <1>1, <1>4, <1>5, QtyAssumption DEF HeldUnits
<1>7. HeldUnits(i) \cap mine = mine
  BY <1>1, <1>4, QtyAssumption DEF HeldUnits
<1>8. Cardinality(HeldUnits(i)') = Cardinality(HeldUnits(i)) - cart[o][i]
  <2>1. Cardinality(HeldUnits(i) \ mine)
          = Cardinality(HeldUnits(i)) - Cardinality(HeldUnits(i) \cap mine)
    BY <1>3, FS_Difference, Zenon
  <2>. HIDE DEF mine
  <2>. QED BY <1>2, <1>6, <1>7, <2>1
<1>9. stock'[i] = stock[i] + cart[o][i]
  BY DEF CancelPendingOrder, RestockItems
<1>10. stock[i] \in Nat /\ Cardinality(HeldUnits(i)) \in Nat
  BY <1>3, FS_CardinalityType DEF RepoTypeOK
<1>. QED BY <1>1, <1>8, <1>9, <1>10 DEF StockConserved

LEMMA OtherStepsConserve ==
  ASSUME StockConserved, stock' = stock, cart' = cart,
         \A o \in Orders : Holds(o)' = Holds(o)
  PROVE  StockConserved'
BY HeldUnitsSame DEF StockConserved

LEMMA StockConservedStep ==
  ASSUME RepoTypeOK, OrderMatchesPayment, StockConserved,
         NEW o \in Orders, RepoStep(o)
  PROVE  StockConserved'
<1>1. ASSUME NEW c \in Cart, NEW p \in Provider, CreatePendingOrder(o, c, p)
      PROVE  StockConserved'
  BY <1>1, CreateConserves
<1>2. CASE AttachProviderId(o)
  BY <1>2, OtherStepsConserve DEF AttachProviderId, Holds
<1>10. CASE RecordProviderFee(o)
  BY <1>10, OtherStepsConserve DEF RecordProviderFee, Holds
<1>3. ASSUME NEW reason \in {"expired", "failed", "cancelled"},
             CancelPendingOrder(o, reason)
      PROVE  StockConserved'
  BY <1>3, CancelConserves
<1>4. CASE CompensateFailedCheckout(o)
  BY <1>4, CancelConserves DEF CompensateFailedCheckout
<1>5. CASE MarkPaid(o)
  BY <1>5, OtherStepsConserve DEF MarkPaid, Holds, RepoTypeOK
<1>6. CASE ClaimRefund(o)
  BY <1>6, OtherStepsConserve DEF ClaimRefund, Claimable, Holds
<1>7. CASE ReleaseRefundClaim(o)
  BY <1>7, OtherStepsConserve DEF ReleaseRefundClaim, Holds
<1>8. CASE Refund(o)
  BY <1>8, OtherStepsConserve DEF Refund, Refundable, Holds, RepoTypeOK
<1>9. ASSUME NEW to \in {"delivery_arranged", "delivered"}, UpdateOrderStatus(o, to)
      PROVE  StockConserved'
  BY <1>9, OtherStepsConserve DEF UpdateOrderStatus, ValidFrom, Holds, RepoTypeOK
<1>11. CASE ClaimAges(o)
  BY <1>11, OtherStepsConserve DEF ClaimAges, Holds
<1>. QED
  BY <1>1, <1>2, <1>3, <1>4, <1>5, <1>6, <1>7, <1>8, <1>9, <1>10,
     <1>11 DEF RepoStep

LEMMA StockConservedInit == RepoInit => StockConserved
<1>. SUFFICES ASSUME RepoInit, NEW i \in Items
              PROVE  stock[i] + Cardinality(HeldUnits(i)) = InitialStock[i]
  BY DEF StockConserved
<1>1. HeldUnits(i) = {}
  BY DEF RepoInit, HeldUnits, Holds
<1>. QED BY <1>1, FS_EmptySet, StockAssumption DEF RepoInit

LEMMA StockConservedNext ==
  RepoTypeOK /\ OrderMatchesPayment /\ StockConserved /\ [RepoNext]_repoVars
    => StockConserved'
<1>. SUFFICES ASSUME RepoTypeOK, OrderMatchesPayment, StockConserved,
                     [RepoNext]_repoVars
              PROVE  StockConserved'
  OBVIOUS
<1>1. CASE RepoNext
  BY <1>1, StockConservedStep DEF RepoNext
<1>2. CASE UNCHANGED repoVars
  BY <1>2, OtherStepsConserve DEF Holds, repoVars
<1>. QED BY <1>1, <1>2

\* No unit is sold twice and none is lost, for any stock and any number of
\* orders reserving, expiring, failing and being paid in any order.
THEOREM StockNeverOversold == RepoSpec => []StockConserved
BY RepoTypeInit, RepoTypeNext, OrderMatchesPaymentInit, OrderMatchesPaymentNext,
   StockConservedInit, StockConservedNext, PTL
   DEF RepoSpec

-----------------------------------------------------------------------------
(* No way back.                                                            *)

Forward(q) == /\ order'[q] # order[q] => Rank[order[q]] < Rank[order'[q]]
              /\ payment[q] = "refunded" => payment'[q] = "refunded"

LEMMA StepGoesForward ==
  ASSUME RepoTypeOK, OrderMatchesPayment, NEW o \in Orders, RepoStep(o),
         NEW q \in Orders
  PROVE  Forward(q)
<1>. USE DEF Forward, Rank, SetPayment, RepoTypeOK
<1>1. ASSUME NEW c \in Cart, NEW p \in Provider, CreatePendingOrder(o, c, p)
      PROVE  Forward(q)
  BY <1>1 DEF CreatePendingOrder, OrderMatchesPayment
<1>2. CASE AttachProviderId(o)
  BY <1>2 DEF AttachProviderId
<1>10. CASE RecordProviderFee(o)
  BY <1>10 DEF RecordProviderFee
<1>3. ASSUME NEW reason \in {"expired", "failed", "cancelled"},
             CancelPendingOrder(o, reason)
      PROVE  Forward(q)
  BY <1>3 DEF CancelPendingOrder, CancelPending
<1>4. CASE CompensateFailedCheckout(o)
  BY <1>4, <1>3 DEF CompensateFailedCheckout
<1>5. CASE MarkPaid(o)
  BY <1>5 DEF MarkPaid, Payable
<1>6. CASE ClaimRefund(o)
  BY <1>6 DEF ClaimRefund, Claimable
<1>7. CASE ReleaseRefundClaim(o)
  BY <1>7 DEF ReleaseRefundClaim
<1>8. CASE Refund(o)
  BY <1>8 DEF Refund, Refundable
<1>9. ASSUME NEW to \in {"delivery_arranged", "delivered"}, UpdateOrderStatus(o, to)
      PROVE  Forward(q)
  BY <1>9 DEF UpdateOrderStatus, ValidFrom
<1>11. CASE ClaimAges(o)
  BY <1>11 DEF ClaimAges
<1>. QED
  BY <1>1, <1>2, <1>3, <1>4, <1>5, <1>6, <1>7, <1>8, <1>9, <1>10,
     <1>11 DEF RepoStep

\* No caller, however stale, moves an order back or undoes a refund.
THEOREM OrdersNeverGoBack == RepoSpec => NoWayBack
<1>1. RepoTypeOK /\ OrderMatchesPayment /\ [RepoNext]_repoVars
        => [\A o \in Orders :
              /\ order'[o] # order[o] => Rank[order[o]] < Rank[order'[o]]
              /\ payment[o] = "refunded" => payment'[o] = "refunded"]_repoVars
  BY StepGoesForward DEF RepoNext, Forward
<1>. QED
  BY <1>1, RepoTypeInit, RepoTypeNext, OrderMatchesPaymentInit,
     OrderMatchesPaymentNext, PTL
     DEF RepoSpec, NoWayBack
=============================================================================
