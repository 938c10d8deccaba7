--------------------------- MODULE OrdersTxProofs ---------------------------
(***************************************************************************)
(* The statements of any number of concurrent transactions, over any       *)
(* orders and items: whatever the database lets interleave, what they      *)
(* commit is a run of RepoSpec, and a circle of waiting transactions       *)
(* always goes through a cancellation.                                     *)
(***************************************************************************)
EXTENDS OrdersTx, OrdersRepositoryProofs, WellFoundedInduction

Reasons == {"expired", "failed", "cancelled"}

Transaction ==
  [kind : {"create", "cancel", "markPaid", "refund"}, on : Orders, pc : 1..4,
   cart : Cart, todo : Seq(Items), arg : Provider \cup Reasons \cup {"none"}]

TxTypeOK ==
  /\ tx \in [Txs -> Transaction \cup {NoTx}]
  /\ \A t \in Txs : Running(t) => tx[t].pc \in DOMAIN Script[tx[t].kind]
  /\ locks \in [Txs -> SUBSET Rows]
  /\ lostPaid \subseteq Orders

-----------------------------------------------------------------------------
(* The locks, and what each transaction knows of the rows it holds.        *)

HeldItems(t) == {i \in Items : ItemRow(i) \in locks[t]}

\* The items the statements of t have still to reach.
Left(t) == Range(tx[t].todo)

\* No row is held twice.
Exclusive ==
  \A t, u \in Txs : t # u => locks[t] \cap locks[u] = {}

\* An order that exists took something.
CartsKept == \A o \in Orders : order[o] # "none" => cart[o] # EmptyCart

\* A purchase holds units that are there, works alone on an order that does
\* not exist yet, and has every item it still wants after all it holds.
CreateOK(t) ==
  LET c == tx[t].cart
  IN  /\ tx[t].arg \in Provider /\ c # EmptyCart
      /\ order[tx[t].on] = "none"
      /\ \A u \in Txs \ {t} : Running(u) => tx[u].on # tx[t].on
      /\ locks[t] \subseteq {ItemRow(i) : i \in Items}
      /\ \A i \in HeldItems(t) : stock[i] >= c[i]
      /\ tx[t].pc = 1 =>
           /\ tx[t].todo # <<>> /\ Ascending(tx[t].todo)
           /\ HeldItems(t) \cup Left(t) = ItemsOf(c)
           /\ \A i \in HeldItems(t), j \in Left(t) : ItemId[i] < ItemId[j]
      /\ tx[t].pc = 2 => HeldItems(t) = ItemsOf(c)

\* The others work on an order that exists, with the units it took.
OnOrder(t) == order[tx[t].on] # "none" /\ tx[t].cart = cart[tx[t].on]

OwnRows(t) == {OrderRow(tx[t].on), PaymentRow(tx[t].on)}

\* A cancellation past its claim holds the order, which is still pending.
CancelOK(t) ==
  /\ OnOrder(t) /\ tx[t].arg \in Reasons
  /\ locks[t] \subseteq OwnRows(t) \cup {ItemRow(i) : i \in Items}
  /\ tx[t].pc # 1 => OrderRow(tx[t].on) \in locks[t] /\ order[tx[t].on] = "pending_payment"
  /\ tx[t].pc \in {1, 2} =>
       tx[t].todo # <<>> /\ HeldItems(t) \cup Left(t) = ItemsOf(tx[t].cart)
  /\ tx[t].pc \in {3, 4} => HeldItems(t) = ItemsOf(tx[t].cart)
  /\ tx[t].pc = 4 => PaymentRow(tx[t].on) \in locks[t]

\* Past its claim, a confirmation or a refund holds the payment; and it holds the
\* order exactly when its second update found the order as it asks for.
ClaimedOK(t, from, to) ==
  /\ OnOrder(t) /\ locks[t] \subseteq OwnRows(t)
  /\ tx[t].pc = 1 => locks[t] = {}
  /\ tx[t].pc # 1 => PaymentRow(tx[t].on) \in locks[t] /\ payment[tx[t].on] \in from
  /\ tx[t].pc = 2 => OrderRow(tx[t].on) \notin locks[t]
  /\ tx[t].pc = 3 => IF OrderRow(tx[t].on) \in locks[t]
                       THEN order[tx[t].on] \in to
                       ELSE order[tx[t].on] = "cancelled"

TxOK(t) ==
  /\ ~Running(t) => locks[t] = {}
  /\ tx[t].kind = "create" => CreateOK(t)
  /\ tx[t].kind = "cancel" => CancelOK(t)
  /\ tx[t].kind = "markPaid" => ClaimedOK(t, Payable, {"pending_payment"})
  /\ tx[t].kind = "refund" => ClaimedOK(t, {"succeeded", "refund_pending"}, Refundable)

TxInv ==
  /\ RepoTypeOK /\ OrderMatchesPayment
  /\ TxTypeOK /\ Exclusive /\ CartsKept
  /\ \A t \in Txs : TxOK(t)

-----------------------------------------------------------------------------
(* Rows, scripts and the row the next statement is after.                  *)

LEMMA RowsDiffer ==
  /\ \A i, j \in Items : ItemRow(i) = ItemRow(j) => i = j
  /\ \A o, q \in Orders : OrderRow(o) = OrderRow(q) => o = q
  /\ \A o, q \in Orders : PaymentRow(o) = PaymentRow(q) => o = q
  /\ \A i \in Items, o \in Orders : ItemRow(i) # OrderRow(o) /\ ItemRow(i) # PaymentRow(o)
  /\ \A o, q \in Orders : OrderRow(o) # PaymentRow(q)
  /\ \A i \in Items : ItemRow(i) \in Rows /\ ItemRow(i)[2] = i
  /\ \A o \in Orders : OrderRow(o) \in Rows /\ PaymentRow(o) \in Rows
BY DEF ItemRow, OrderRow, PaymentRow, Rows

\* Where the script of each kind of transaction stands.
LEMMA AtCases ==
  ASSUME TxTypeOK, NEW t \in Txs, Running(t)
  PROVE  /\ tx[t] \in Transaction
         /\ tx[t].kind = "create" =>
              \/ tx[t].pc = 1 /\ At(t) = "item"
              \/ tx[t].pc = 2 /\ At(t) = "commit"
         /\ tx[t].kind = "cancel" =>
              \/ tx[t].pc = 1 /\ At(t) = "order"
              \/ tx[t].pc = 2 /\ At(t) = "item"
              \/ tx[t].pc = 3 /\ At(t) = "payment"
              \/ tx[t].pc = 4 /\ At(t) = "commit"
         /\ tx[t].kind \in {"markPaid", "refund"} =>
              \/ tx[t].pc = 1 /\ At(t) = "payment"
              \/ tx[t].pc = 2 /\ At(t) = "order"
              \/ tx[t].pc = 3 /\ At(t) = "commit"
<1>1. tx[t] \in Transaction
  BY DEF TxTypeOK, Running, NoTx
<1>2. tx[t].kind \in {"create", "cancel", "markPaid", "refund"} /\ tx[t].pc \in 1..4
  BY <1>1 DEF Transaction
<1>3. tx[t].pc \in DOMAIN Script[tx[t].kind]
  BY DEF TxTypeOK
<1>. QED BY <1>1, <1>2, <1>3 DEF At, Script

\* What Wants says, one kind of statement at a time.
LEMMA WantsCases ==
  ASSUME TxTypeOK, NEW t \in Txs, NEW r \in Wants(t)
  PROVE  /\ Running(t) /\ r \in Rows
         /\ \/ /\ At(t) = "item" /\ r = ItemRow(Head(tx[t].todo))
               /\ tx[t].kind = "create" => stock[r[2]] >= tx[t].cart[r[2]]
            \/ /\ At(t) = "order" /\ r = OrderRow(tx[t].on)
               /\ order[tx[t].on] \in OrderFrom[tx[t].kind]
            \/ /\ At(t) = "payment" /\ r = PaymentRow(tx[t].on)
               /\ payment[tx[t].on] \in PaymentFrom[tx[t].kind]
BY DEF Wants

\* The first item a statement is to reach.
LEMMA HeadLeft ==
  ASSUME NEW t \in Txs, tx[t].todo \in Seq(Items), tx[t].todo # <<>>
  PROVE  Head(tx[t].todo) \in Items /\ Head(tx[t].todo) \in Left(t)
BY DEF Left, Range

-----------------------------------------------------------------------------
(* Deadlocks.                                                              *)

LEMMA LeastNat ==
  ASSUME NEW W \in SUBSET Nat, W # {}
  PROVE  \E n \in W : \A m \in W : n <= m
<1>. DEFINE LT == OpToRel(<, Nat)
<1>1. IsWellFoundedOn(LT, Nat)
  BY NatLessThanWellFounded
<1>2. \A n, m \in Nat : n < m => <<n, m>> \in LT
  BY DEF OpToRel
<1>. HIDE DEF LT
<1>3. \E n \in W : \A m \in W : ~ (<<m, n>> \in LT)
  <2>1. W \subseteq Nat
    OBVIOUS
  <2>. QED BY <1>1, <2>1, WFMin, Zenon
<1>4. PICK n \in W : \A m \in W : ~ (<<m, n>> \in LT)
  BY <1>3
<1>5. ASSUME NEW m \in W
      PROVE  n <= m
  <2>1. n \in Nat /\ m \in Nat /\ ~ (m < n)
    BY <1>2, <1>4
  <2>. QED BY <2>1
<1>. QED BY <1>5

\* A transaction that waits is not about to commit.
LEMMA WaitingAt ==
  ASSUME TxInv, NEW t \in Txs, NEW u \in Txs, Waits(t, u)
  PROVE  /\ Running(t) /\ At(t) # "commit"
         /\ tx[t] \in Transaction
         /\ locks[u] # {}
<1>1. PICK r \in Wants(t) : r \in locks[u]
  BY DEF Waits
<1>2. Running(t) /\ At(t) # "commit"
  BY <1>1, WantsCases DEF TxInv
<1>. QED BY <1>1, <1>2, AtCases DEF TxInv

\* Between transactions that all wait, and none of which cancels, an item is
\* held by a purchase and a payment by a transaction after its order.
LEMMA HeldByWaiting ==
  ASSUME TxInv, NEW t \in Txs, NEW u \in Txs, NEW v \in Txs,
         Waits(t, u), Waits(u, v), tx[u].kind # "cancel", NEW r \in locks[u]
  PROVE  \/ /\ tx[u].kind = "create" /\ tx[u].pc = 1
            /\ \E i \in HeldItems(u) : r = ItemRow(i)
         \/ /\ tx[u].kind # "create" /\ At(u) = "order"
            /\ r = PaymentRow(tx[u].on)
<1>1. Running(u) /\ At(u) # "commit" /\ tx[u] \in Transaction /\ TxOK(u)
  BY WaitingAt DEF TxInv
<1>2. tx[u].kind \in {"create", "markPaid", "refund"} /\ tx[u].on \in Orders
  BY <1>1 DEF Transaction
<1>3. TxTypeOK
  BY DEF TxInv
<1>4. CASE tx[u].kind = "create"
  <2>1. tx[u].pc = 1
    BY <1>1, <1>3, <1>4, AtCases
  <2>2. PICK i \in Items : r = ItemRow(i)
    BY <1>1, <1>4 DEF TxOK, CreateOK
  <2>. QED BY <1>4, <2>1, <2>2 DEF HeldItems
<1>5. CASE tx[u].kind \in {"markPaid", "refund"}
  <2>1. \E from, to : ClaimedOK(u, from, to)
    BY <1>1, <1>5 DEF TxOK
  <2>2. tx[u].pc # 1
    BY <2>1 DEF ClaimedOK
  <2>3. tx[u].pc = 2 /\ At(u) = "order"
    BY <1>1, <1>3, <1>5, <2>2, AtCases
  <2>4. r \in OwnRows(u) /\ r # OrderRow(tx[u].on)
    BY <2>1, <2>3 DEF ClaimedOK
  <2>. QED BY <1>5, <2>3, <2>4 DEF OwnRows
<1>. QED BY <1>2, <1>4, <1>5

LEMMA NoCircleOfPurchases ==
  ASSUME TxInv, NEW S \in SUBSET Txs, S # {}, Cycle(S),
         \A t \in S : tx[t].kind = "create"
  PROVE  FALSE
<1>1. \A t \in S : \E u \in S : Waits(t, u)
  BY DEF Cycle
<1>2. \A t \in S : \E u \in S : Waits(u, t)
  BY DEF Cycle
<1>. DEFINE next(t) == Head(tx[t].todo)
<1>3. ASSUME NEW t \in S
      PROVE  /\ tx[t].pc = 1 /\ Running(t) /\ At(t) = "item"
             /\ next(t) \in Items /\ next(t) \in Left(t)
             /\ \A i \in HeldItems(t) : ItemId[i] < ItemId[next(t)]
  <2>1. Running(t) /\ At(t) # "commit" /\ tx[t] \in Transaction /\ CreateOK(t)
    BY <1>1, WaitingAt DEF TxInv, TxOK
  <2>2. tx[t].pc = 1 /\ At(t) = "item"
    BY <2>1, AtCases DEF TxInv
  <2>3. tx[t].todo \in Seq(Items)
    BY <2>1 DEF Transaction
  <2>4. next(t) \in Items /\ next(t) \in Left(t)
    BY <2>1, <2>2, <2>3, HeadLeft DEF CreateOK
  <2>. QED BY <2>1, <2>2, <2>4 DEF CreateOK
<1>4. ASSUME NEW t \in S, NEW u \in S, Waits(t, u)
      PROVE  next(t) \in HeldItems(u)
  <2>1. PICK r \in Wants(t) : r \in locks[u]
    BY <1>4 DEF Waits
  <2>2. r = ItemRow(next(t))
    BY <1>3, <2>1, WantsCases DEF TxInv
  <2>. QED BY <1>3, <2>1, <2>2 DEF HeldItems
<1>. HIDE DEF next
<1>. DEFINE W == {ItemId[next(t)] : t \in S}
<1>5. W \in SUBSET Nat /\ W # {}
  BY <1>3, ItemIdAssumption
<1>6. PICK n \in W : \A m \in W : n <= m
  BY <1>5, LeastNat
<1>7. PICK t \in S : n = ItemId[next(t)]
  BY <1>6
<1>8. PICK u \in S : Waits(u, t)
  BY <1>2
<1>9. ItemId[next(u)] < n /\ ItemId[next(u)] \in W
  <2>1. next(u) \in HeldItems(t)
    BY <1>4, <1>8
  <2>2. ItemId[next(u)] < ItemId[next(t)]
    BY <1>3, <2>1
  <2>3. ItemId[next(u)] \in W
    OBVIOUS
  <2>. QED BY <1>7, <2>2, <2>3
<1>. HIDE DEF W
<1>10. n <= ItemId[next(u)] /\ n \in Nat /\ ItemId[next(u)] \in Nat
  BY <1>5, <1>6, <1>9
<1>. QED BY <1>9, <1>10

LEMMA CircleHasCancellation == TxInv => DeadlockNeedsCancellation
<1>. SUFFICES ASSUME TxInv, NEW S \in (SUBSET Txs) \ {{}}, Cycle(S),
                     \A t \in S : tx[t].kind # "cancel"
              PROVE  FALSE
  BY DEF DeadlockNeedsCancellation
<1>1. \A t \in S : \E u, v \in S : Waits(t, u) /\ Waits(v, t)
  BY DEF Cycle
<1>2. ASSUME NEW u \in S, tx[u].kind # "create"
      PROVE  FALSE
  <2>1. PICK t \in S, v \in S : Waits(t, u) /\ Waits(u, v)
    BY <1>1
  <2>2. PICK r \in Wants(u) : r \in locks[v]
    BY <2>1 DEF Waits
  <2>3. PICK w \in S : Waits(v, w)
    BY <1>1
  <2>4. PICK s \in locks[u] : TRUE
    BY <2>1, WaitingAt
  <2>5. At(u) = "order" /\ tx[u] \in Transaction
    BY <1>2, <2>1, <2>4, HeldByWaiting, WaitingAt
  <2>6. r = OrderRow(tx[u].on) /\ tx[u].on \in Orders
    BY <2>2, <2>5, WantsCases DEF TxInv, Transaction
  <2>7. \/ \E i \in Items : r = ItemRow(i)
        \/ r = PaymentRow(tx[v].on) /\ tx[v].on \in Orders
    <3>1. tx[v] \in Transaction
      BY <2>3, WaitingAt
    <3>. QED BY <2>1, <2>2, <2>3, <3>1, HeldByWaiting DEF HeldItems, Transaction
  <2>. QED BY <2>6, <2>7, RowsDiffer
<1>. QED BY <1>2, NoCircleOfPurchases

-----------------------------------------------------------------------------
(* Sequences of items.                                                     *)

LEMMA SplitTodo ==
  ASSUME NEW todo \in Seq(Items), todo # <<>>
  PROVE  /\ Head(todo) \in Items
         /\ Len(todo) <= 1 => Range(todo) = {Head(todo)}
         /\ Len(todo) > 1 =>
              /\ Tail(todo) \in Seq(Items) /\ Tail(todo) # <<>>
              /\ Range(todo) = {Head(todo)} \cup Range(Tail(todo))
              /\ Ascending(todo) =>
                   /\ Ascending(Tail(todo))
                   /\ \A j \in Range(Tail(todo)) : ItemId[Head(todo)] < ItemId[j]
<1>1. Len(todo) \in Nat \ {0} /\ DOMAIN todo = 1..Len(todo) /\ Head(todo) = todo[1]
  OBVIOUS
<1>2. Len(todo) <= 1 => Range(todo) = {Head(todo)}
  BY <1>1 DEF Range
<1>3. ASSUME Len(todo) > 1
      PROVE  /\ Tail(todo) \in Seq(Items) /\ Tail(todo) # <<>>
             /\ DOMAIN Tail(todo) = 1..(Len(todo) - 1)
             /\ \A k \in 1..(Len(todo) - 1) : Tail(todo)[k] = todo[k + 1]
  <2>1. Tail(todo) \in Seq(Items) /\ Len(Tail(todo)) = Len(todo) - 1
    BY <1>3
  <2>2. Len(Tail(todo)) # 0
    <3>1. \A n \in Nat : n > 1 => n - 1 # 0
      OBVIOUS
    <3>2. Len(todo) \in Nat
      BY <1>1
    <3>. QED BY <1>3, <2>1, <3>1, <3>2, Zenon
  <2>3. Tail(todo) # <<>>
    <3>1. Len(<<>>) = 0
      OBVIOUS
    <3>. QED BY <2>2, <3>1, Zenon
  <2>4. DOMAIN Tail(todo) = 1..(Len(todo) - 1)
    BY <2>1
  <2>5. \A k \in 1..(Len(todo) - 1) : Tail(todo)[k] = todo[k + 1]
    BY <1>1, <1>3
  <2>. QED BY <2>1, <2>3, <2>4, <2>5
<1>4. ASSUME Len(todo) > 1
      PROVE  Range(todo) = {Head(todo)} \cup Range(Tail(todo))
  <2>1. \A k \in 2..Len(todo) : k - 1 \in 1..(Len(todo) - 1) /\ (k - 1) + 1 = k
    BY <1>1
  <2>2. ASSUME NEW k \in 2..Len(todo)
        PROVE  todo[k] = Tail(todo)[k - 1]
    <3>1. Tail(todo)[k - 1] = todo[(k - 1) + 1]
      BY <1>3, <1>4, <2>1
    <3>. QED BY <2>1, <3>1
  <2>3. ASSUME NEW k \in 1..Len(todo)
        PROVE  todo[k] \in {Head(todo)} \cup Range(Tail(todo))
    <3>1. CASE k = 1
      BY <1>1, <3>1
    <3>2. CASE k # 1
      <4>1. k \in 2..Len(todo)
        BY <3>2
      <4>2. todo[k] = Tail(todo)[k - 1] /\ k - 1 \in DOMAIN Tail(todo)
        BY <1>3, <1>4, <2>1, <2>2, <4>1
      <4>. QED BY <4>2 DEF Range
    <3>. QED BY <3>1, <3>2
  <2>4. Range(Tail(todo)) \subseteq Range(todo)
    BY <1>1, <1>3, <1>4 DEF Range
  <2>5. Head(todo) \in Range(todo)
    BY <1>1 DEF Range
  <2>. QED BY <1>1, <2>3, <2>4, <2>5 DEF Range
<1>5. ASSUME Len(todo) > 1, Ascending(todo)
      PROVE  /\ Ascending(Tail(todo))
             /\ \A j \in Range(Tail(todo)) : ItemId[Head(todo)] < ItemId[j]
  <2>1. \A a, b \in 1..(Len(todo) - 1) :
          a < b => ItemId[Tail(todo)[a]] < ItemId[Tail(todo)[b]]
    BY <1>1, <1>3, <1>5 DEF Ascending
  <2>2. \A k \in 1..(Len(todo) - 1) : ItemId[todo[1]] < ItemId[todo[k + 1]]
    BY <1>1, <1>5 DEF Ascending
  <2>3. \A k \in 1..(Len(todo) - 1) : ItemId[Head(todo)] < ItemId[Tail(todo)[k]]
    BY <1>1, <1>3, <1>5, <2>2
  <2>4. Ascending(Tail(todo))
    BY <1>3, <1>5, <2>1 DEF Ascending
  <2>5. \A j \in Range(Tail(todo)) : ItemId[Head(todo)] < ItemId[j]
    BY <1>3, <1>5, <2>3 DEF Range
  <2>. QED BY <2>4, <2>5
<1>. QED BY <1>1, <1>2, <1>3, <1>4, <1>5

\* The sequences a cancellation and a purchase choose from reach every item.
LEMMA OrdersOfItems ==
  ASSUME NEW S \in SUBSET Items, S # {}, NEW todo \in SetToSeqs(S)
  PROVE  todo \in Seq(Items) /\ todo # <<>> /\ Range(todo) = S
<1>1. IsFiniteSet(S) /\ Cardinality(S) \in Nat /\ Cardinality(S) # 0
  BY ItemIdAssumption, FS_Subset, FS_CardinalityType, FS_EmptySet
<1>. DEFINE n == Cardinality(S)
<1>2. /\ todo \in [1..n -> S]
      /\ \A a, b \in 1..n : a # b => todo[a] # todo[b]
  BY DEF SetToSeqs
<1>3. IsFiniteSet(1..n) /\ Cardinality(1..n) = n
  BY <1>1, FS_Interval
<1>. HIDE DEF n
<1>4. todo \in Injection(1..n, S)
  BY <1>2 DEF Injection, IsInjective
<1>5. n = Cardinality(S) /\ n \in Nat /\ n # 0
  BY <1>1 DEF n
<1>6. todo \in Surjection(1..n, S)
  BY <1>1, <1>3, <1>4, <1>5, FS_Injection
<1>7. Range(todo) = S
  BY <1>2, <1>6 DEF Surjection, Range
<1>. QED BY <1>2, <1>5, <1>7

-----------------------------------------------------------------------------
(* What a step leaves alone.                                               *)

\* A step of another transaction does not touch what u knows.
Quiet(u) ==
  /\ tx'[u] = tx[u] /\ locks'[u] = locks[u]
  /\ \A o \in Orders :
       /\ OrderRow(o) \in locks[u] => order'[o] = order[o]
       /\ PaymentRow(o) \in locks[u] => payment'[o] = payment[o]
       /\ order[o] # "none" => order'[o] # "none" /\ cart'[o] = cart[o]
       /\ order[o] = "cancelled" => order'[o] = "cancelled"
  /\ \A i \in HeldItems(u) : stock'[i] = stock[i]
  /\ tx[u].kind = "create" =>
       /\ order'[tx[u].on] = order[tx[u].on]
       /\ \A v \in Txs \ {u} : tx'[v].kind # "none" => tx'[v].on # tx[u].on

LEMMA QuietKeepsTx ==
  ASSUME TxTypeOK, NEW u \in Txs, TxOK(u), Quiet(u)
  PROVE  TxOK(u)'
<1>1. tx'[u] = tx[u] /\ locks'[u] = locks[u]
  BY DEF Quiet
<1>2. /\ HeldItems(u)' = HeldItems(u) /\ Left(u)' = Left(u)
      /\ OwnRows(u)' = OwnRows(u) /\ Running(u)' = Running(u)
  BY <1>1 DEF HeldItems, Left, OwnRows, Running
<1>3. CASE ~Running(u)
  BY <1>1, <1>3 DEF TxOK, Running
<1>4. CASE Running(u)
  <2>1. tx[u] \in Transaction
    BY <1>4, AtCases
  <2>2. tx[u].on \in Orders /\ tx[u].kind \in {"create", "cancel", "markPaid", "refund"}
    BY <2>1 DEF Transaction
  <2>3. CASE tx[u].kind = "create"
    <3>1. CreateOK(u)
      BY <2>3 DEF TxOK
    <3>2. CreateOK(u)'
      BY <1>1, <1>2, <2>2, <2>3, <3>1 DEF CreateOK, Quiet, Running
    <3>. QED BY <1>1, <1>2, <1>4, <2>3, <3>2 DEF TxOK
  <2>4. ASSUME OnOrder(u)
        PROVE  OnOrder(u)'
    BY <1>1, <2>2, <2>4 DEF OnOrder, Quiet
  <2>5. CASE tx[u].kind = "cancel"
    <3>1. CancelOK(u)
      BY <2>5 DEF TxOK
    <3>2. CancelOK(u)'
      BY <1>1, <1>2, <2>2, <2>4, <3>1 DEF CancelOK, Quiet
    <3>. QED BY <1>1, <1>2, <1>4, <2>5, <3>2 DEF TxOK
  <2>6. ASSUME NEW from, NEW to, ClaimedOK(u, from, to)
        PROVE  ClaimedOK(u, from, to)'
    BY <1>1, <1>2, <2>2, <2>4, <2>6 DEF ClaimedOK, Quiet
  <2>7. CASE tx[u].kind = "markPaid"
    BY <1>1, <1>2, <1>4, <2>6, <2>7 DEF TxOK
  <2>8. CASE tx[u].kind = "refund"
    BY <1>1, <1>2, <1>4, <2>6, <2>8 DEF TxOK
  <2>. QED BY <2>2, <2>3, <2>5, <2>7, <2>8
<1>. QED BY <1>3, <1>4

Admissible(x) ==
  /\ x \in Transaction \cup {NoTx}
  /\ x.kind # "none" => x.pc \in DOMAIN Script[x.kind]

\* The step of one transaction changes its own entry and its own locks.
OwnStep(t, x, L) ==
  /\ tx' = [tx EXCEPT ![t] = x]
  /\ locks' = [locks EXCEPT ![t] = L]
  /\ lostPaid' \subseteq Orders

OthersAlone(t) == \A u \in Txs \ {t} : tx'[u] = tx[u] /\ locks'[u] = locks[u]

LEMMA OwnStepEffect ==
  ASSUME TxTypeOK, NEW t \in Txs, NEW x, NEW L, Admissible(x), L \subseteq Rows,
         OwnStep(t, x, L)
  PROVE  TxTypeOK' /\ tx'[t] = x /\ locks'[t] = L /\ OthersAlone(t)
<1>. USE DEF OwnStep, OthersAlone, Admissible
<1>1. tx'[t] = x /\ \A u \in Txs \ {t} : tx'[u] = tx[u]
  BY DEF TxTypeOK
<1>2. locks'[t] = L /\ \A u \in Txs \ {t} : locks'[u] = locks[u]
  BY DEF TxTypeOK
<1>3. tx' \in [Txs -> Transaction \cup {NoTx}] /\ locks' \in [Txs -> SUBSET Rows]
  BY DEF TxTypeOK
<1>4. \A u \in Txs : tx'[u].kind # "none" => tx'[u].pc \in DOMAIN Script[tx'[u].kind]
  BY <1>1 DEF TxTypeOK, Running
<1>. QED BY <1>1, <1>2, <1>3, <1>4 DEF TxTypeOK, Running

\* A step that leaves the tables alone, and starts no second creation.
LEMMA TablesAlone ==
  ASSUME TxInv, NEW t \in Txs, UNCHANGED repoVars,
         OthersAlone(t),
         \/ tx'[t].kind = "none"
         \/ Running(t) /\ tx'[t].on = tx[t].on
         \/ \A u \in Txs : tx[u].kind = "create" => tx[u].on # tx'[t].on,
         TxTypeOK', TxOK(t)',
         \A u \in Txs \ {t} : locks'[t] \cap locks[u] = {}
  PROVE  TxInv'
<1>. USE DEF OthersAlone
<1>1. ASSUME NEW u \in Txs \ {t}
      PROVE  Quiet(u)
  <2>1. TxOK(u) /\ tx'[u] = tx[u] /\ locks'[u] = locks[u]
    BY DEF TxInv
  <2>2. ASSUME tx[u].kind = "create", NEW v \in Txs \ {u}, tx'[v].kind # "none"
        PROVE  tx'[v].on # tx[u].on
    <3>1. \A w \in Txs \ {u} : tx[w].kind # "none" => tx[w].on # tx[u].on
      BY <2>1, <2>2 DEF TxOK, CreateOK, Running
    <3>. QED BY <2>2, <3>1 DEF Running
  <2>. QED BY <2>1, <2>2 DEF Quiet, repoVars
<1>2. \A u \in Txs \ {t} : TxOK(u)'
  BY <1>1, QuietKeepsTx DEF TxInv
<1>3. Exclusive'
  BY DEF TxInv, Exclusive
<1>4. RepoTypeOK' /\ OrderMatchesPayment' /\ CartsKept'
  BY DEF TxInv, repoVars, RepoTypeOK, OrderMatchesPayment, CartsKept
<1>. QED BY <1>2, <1>3, <1>4 DEF TxInv

\* A transaction that ends without a commit leaves nothing behind.
LEMMA EndKeeps ==
  ASSUME TxInv, NEW t \in Txs, End(t), UNCHANGED repoVars, lostPaid' \subseteq Orders
  PROVE  TxInv'
<1>1. NoTx.kind = "none"
  BY DEF NoTx
<1>2. TxTypeOK' /\ tx'[t] = NoTx /\ locks'[t] = {} /\ OthersAlone(t)
  <2>1. TxTypeOK /\ Admissible(NoTx) /\ {} \subseteq Rows
    BY <1>1 DEF TxInv, Admissible
  <2>2. OwnStep(t, NoTx, {})
    BY DEF End, OwnStep
  <2>. QED BY <2>1, <2>2, OwnStepEffect
<1>3. TxOK(t)'
  BY <1>1, <1>2 DEF TxOK, Running
<1>4. \A u \in Txs \ {t} : locks'[t] \cap locks[u] = {}
  BY <1>2
<1>. QED BY <1>1, <1>2, <1>3, <1>4, TablesAlone

-----------------------------------------------------------------------------
(* Beginnings and statements.                                              *)

\* What a beginning puts in place.
LEMMA BeginKeeps ==
  ASSUME TxInv, NEW t \in Txs, NEW k \in {"create", "cancel", "markPaid", "refund"},
         NEW o \in Orders, NEW c \in Cart, NEW todo \in Seq(Items),
         NEW arg \in Provider \cup Reasons \cup {"none"},
         Begin(t, k, o, c, todo, arg),
         k = "create" =>
           /\ arg \in Provider /\ c # EmptyCart /\ order[o] = "none"
           /\ \A u \in Txs : Running(u) => tx[u].on # o
           /\ todo # <<>> /\ Ascending(todo) /\ Range(todo) = ItemsOf(c),
         k # "create" => order[o] # "none" /\ c = cart[o],
         k = "cancel" => arg \in Reasons /\ todo # <<>> /\ Range(todo) = ItemsOf(c)
  PROVE  TxInv'
<1>. DEFINE x == [kind |-> k, on |-> o, pc |-> 1, cart |-> c, todo |-> todo, arg |-> arg]
<1>1. x \in Transaction /\ x.pc \in DOMAIN Script[x.kind]
  BY DEF Transaction, Script
<1>2. ~Running(t) /\ locks[t] = {} /\ UNCHANGED <<repoVars, locks, lostPaid>>
  BY DEF Begin, TxInv, TxOK
<1>3. tx' = [tx EXCEPT ![t] = x] /\ locks' = [locks EXCEPT ![t] = {}]
  BY <1>2 DEF Begin, TxInv, TxTypeOK
<1>4. /\ x.kind = k /\ x.on = o /\ x.pc = 1 /\ x.cart = c /\ x.todo = todo /\ x.arg = arg
  OBVIOUS
<1>. HIDE DEF x
<1>5. TxTypeOK' /\ tx'[t] = x /\ locks'[t] = {} /\ OthersAlone(t)
  <2>1. TxTypeOK /\ Admissible(x) /\ {} \subseteq Rows
    BY <1>1 DEF TxInv, Admissible
  <2>2. OwnStep(t, x, {})
    BY <1>2, <1>3 DEF OwnStep, TxInv, TxTypeOK
  <2>. QED BY <2>1, <2>2, OwnStepEffect
<1>6. /\ tx'[t].kind = k /\ tx'[t].on = o /\ tx'[t].pc = 1
      /\ tx'[t].cart = c /\ tx'[t].todo = todo /\ tx'[t].arg = arg
  BY <1>4, <1>5
<1>14. HeldItems(t)' = {} /\ Left(t)' = Range(todo) /\ locks'[t] = {}
  BY <1>5, <1>6 DEF HeldItems, Left
<1>7. order' = order /\ cart' = cart
  BY <1>2 DEF repoVars
<1>8. k = "create" => CreateOK(t)'
  <2>. SUFFICES ASSUME k = "create" PROVE CreateOK(t)'
    OBVIOUS
  <2>1. \A u \in Txs \ {t} : Running(u)' => tx'[u].on # o
    BY <1>5 DEF Running, OthersAlone
  <2>. QED BY <1>6, <1>14, <1>7, <2>1 DEF CreateOK
<1>9. k # "create" => OnOrder(t)'
  BY <1>6, <1>7 DEF OnOrder
<1>10. k = "cancel" => CancelOK(t)'
  BY <1>6, <1>14, <1>9 DEF CancelOK
<1>11. ASSUME NEW from, NEW to, k # "create"
       PROVE  ClaimedOK(t, from, to)'
  BY <1>6, <1>9, <1>11, <1>14 DEF ClaimedOK
<1>12. TxOK(t)'
  BY <1>6, <1>8, <1>10, <1>11 DEF TxOK, Running
<1>13. \A u \in Txs : tx[u].kind = "create" => tx[u].on # tx'[t].on
  <2>. SUFFICES ASSUME NEW u \in Txs, tx[u].kind = "create" PROVE tx[u].on # o
    BY <1>4, <1>5
  <2>1. Running(u) /\ order[tx[u].on] = "none"
    BY DEF Running, TxInv, TxOK, CreateOK
  <2>. QED BY <2>1
<1>. QED BY <1>2, <1>5, <1>12, <1>13, TablesAlone

LEMMA BeginningsKeep ==
  ASSUME TxInv, NEW t \in Txs, NEW o \in Orders,
         \/ \E c \in Cart, p \in Provider : BeginCreate(t, o, c, p)
         \/ \E reason \in Reasons : BeginCancel(t, o, reason)
         \/ BeginMarkPaid(t, o)
         \/ BeginRefund(t, o)
  PROVE  TxInv'
<1>1. \A c \in Cart : c # EmptyCart => ItemsOf(c) \in SUBSET Items /\ ItemsOf(c) # {}
  <2>. SUFFICES ASSUME NEW c \in Cart, ItemsOf(c) = {} PROVE c = EmptyCart
    BY DEF ItemsOf
  <2>1. \A i \in Items : c[i] \in Nat /\ c[i] = 0
    BY QtyAssumption DEF ItemsOf, Cart
  <2>. QED BY <2>1 DEF Cart, EmptyCart
<1>2. cart[o] \in Cart /\ (order[o] # "none" => cart[o] # EmptyCart)
  BY DEF TxInv, RepoTypeOK, CartsKept
<1>3. ASSUME NEW c \in Cart, NEW p \in Provider, BeginCreate(t, o, c, p)
      PROVE  TxInv'
  <2>1. PICK todo \in PurchaseOrders(c) : Begin(t, "create", o, c, todo, p)
    BY <1>3 DEF BeginCreate
  <2>2. c # EmptyCart /\ order[o] = "none" /\ \A u \in Txs : Running(u) => tx[u].on # o
    BY <1>3 DEF BeginCreate
  <2>3. todo \in SetToSeqs(ItemsOf(c)) /\ Ascending(todo)
    BY DEF PurchaseOrders
  <2>4. todo \in Seq(Items) /\ todo # <<>> /\ Range(todo) = ItemsOf(c)
    BY <1>1, <2>2, <2>3, OrdersOfItems
  <2>. QED BY <2>1, <2>2, <2>3, <2>4, BeginKeeps
<1>4. ASSUME NEW reason \in Reasons, BeginCancel(t, o, reason)
      PROVE  TxInv'
  <2>1. PICK todo \in RestockOrders(cart[o]) : Begin(t, "cancel", o, cart[o], todo, reason)
    BY <1>4 DEF BeginCancel
  <2>2. order[o] # "none"
    BY <1>4 DEF BeginCancel
  <2>3. todo \in Seq(Items) /\ todo # <<>> /\ Range(todo) = ItemsOf(cart[o])
    BY <1>1, <1>2, <2>2, OrdersOfItems DEF RestockOrders
  <2>. QED BY <1>2, <2>1, <2>2, <2>3, BeginKeeps
<1>5. CASE BeginMarkPaid(t, o)
  <2>1. <<>> \in Seq(Items) /\ "none" \in Provider \cup Reasons \cup {"none"}
    OBVIOUS
  <2>. QED BY <1>2, <1>5, <2>1, BeginKeeps DEF BeginMarkPaid
<1>6. CASE BeginRefund(t, o)
  <2>1. <<>> \in Seq(Items) /\ "none" \in Provider \cup Reasons \cup {"none"}
    OBVIOUS
  <2>. QED BY <1>2, <1>6, <2>1, BeginKeeps DEF BeginRefund
<1>. QED BY <1>3, <1>4, <1>5, <1>6

\* What Advance leaves in the entry of a transaction.
LEMMA AdvanceEffect ==
  ASSUME TxInv, NEW t \in Txs, Running(t), At(t) # "commit", Advance(t)
  PROVE  \E x \in Transaction :
           /\ tx' = [tx EXCEPT ![t] = x] /\ Admissible(x)
           /\ x.kind = tx[t].kind /\ x.on = tx[t].on
           /\ x.cart = tx[t].cart /\ x.arg = tx[t].arg
           /\ IF At(t) = "item" /\ Len(tx[t].todo) > 1
                THEN x.todo = Tail(tx[t].todo) /\ x.pc = tx[t].pc
                ELSE x.todo = tx[t].todo /\ x.pc = tx[t].pc + 1
<1>1. tx[t] \in Transaction /\ TxTypeOK
  BY AtCases DEF TxInv
<1>2. /\ tx[t].kind \in {"create", "cancel", "markPaid", "refund"}
      /\ tx[t].pc \in 1..4 /\ tx[t].todo \in Seq(Items)
  BY <1>1 DEF Transaction
<1>3. CASE At(t) = "item" /\ Len(tx[t].todo) > 1
  <2>. DEFINE x == [tx[t] EXCEPT !.todo = Tail(@)]
  <2>1. Tail(tx[t].todo) \in Seq(Items)
    BY <1>2, <1>3
  <2>2. x \in Transaction /\ x.kind = tx[t].kind /\ x.pc = tx[t].pc
    BY <1>1, <2>1 DEF Transaction
  <2>3. Admissible(x)
    BY <1>1, <2>2 DEF Admissible, TxTypeOK
  <2>4. tx' = [tx EXCEPT ![t] = x]
    BY <1>3 DEF Advance, Advanced
  <2>5. /\ x.kind = tx[t].kind /\ x.on = tx[t].on
        /\ x.cart = tx[t].cart /\ x.arg = tx[t].arg
        /\ x.todo = Tail(tx[t].todo) /\ x.pc = tx[t].pc
    BY <1>1 DEF Transaction
  <2>. HIDE DEF x
  <2>. QED BY <1>3, <2>2, <2>3, <2>4, <2>5
<1>4. CASE ~(At(t) = "item" /\ Len(tx[t].todo) > 1)
  <2>. DEFINE x == [tx[t] EXCEPT !.pc = @ + 1]
  <2>1. tx[t].pc + 1 \in DOMAIN Script[tx[t].kind] /\ tx[t].pc + 1 \in 1..4
    <3>1. CASE tx[t].kind = "create"
      BY <1>1, <3>1, AtCases DEF Script
    <3>2. CASE tx[t].kind = "cancel"
      BY <1>1, <3>2, AtCases DEF Script
    <3>3. CASE tx[t].kind = "markPaid"
      BY <1>1, <3>3, AtCases DEF Script
    <3>4. CASE tx[t].kind = "refund"
      BY <1>1, <3>4, AtCases DEF Script
    <3>. QED BY <1>2, <3>1, <3>2, <3>3, <3>4
  <2>2. x \in Transaction /\ x.kind = tx[t].kind /\ x.pc = tx[t].pc + 1
    BY <1>1, <2>1 DEF Transaction
  <2>3. Admissible(x)
    BY <2>1, <2>2 DEF Admissible
  <2>4. tx' = [tx EXCEPT ![t] = x]
    BY <1>4 DEF Advance, Advanced
  <2>5. /\ x.kind = tx[t].kind /\ x.on = tx[t].on
        /\ x.cart = tx[t].cart /\ x.arg = tx[t].arg
        /\ x.todo = tx[t].todo /\ x.pc = tx[t].pc + 1
    BY <1>1 DEF Transaction
  <2>. HIDE DEF x
  <2>. QED BY <1>4, <2>2, <2>3, <2>4, <2>5
<1>. QED BY <1>3, <1>4

\* A statement that changes no table but locks the row it was after.
LEMMA WriteOK ==
  ASSUME TxInv, NEW t \in Txs, Running(t), NEW r \in Wants(t), Advance(t),
         locks'[t] = locks[t] \cup {r}, UNCHANGED repoVars, OthersAlone(t)
  PROVE  TxOK(t)'
<1>. DEFINE o == tx[t].on
            h == Head(tx[t].todo)
<1>1. tx[t] \in Transaction /\ TxTypeOK /\ TxOK(t)
  BY AtCases DEF TxInv
<1>2. /\ tx[t].kind \in {"create", "cancel", "markPaid", "refund"}
      /\ tx[t].pc \in 1..4 /\ tx[t].todo \in Seq(Items) /\ o \in Orders
  BY <1>1 DEF Transaction
<1>3. r \in Rows /\ At(t) # "commit"
  BY <1>1, WantsCases
<1>4. PICK x \in Transaction :
           /\ tx' = [tx EXCEPT ![t] = x] /\ Admissible(x)
           /\ x.kind = tx[t].kind /\ x.on = tx[t].on
           /\ x.cart = tx[t].cart /\ x.arg = tx[t].arg
           /\ IF At(t) = "item" /\ Len(tx[t].todo) > 1
                THEN x.todo = Tail(tx[t].todo) /\ x.pc = tx[t].pc
                ELSE x.todo = tx[t].todo /\ x.pc = tx[t].pc + 1
  BY <1>3, AdvanceEffect
<1>5. tx'[t] = x
  BY <1>1, <1>4 DEF TxTypeOK
<1>6. /\ tx'[t].kind = tx[t].kind /\ tx'[t].on = o
      /\ tx'[t].cart = tx[t].cart /\ tx'[t].arg = tx[t].arg
      /\ IF At(t) = "item" /\ Len(tx[t].todo) > 1
           THEN tx'[t].todo = Tail(tx[t].todo) /\ tx'[t].pc = tx[t].pc
           ELSE tx'[t].todo = tx[t].todo /\ tx'[t].pc = tx[t].pc + 1
  BY <1>4, <1>5
<1>7. Running(t)' /\ OwnRows(t)' = OwnRows(t) /\ (OnOrder(t) => OnOrder(t)')
  BY <1>6 DEF Running, OwnRows, OnOrder, repoVars
<1>8. order' = order /\ payment' = payment /\ stock' = stock
  BY DEF repoVars
<1>. HIDE DEF h
<1>9. ASSUME At(t) = "item", tx[t].todo # <<>>
      PROVE  /\ r = ItemRow(h) /\ h \in Items
             /\ HeldItems(t)' = HeldItems(t) \cup {h}
             /\ Len(tx[t].todo) <= 1 => Left(t) = {h}
             /\ Len(tx[t].todo) > 1 =>
                  /\ tx'[t].todo # <<>> /\ Left(t) = {h} \cup Left(t)'
                  /\ Ascending(tx[t].todo) =>
                       /\ Ascending(tx'[t].todo)
                       /\ \A j \in Left(t)' : ItemId[h] < ItemId[j]
  <2>1. r = ItemRow(h)
    BY <1>1, <1>9, WantsCases DEF h
  <2>2. h \in Items
    BY <1>2, <1>9, SplitTodo DEF h
  <2>3. HeldItems(t)' = HeldItems(t) \cup {h}
    BY <2>1, <2>2, RowsDiffer DEF HeldItems
  <2>4. Len(tx[t].todo) <= 1 => Left(t) = {h}
    BY <1>2, <1>9, SplitTodo DEF h, Left
  <2>5. ASSUME Len(tx[t].todo) > 1
        PROVE  /\ tx'[t].todo # <<>> /\ Left(t) = {h} \cup Left(t)'
               /\ Ascending(tx[t].todo) =>
                    /\ Ascending(tx'[t].todo)
                    /\ \A j \in Left(t)' : ItemId[h] < ItemId[j]
    <3>1. tx'[t].todo = Tail(tx[t].todo)
      BY <1>6, <1>9, <2>5
    <3>. QED BY <1>2, <1>9, <2>5, <3>1, SplitTodo DEF h, Left
  <2>. QED BY <2>1, <2>2, <2>3, <2>4, <2>5
<1>10. CASE tx[t].kind = "create"
  <2>. DEFINE c == tx[t].cart
  <2>1. tx[t].pc = 1 /\ At(t) = "item" /\ CreateOK(t)
    BY <1>1, <1>3, <1>10, AtCases DEF TxOK
  <2>2. tx[t].todo # <<>> /\ Ascending(tx[t].todo) /\ HeldItems(t) \cup Left(t) = ItemsOf(c)
    BY <2>1 DEF CreateOK
  <2>3. \A i \in HeldItems(t), j \in Left(t) : ItemId[i] < ItemId[j]
    BY <2>1 DEF CreateOK
  <2>4. stock[h] >= c[h]
    BY <1>1, <1>9, <1>10, <2>1, <2>2, WantsCases, RowsDiffer
  <2>5. /\ tx'[t].arg \in Provider /\ c # EmptyCart /\ order'[o] = "none"
        /\ \A u \in Txs \ {t} : Running(u)' => tx'[u].on # o
        /\ locks'[t] \subseteq {ItemRow(i) : i \in Items}
        /\ \A i \in HeldItems(t)' : stock'[i] >= c[i]
    BY <1>6, <1>8, <1>9, <2>1, <2>2, <2>4 DEF CreateOK, OthersAlone, Running
  <2>6. CASE Len(tx[t].todo) > 1
    <3>1. tx'[t].pc = 1 /\ tx'[t].pc # 2
      BY <1>6, <2>1, <2>6
    <3>2. /\ tx'[t].todo # <<>> /\ Ascending(tx'[t].todo)
          /\ HeldItems(t)' \cup Left(t)' = ItemsOf(c)
      BY <1>9, <2>1, <2>2, <2>6
    <3>3. \A i \in HeldItems(t)', j \in Left(t)' : ItemId[i] < ItemId[j]
      BY <1>9, <2>1, <2>2, <2>3, <2>6
    <3>4. CreateOK(t)'
      BY <1>6, <2>5, <3>1, <3>2, <3>3 DEF CreateOK
    <3>. QED BY <1>6, <1>7, <1>10, <3>4 DEF TxOK
  <2>7. CASE ~(Len(tx[t].todo) > 1)
    <3>1. tx'[t].pc = 2 /\ tx'[t].pc # 1
      BY <1>6, <2>1, <2>7
    <3>2. Len(tx[t].todo) <= 1
      BY <1>2, <2>7
    <3>3. HeldItems(t)' = ItemsOf(c)
      BY <1>9, <2>1, <2>2, <3>2
    <3>4. CreateOK(t)'
      BY <1>6, <2>5, <3>1, <3>3 DEF CreateOK
    <3>. QED BY <1>6, <1>7, <1>10, <3>4 DEF TxOK
  <2>. QED BY <2>6, <2>7
<1>11. CASE tx[t].kind = "cancel"
  <2>. DEFINE c == tx[t].cart
  <2>1. CancelOK(t)
    BY <1>1, <1>11 DEF TxOK
  <2>2. OnOrder(t)' /\ tx'[t].arg \in Reasons
    BY <1>6, <1>7, <2>1 DEF CancelOK
  <2>3. CASE tx[t].pc = 1
    <3>1. At(t) = "order" /\ r = OrderRow(o) /\ order[o] = "pending_payment"
      BY <1>1, <1>11, <2>3, AtCases, WantsCases DEF OrderFrom
    <3>2. tx'[t].pc = 2 /\ tx'[t].todo = tx[t].todo
      BY <1>6, <2>3, <3>1
    <3>3. HeldItems(t)' = HeldItems(t) /\ Left(t)' = Left(t)
      BY <1>2, <3>1, <3>2, RowsDiffer DEF HeldItems, Left
    <3>4. locks'[t] \subseteq OwnRows(t)' \cup {ItemRow(i) : i \in Items}
      BY <1>7, <2>1, <3>1 DEF CancelOK, OwnRows
    <3>5. tx[t].todo # <<>> /\ HeldItems(t) \cup Left(t) = ItemsOf(c)
      BY <2>1, <2>3 DEF CancelOK
    <3>6. CancelOK(t)'
      BY <1>6, <1>8, <2>2, <3>1, <3>2, <3>3, <3>4, <3>5 DEF CancelOK
    <3>. QED BY <1>6, <1>7, <1>11, <3>6 DEF TxOK
  <2>4. CASE tx[t].pc = 2
    <3>1. At(t) = "item"
      BY <1>1, <1>11, <2>4, AtCases
    <3>2. tx[t].todo # <<>> /\ HeldItems(t) \cup Left(t) = ItemsOf(c)
      BY <2>1, <2>4 DEF CancelOK
    <3>3. OrderRow(o) \in locks'[t] /\ order'[o] = "pending_payment"
      BY <1>8, <2>1, <2>4 DEF CancelOK
    <3>4. locks'[t] \subseteq OwnRows(t)' \cup {ItemRow(i) : i \in Items}
      BY <1>7, <1>9, <2>1, <3>1, <3>2 DEF CancelOK
    <3>5. CASE Len(tx[t].todo) > 1
      <4>1. tx'[t].pc = 2
        BY <1>6, <2>4, <3>1, <3>5
      <4>2. tx'[t].todo # <<>> /\ HeldItems(t)' \cup Left(t)' = ItemsOf(c)
        BY <1>9, <3>1, <3>2, <3>5
      <4>3. CancelOK(t)'
        BY <1>6, <2>2, <3>3, <3>4, <4>1, <4>2 DEF CancelOK
      <4>. QED BY <1>6, <1>7, <1>11, <4>3 DEF TxOK
    <3>6. CASE ~(Len(tx[t].todo) > 1)
      <4>1. tx'[t].pc = 3 /\ Len(tx[t].todo) <= 1
        BY <1>2, <1>6, <2>4, <3>6
      <4>2. HeldItems(t)' = ItemsOf(c)
        BY <1>9, <3>1, <3>2, <4>1
      <4>3. CancelOK(t)'
        BY <1>6, <2>2, <3>3, <3>4, <4>1, <4>2 DEF CancelOK
      <4>. QED BY <1>6, <1>7, <1>11, <4>3 DEF TxOK
    <3>. QED BY <3>5, <3>6
  <2>5. CASE tx[t].pc = 3
    <3>1. At(t) = "payment" /\ r = PaymentRow(o)
      BY <1>1, <1>11, <2>5, AtCases, WantsCases
    <3>2. tx'[t].pc = 4
      BY <1>6, <2>5, <3>1
    <3>3. HeldItems(t)' = HeldItems(t)
      BY <1>2, <3>1, RowsDiffer DEF HeldItems
    <3>4. locks'[t] \subseteq OwnRows(t)' \cup {ItemRow(i) : i \in Items}
      BY <1>7, <2>1, <3>1 DEF CancelOK, OwnRows
    <3>5. /\ OrderRow(o) \in locks'[t] /\ order'[o] = "pending_payment"
          /\ HeldItems(t) = ItemsOf(c)
      BY <1>8, <2>1, <2>5 DEF CancelOK
    <3>6. CancelOK(t)'
      BY <1>6, <2>2, <3>1, <3>2, <3>3, <3>4, <3>5 DEF CancelOK
    <3>. QED BY <1>6, <1>7, <1>11, <3>6 DEF TxOK
  <2>. QED BY <1>1, <1>3, <1>11, <2>3, <2>4, <2>5, AtCases
<1>12. ASSUME NEW from, NEW to, ClaimedOK(t, from, to),
              tx[t].kind \in {"markPaid", "refund"},
              PaymentFrom[tx[t].kind] = from, OrderFrom[tx[t].kind] = to
       PROVE  ClaimedOK(t, from, to)'
  <2>1. OnOrder(t)'
    BY <1>7, <1>12 DEF ClaimedOK
  <2>2. CASE tx[t].pc = 1
    <3>1. At(t) = "payment" /\ r = PaymentRow(o) /\ payment[o] \in from
      BY <1>1, <1>12, <2>2, AtCases, WantsCases
    <3>2. tx'[t].pc = 2
      BY <1>6, <2>2, <3>1
    <3>3. locks'[t] = {PaymentRow(o)}
      BY <1>12, <2>2, <3>1 DEF ClaimedOK
    <3>4. OrderRow(o) \notin locks'[t]
      BY <1>2, <3>3, RowsDiffer
    <3>. QED BY <1>6, <1>7, <1>8, <2>1, <3>1, <3>2, <3>3, <3>4 DEF ClaimedOK, OwnRows
  <2>3. CASE tx[t].pc = 2
    <3>1. At(t) = "order" /\ r = OrderRow(o) /\ order[o] \in to
      BY <1>1, <1>12, <2>3, AtCases, WantsCases
    <3>2. tx'[t].pc = 3
      BY <1>6, <2>3, <3>1
    <3>3. PaymentRow(o) \in locks'[t] /\ payment'[o] \in from /\ OrderRow(o) \in locks'[t]
      BY <1>8, <1>12, <2>3, <3>1 DEF ClaimedOK
    <3>4. locks'[t] \subseteq OwnRows(t)'
      BY <1>7, <1>12, <3>1 DEF ClaimedOK, OwnRows
    <3>. QED BY <1>6, <1>8, <2>1, <3>1, <3>2, <3>3, <3>4 DEF ClaimedOK
  <2>. QED BY <1>1, <1>3, <1>12, <2>2, <2>3, AtCases
<1>13. CASE tx[t].kind = "markPaid"
  <2>1. ClaimedOK(t, Payable, {"pending_payment"})'
    BY <1>1, <1>12, <1>13 DEF TxOK, PaymentFrom, OrderFrom
  <2>. QED BY <1>6, <1>7, <1>13, <2>1 DEF TxOK
<1>14. CASE tx[t].kind = "refund"
  <2>1. ClaimedOK(t, {"succeeded", "refund_pending"}, Refundable)'
    BY <1>1, <1>12, <1>14 DEF TxOK, PaymentFrom, OrderFrom
  <2>. QED BY <1>6, <1>7, <1>14, <2>1 DEF TxOK
<1>. QED BY <1>2, <1>10, <1>11, <1>13, <1>14

LEMMA WriteKeeps ==
  ASSUME TxInv, NEW t \in Txs, Write(t)
  PROVE  TxInv'
<1>1. PICK r \in Wants(t) : ~Held(r) /\ locks' = [locks EXCEPT ![t] = locks[t] \cup {r}]
  BY DEF Write
<1>2. Running(t) /\ Advance(t) /\ UNCHANGED repoVars /\ lostPaid' = lostPaid /\ TxTypeOK
  BY DEF Write, TxInv
<1>3. At(t) # "commit" /\ r \in Rows
  BY <1>1, <1>2, WantsCases
<1>4. PICK x \in Transaction : /\ tx' = [tx EXCEPT ![t] = x] /\ Admissible(x)
                               /\ x.kind = tx[t].kind /\ x.on = tx[t].on
  BY <1>2, <1>3, AdvanceEffect
<1>. DEFINE L == locks[t] \cup {r}
<1>5. TxTypeOK' /\ tx'[t] = x /\ locks'[t] = L /\ OthersAlone(t)
  <2>1. L \subseteq Rows
    BY <1>2, <1>3 DEF TxTypeOK
  <2>2. OwnStep(t, x, L)
    BY <1>1, <1>2, <1>4 DEF OwnStep, TxTypeOK
  <2>. HIDE DEF L
  <2>. QED BY <1>2, <1>4, <2>1, <2>2, OwnStepEffect
<1>6. TxOK(t)'
  BY <1>1, <1>2, <1>5, WriteOK
<1>7. \A u \in Txs \ {t} : locks'[t] \cap locks[u] = {}
  BY <1>1, <1>5 DEF TxInv, Exclusive, Held
<1>. QED BY <1>2, <1>4, <1>5, <1>6, <1>7, TablesAlone

\* An update that matches nothing, after the claim: only the order of a
\* confirmation or of a refund can be missed.
LEMMA MissedOrder ==
  ASSUME TxInv, NEW t \in Txs, Running(t), At(t) # "commit", Wants(t) = {}, tx[t].pc # 1
  PROVE  /\ tx[t].kind \in {"markPaid", "refund"}
         /\ tx[t].pc = 2 /\ At(t) = "order"
         /\ order[tx[t].on] = "cancelled"
<1>. DEFINE o == tx[t].on
<1>1. tx[t] \in Transaction /\ TxTypeOK /\ TxOK(t)
  BY AtCases DEF TxInv
<1>2. /\ tx[t].kind \in {"create", "cancel", "markPaid", "refund"}
      /\ tx[t].todo \in Seq(Items) /\ o \in Orders
  BY <1>1 DEF Transaction
<1>3. OrderRow(o) \in Rows /\ PaymentRow(o) \in Rows
  BY <1>2, RowsDiffer
<1>4. ASSUME tx[t].kind = "cancel"
      PROVE  FALSE
  <2>1. CancelOK(t)
    BY <1>1, <1>4 DEF TxOK
  <2>2. CASE tx[t].pc = 2
    <3>1. At(t) = "item" /\ tx[t].todo # <<>>
      BY <1>1, <1>4, <2>1, <2>2, AtCases DEF CancelOK
    <3>2. Head(tx[t].todo) \in Items
      BY <1>2, <3>1, HeadLeft
    <3>3. ItemRow(Head(tx[t].todo)) \in Wants(t)
      BY <1>4, <3>1, <3>2, RowsDiffer DEF Wants
    <3>. QED BY <3>3
  <2>3. CASE tx[t].pc = 3
    <3>1. At(t) = "payment"
      BY <1>1, <1>4, <2>3, AtCases
    <3>2. order[o] = "pending_payment"
      BY <2>1, <2>3 DEF CancelOK
    <3>3. payment[o] = "pending"
      BY <1>2, <3>2 DEF TxInv, OrderMatchesPayment
    <3>4. PaymentRow(o) \in Wants(t)
      BY <1>3, <1>4, <3>1, <3>3 DEF Wants, PaymentFrom
    <3>. QED BY <3>4
  <2>. QED BY <1>1, <1>4, <2>2, <2>3, AtCases
<1>5. tx[t].kind \in {"markPaid", "refund"} /\ tx[t].pc = 2 /\ At(t) = "order"
  BY <1>1, <1>2, <1>4, AtCases
<1>6. order[o] \notin OrderFrom[tx[t].kind]
  BY <1>3, <1>5 DEF Wants
<1>7. order[o] # "none" /\ order[o] \in OrderStatus
  BY <1>1, <1>2, <1>5 DEF TxOK, ClaimedOK, OnOrder, TxInv, RepoTypeOK
<1>8. CASE tx[t].kind = "markPaid"
  <2>1. payment[o] \in Payable /\ order[o] # "pending_payment"
    BY <1>1, <1>5, <1>6, <1>8 DEF TxOK, ClaimedOK, OrderFrom
  <2>. QED BY <1>2, <1>5, <2>1 DEF TxInv, OrderMatchesPayment, Payable
<1>9. CASE tx[t].kind = "refund"
  <2>1. payment[o] \in {"succeeded", "refund_pending"} /\ order[o] \notin Refundable
    BY <1>1, <1>5, <1>6, <1>9 DEF TxOK, ClaimedOK, OrderFrom
  <2>. QED BY <1>2, <1>5, <1>7, <2>1 DEF TxInv, OrderMatchesPayment, Refundable, OrderStatus
<1>. QED BY <1>5, <1>8, <1>9

LEMMA NoMatchKeeps ==
  ASSUME TxInv, NEW t \in Txs, NoMatch(t)
  PROVE  TxInv'
<1>1. /\ Running(t) /\ At(t) # "commit" /\ Wants(t) = {}
      /\ UNCHANGED repoVars /\ lostPaid' = lostPaid
      /\ TxTypeOK /\ TxOK(t)
  BY DEF NoMatch, TxInv
<1>2. CASE tx[t].pc = 1
  <2>1. End(t) /\ lostPaid' \subseteq Orders
    BY <1>1, <1>2 DEF NoMatch, TxTypeOK
  <2>. QED BY <1>1, <2>1, EndKeeps
<1>3. CASE tx[t].pc # 1
  <2>. DEFINE o == tx[t].on
              L == locks[t]
  <2>1. /\ tx[t].kind \in {"markPaid", "refund"} /\ tx[t].pc = 2 /\ At(t) = "order"
        /\ order[o] = "cancelled"
    BY <1>1, <1>3, MissedOrder
  <2>2. Advance(t) /\ locks' = locks
    BY <1>1, <1>3 DEF NoMatch
  <2>3. PICK x \in Transaction :
          /\ tx' = [tx EXCEPT ![t] = x] /\ Admissible(x)
          /\ x.kind = tx[t].kind /\ x.on = tx[t].on
          /\ x.cart = tx[t].cart /\ x.pc = tx[t].pc + 1
    BY <1>1, <2>1, <2>2, AdvanceEffect
  <2>4. TxTypeOK' /\ tx'[t] = x /\ locks'[t] = L /\ OthersAlone(t)
    <3>1. L \subseteq Rows
      BY <1>1 DEF TxTypeOK
    <3>2. OwnStep(t, x, L)
      BY <1>1, <2>2, <2>3 DEF OwnStep, TxTypeOK
    <3>. HIDE DEF L
    <3>. QED BY <1>1, <2>3, <3>1, <3>2, OwnStepEffect
  <2>5. /\ tx'[t].kind = tx[t].kind /\ tx'[t].on = o /\ tx'[t].cart = tx[t].cart
        /\ tx'[t].pc = 3
    BY <2>1, <2>3, <2>4
  <2>6. ASSUME NEW from, NEW to, ClaimedOK(t, from, to)
        PROVE  ClaimedOK(t, from, to)'
    <3>1. OnOrder(t)' /\ OwnRows(t)' = OwnRows(t)
      BY <1>1, <2>5, <2>6 DEF ClaimedOK, OnOrder, OwnRows, repoVars
    <3>2. /\ PaymentRow(o) \in locks'[t] /\ payment'[o] \in from
          /\ OrderRow(o) \notin locks'[t] /\ locks'[t] \subseteq OwnRows(t)
      BY <1>1, <2>1, <2>4, <2>6 DEF ClaimedOK, repoVars
    <3>3. order'[o] = "cancelled"
      BY <1>1, <2>1 DEF repoVars
    <3>. QED BY <2>5, <3>1, <3>2, <3>3 DEF ClaimedOK
  <2>7. TxOK(t)'
    BY <1>1, <2>1, <2>5, <2>6 DEF TxOK, Running
  <2>8. \A u \in Txs \ {t} : locks'[t] \cap locks[u] = {}
    BY <2>4 DEF TxInv, Exclusive
  <2>. QED BY <1>1, <2>4, <2>5, <2>7, <2>8, TablesAlone
<1>. QED BY <1>2, <1>3

LEMMA AbortKeeps ==
  ASSUME TxInv, NEW t \in Txs, Rollback(t) \/ DeadlockVictim(t)
  PROVE  TxInv' /\ UNCHANGED repoVars
<1>1. CASE Rollback(t)
  BY <1>1, EndKeeps DEF Rollback, TxInv, TxTypeOK
<1>2. CASE DeadlockVictim(t)
  <2>1. PICK S \in SUBSET Txs : t \in S /\ Cycle(S)
    BY <1>2 DEF DeadlockVictim
  <2>2. PICK u \in S : Waits(t, u)
    BY <2>1 DEF Cycle
  <2>3. tx[t].on \in Orders
    BY <2>1, <2>2, WaitingAt DEF Transaction
  <2>4. lostPaid' \subseteq Orders
    BY <1>2, <2>3 DEF DeadlockVictim, TxInv, TxTypeOK
  <2>. QED BY <1>2, <2>4, EndKeeps DEF DeadlockVictim
<1>. QED BY <1>1, <1>2

-----------------------------------------------------------------------------
(* Commits: each one is an operation of the repository.                    *)

LEMMA CommitFacts ==
  ASSUME TxInv, NEW t \in Txs, Commit(t)
  PROVE  /\ Running(t) /\ At(t) = "commit" /\ TxTypeOK /\ TxOK(t) /\ RepoTypeOK
         /\ tx[t].kind \in {"create", "cancel", "markPaid", "refund"}
         /\ tx[t].on \in Orders /\ tx[t].cart \in Cart
         /\ tx'[t] = NoTx /\ locks'[t] = {} /\ TxTypeOK' /\ OthersAlone(t)
<1>1. Running(t) /\ At(t) = "commit" /\ TxTypeOK /\ TxOK(t) /\ RepoTypeOK
  BY DEF Commit, TxInv
<1>2. tx[t] \in Transaction
  BY <1>1, AtCases
<1>3. TxTypeOK' /\ tx'[t] = NoTx /\ locks'[t] = {} /\ OthersAlone(t)
  <2>1. Admissible(NoTx) /\ {} \subseteq Rows
    BY DEF Admissible, NoTx
  <2>2. OwnStep(t, NoTx, {})
    BY <1>1 DEF Commit, End, OwnStep, TxTypeOK
  <2>. QED BY <1>1, <2>1, <2>2, OwnStepEffect
<1>. QED BY <1>1, <1>2, <1>3 DEF Transaction

LEMMA CreateCommits ==
  ASSUME TxInv, NEW t \in Txs, Commit(t), tx[t].kind = "create"
  PROVE  /\ CreatePendingOrder(tx[t].on, tx[t].cart, tx[t].arg)
         /\ tx[t].arg \in Provider
<1>. DEFINE o == tx[t].on
            c == tx[t].cart
<1>1. CreateOK(t) /\ tx[t].pc = 2
  BY CommitFacts, AtCases DEF TxOK
<1>2. /\ order[o] = "none" /\ c # EmptyCart /\ tx[t].arg \in Provider
      /\ HeldItems(t) = ItemsOf(c) /\ \A i \in HeldItems(t) : stock[i] >= c[i]
  BY <1>1 DEF CreateOK
<1>3. stock \in [Items -> Nat] /\ \A i \in Items : c[i] \in Nat
  BY CommitFacts, QtyAssumption DEF RepoTypeOK, Cart
<1>4. \A i \in Items : ItemRow(i) \notin locks[t] => c[i] = 0
  BY <1>2, <1>3 DEF HeldItems, ItemsOf
<1>5. Reservable(c)
  BY <1>2, <1>3, <1>4 DEF Reservable, HeldItems
<1>6. stock' = [i \in Items |-> stock[i] - c[i]]
  <2>1. stock' = [i \in Items |-> IF ItemRow(i) \notin locks[t] THEN stock[i]
                                                              ELSE stock[i] - c[i]]
    BY DEF Commit
  <2>2. \A i \in Items : ItemRow(i) \notin locks[t] => stock[i] = stock[i] - c[i]
    BY <1>3, <1>4
  <2>. QED BY <2>1, <2>2
<1>7. /\ order' = [order EXCEPT ![o] = "pending_payment"]
      /\ SetPayment(o, "pending")
      /\ provider' = [provider EXCEPT ![o] = tx[t].arg]
      /\ cart' = [cart EXCEPT ![o] = c]
  BY DEF Commit
<1>8. UNCHANGED <<attached, paidRows, orphanRows>>
  BY CommitFacts DEF Commit, RepoTypeOK
<1>. QED BY <1>2, <1>5, <1>6, <1>7, <1>8 DEF CreatePendingOrder

LEMMA CancelCommits ==
  ASSUME TxInv, NEW t \in Txs, Commit(t), tx[t].kind = "cancel"
  PROVE  /\ CancelPendingOrder(tx[t].on, tx[t].arg)
         /\ tx[t].arg \in Reasons /\ HeldItems(t) = ItemsOf(cart[tx[t].on])
<1>. DEFINE o == tx[t].on
            c == tx[t].cart
<1>1. CancelOK(t) /\ tx[t].pc = 4
  BY CommitFacts, AtCases DEF TxOK
<1>2. /\ order[o] = "pending_payment" /\ c = cart[o] /\ tx[t].arg \in Reasons
      /\ HeldItems(t) = ItemsOf(c) /\ OrderRow(o) \in locks[t] /\ PaymentRow(o) \in locks[t]
  BY <1>1 DEF CancelOK, OnOrder
<1>3. payment[o] = "pending"
  BY <1>2, CommitFacts DEF TxInv, OrderMatchesPayment
<1>4. stock \in [Items -> Nat] /\ \A i \in Items : c[i] \in Nat
  BY CommitFacts, QtyAssumption DEF RepoTypeOK, Cart
<1>5. \A i \in Items : ItemRow(i) \notin locks[t] => c[i] = 0
  BY <1>2, <1>4 DEF HeldItems, ItemsOf
<1>6. stock' = [i \in Items |-> stock[i] + c[i]]
  <2>1. stock' = [i \in Items |-> IF ItemRow(i) \notin locks[t] THEN stock[i]
                                                              ELSE stock[i] + c[i]]
    BY DEF Commit
  <2>2. \A i \in Items : ItemRow(i) \notin locks[t] => stock[i] = stock[i] + c[i]
    BY <1>4, <1>5
  <2>. QED BY <2>1, <2>2
<1>7. order' = [order EXCEPT ![o] = "cancelled"] /\ SetPayment(o, tx[t].arg)
  BY <1>2 DEF Commit
<1>8. UNCHANGED <<provider, attached, cart, paidRows, orphanRows>>
  BY <1>2, CommitFacts DEF Commit, RepoTypeOK
<1>. QED BY <1>2, <1>3, <1>6, <1>7, <1>8 DEF CancelPendingOrder, CancelPending, RestockItems

\* A confirmation and a refund write no item.
LEMMA ClaimedHoldsNoItem ==
  ASSUME NEW t \in Txs, NEW from, NEW to, ClaimedOK(t, from, to), tx[t].on \in Orders
  PROVE  \A i \in Items : ItemRow(i) \notin locks[t]
BY RowsDiffer DEF ClaimedOK, OwnRows

LEMMA MarkPaidCommits ==
  ASSUME TxInv, NEW t \in Txs, Commit(t), tx[t].kind = "markPaid"
  PROVE  /\ MarkPaid(tx[t].on)
         /\ order'[tx[t].on] # order[tx[t].on] => OrderRow(tx[t].on) \in locks[t]
<1>. DEFINE o == tx[t].on
<1>1. ClaimedOK(t, Payable, {"pending_payment"}) /\ tx[t].pc = 3 /\ o \in Orders
  BY CommitFacts, AtCases DEF TxOK
<1>2. /\ payment[o] \in Payable /\ tx[t].cart = cart[o] /\ PaymentRow(o) \in locks[t]
      /\ OrderRow(o) \in locks[t] <=> order[o] = "pending_payment"
  BY <1>1 DEF ClaimedOK, OnOrder
<1>3. stock' = stock
  BY <1>1, ClaimedHoldsNoItem, CommitFacts DEF Commit, RepoTypeOK
<1>4. /\ SetPayment(o, "succeeded")
      /\ attached' = [attached EXCEPT ![o] = @ \/ provider[o] = "stripe"]
  BY <1>2 DEF Commit
<1>5. UNCHANGED <<provider, cart>>
  BY <1>2, CommitFacts DEF Commit, RepoTypeOK
<1>6. CASE OrderRow(o) \in locks[t]
  <2>1. /\ order' = [order EXCEPT ![o] = "paid"]
        /\ paidRows' = [paidRows EXCEPT ![o] = @ + 1]
    BY <1>6 DEF Commit
  <2>2. orphanRows' = orphanRows
    BY <1>6, CommitFacts DEF Commit, RepoTypeOK
  <2>. QED BY <1>2, <1>3, <1>4, <1>5, <1>6, <2>1, <2>2 DEF MarkPaid
<1>7. CASE OrderRow(o) \notin locks[t]
  <2>1. /\ order' = order
        /\ paidRows' = paidRows
        /\ orphanRows' = [orphanRows EXCEPT ![o] = @ + 1]
    BY <1>7, CommitFacts DEF Commit, RepoTypeOK
  <2>. QED BY <1>2, <1>3, <1>4, <1>5, <1>7, <2>1 DEF MarkPaid
<1>. QED BY <1>6, <1>7

LEMMA RefundCommits ==
  ASSUME TxInv, NEW t \in Txs, Commit(t), tx[t].kind = "refund"
  PROVE  /\ Refund(tx[t].on)
         /\ order'[tx[t].on] # order[tx[t].on] => OrderRow(tx[t].on) \in locks[t]
<1>. DEFINE o == tx[t].on
<1>1. ClaimedOK(t, {"succeeded", "refund_pending"}, Refundable) /\ tx[t].pc = 3 /\ o \in Orders
  BY CommitFacts, AtCases DEF TxOK
<1>2. /\ payment[o] \in {"succeeded", "refund_pending"} /\ tx[t].cart = cart[o]
      /\ PaymentRow(o) \in locks[t]
      /\ OrderRow(o) \in locks[t] <=> order[o] \in Refundable
  BY <1>1 DEF ClaimedOK, OnOrder, Refundable
<1>3. stock' = stock
  BY <1>1, ClaimedHoldsNoItem, CommitFacts DEF Commit, RepoTypeOK
<1>4. SetPayment(o, "refunded")
  BY <1>2 DEF Commit
<1>5. UNCHANGED <<provider, attached, cart, paidRows, orphanRows>>
  BY <1>2, CommitFacts DEF Commit, RepoTypeOK
<1>6. CASE OrderRow(o) \in locks[t]
  <2>1. order' = [order EXCEPT ![o] = "refunded"]
    BY <1>6 DEF Commit
  <2>. QED BY <1>2, <1>3, <1>4, <1>5, <1>6, <2>1 DEF Refund
<1>7. CASE OrderRow(o) \notin locks[t]
  <2>1. order' = order
    BY <1>7, CommitFacts DEF Commit, RepoTypeOK
  <2>. QED BY <1>2, <1>3, <1>4, <1>5, <1>7, <2>1, CommitFacts DEF Refund, RepoTypeOK
<1>. QED BY <1>6, <1>7

\* A commit concerns the rows its transaction holds and no others.
LEMMA CommitIsQuiet ==
  ASSUME TxInv, NEW t \in Txs, Commit(t), NEW u \in Txs \ {t}
  PROVE  Quiet(u)
<1>. DEFINE o == tx[t].on
<1>1. /\ tx'[u] = tx[u] /\ locks'[u] = locks[u] /\ o \in Orders /\ Running(t)
      /\ RepoTypeOK /\ TxTypeOK /\ TxOK(u) /\ TxOK(t)
  BY CommitFacts DEF OthersAlone, TxInv
<1>2. \A r \in locks[t] : r \notin locks[u]
  BY DEF TxInv, Exclusive
<1>3. ASSUME OrderRow(o) \in locks[u] \/ PaymentRow(o) \in locks[u]
      PROVE  order[o] # "none"
  <2>1. Running(u) /\ tx[u] \in Transaction
    BY <1>1, <1>3, AtCases DEF TxOK
  <2>2. tx[u].on \in Orders /\ tx[u].kind \in {"create", "cancel", "markPaid", "refund"}
    BY <2>1 DEF Transaction
  <2>3. tx[u].kind # "create"
    BY <1>1, <1>3, RowsDiffer DEF TxOK, CreateOK
  <2>4. OnOrder(u) /\ locks[u] \subseteq OwnRows(u) \cup {ItemRow(i) : i \in Items}
    BY <1>1, <2>2, <2>3 DEF TxOK, CancelOK, ClaimedOK
  <2>5. tx[u].on = o
    BY <1>1, <1>3, <2>2, <2>4, RowsDiffer DEF OwnRows
  <2>. QED BY <2>4, <2>5 DEF OnOrder
<1>4. ASSUME tx[u].kind = "create"
      PROVE  /\ tx[u].on \in Orders /\ tx[u].on # o /\ order[tx[u].on] = "none"
             /\ \A v \in Txs \ {u} : tx'[v].kind # "none" => tx'[v].on # tx[u].on
  <2>1. Running(u) /\ tx[u] \in Transaction /\ CreateOK(u)
    BY <1>1, <1>4, AtCases DEF TxOK, Running
  <2>2. \A v \in Txs \ {u} : tx[v].kind # "none" => tx[v].on # tx[u].on
    BY <2>1 DEF CreateOK, Running
  <2>3. \A v \in Txs \ {u} : tx'[v].kind # "none" => tx'[v].on # tx[u].on
    BY <2>2, CommitFacts DEF OthersAlone, NoTx
  <2>. QED BY <1>1, <2>1, <2>2, <2>3 DEF CreateOK, Transaction, Running
\* What is left to show: the tables, for the rows of u and for orders that exist.
<1>. DEFINE Rest ==
       /\ \A q \in Orders \ {o} : order'[q] = order[q] /\ payment'[q] = payment[q]
                                  /\ cart'[q] = cart[q]
       /\ OrderRow(o) \in locks[u] => order'[o] = order[o]
       /\ PaymentRow(o) \in locks[u] => payment'[o] = payment[o]
       /\ order[o] # "none" => order'[o] # "none" /\ cart'[o] = cart[o]
       /\ order[o] = "cancelled" => order'[o] = "cancelled"
       /\ \A i \in HeldItems(u) : stock'[i] = stock[i]
<1>5. ASSUME Rest
      PROVE  Quiet(u)
  <2>1. ASSUME NEW q \in Orders
        PROVE  /\ OrderRow(q) \in locks[u] => order'[q] = order[q]
               /\ PaymentRow(q) \in locks[u] => payment'[q] = payment[q]
               /\ order[q] # "none" => order'[q] # "none" /\ cart'[q] = cart[q]
               /\ order[q] = "cancelled" => order'[q] = "cancelled"
    BY <1>5
  <2>2. tx[u].kind = "create" => order'[tx[u].on] = order[tx[u].on]
    BY <1>4, <1>5
  <2>. QED BY <1>1, <1>4, <1>5, <2>1, <2>2 DEF Quiet
<1>6. CASE tx[t].kind = "create"
  <2>1. CreatePendingOrder(o, tx[t].cart, tx[t].arg)
    BY <1>6, CreateCommits
  <2>2. ASSUME NEW i \in HeldItems(u)
        PROVE  stock'[i] = stock[i]
    <3>1. i \in Items /\ i \notin HeldItems(t)
      BY <1>2 DEF HeldItems
    <3>2. HeldItems(t) = ItemsOf(tx[t].cart)
      BY <1>1, <1>6, CommitFacts, AtCases DEF TxOK, CreateOK
    <3>3. tx[t].cart[i] = 0 /\ stock[i] \in Nat
      BY <1>1, <3>1, <3>2, CommitFacts, QtyAssumption DEF ItemsOf, Cart, RepoTypeOK
    <3>. QED BY <2>1, <3>1, <3>3 DEF CreatePendingOrder
  <2>3. Rest
    BY <1>1, <1>3, <2>1, <2>2 DEF CreatePendingOrder, SetPayment, RepoTypeOK
  <2>. QED BY <1>5, <2>3
<1>7. CASE tx[t].kind = "cancel"
  <2>1. CancelPendingOrder(o, tx[t].arg) /\ HeldItems(t) = ItemsOf(cart[o])
    BY <1>7, CancelCommits
  <2>2. ASSUME NEW i \in HeldItems(u)
        PROVE  stock'[i] = stock[i]
    <3>1. i \in Items /\ i \notin HeldItems(t)
      BY <1>2 DEF HeldItems
    <3>2. cart[o][i] = 0 /\ stock[i] \in Nat
      BY <1>1, <2>1, <3>1, QtyAssumption DEF ItemsOf, Cart, RepoTypeOK
    <3>. QED BY <2>1, <3>1, <3>2 DEF CancelPendingOrder, RestockItems
  <2>3. OrderRow(o) \in locks[t] /\ PaymentRow(o) \in locks[t]
    BY <1>1, <1>7, CommitFacts, AtCases DEF TxOK, CancelOK
  <2>4. OrderRow(o) \notin locks[u] /\ PaymentRow(o) \notin locks[u]
    BY <1>2, <2>3
  <2>5. \A q \in Orders \ {o} : payment'[q] = payment[q]
    BY <1>1, <2>1 DEF CancelPendingOrder, SetPayment, RepoTypeOK
  <2>6. Rest
    BY <1>1, <2>1, <2>2, <2>4, <2>5 DEF CancelPendingOrder, CancelPending, RepoTypeOK
  <2>. QED BY <1>5, <2>6
<1>8. CASE tx[t].kind = "markPaid"
  <2>1. MarkPaid(o) /\ (order'[o] # order[o] => OrderRow(o) \in locks[t])
    BY <1>8, MarkPaidCommits
  <2>2. PaymentRow(o) \in locks[t] /\ order[o] # "none"
    BY <1>1, <1>8, CommitFacts, AtCases DEF TxOK, ClaimedOK, OnOrder
  <2>3. Rest
    BY <1>1, <1>2, <2>1, <2>2 DEF MarkPaid, SetPayment, RepoTypeOK
  <2>. QED BY <1>5, <2>3
<1>9. CASE tx[t].kind = "refund"
  <2>1. Refund(o) /\ (order'[o] # order[o] => OrderRow(o) \in locks[t])
    BY <1>9, RefundCommits
  <2>2. PaymentRow(o) \in locks[t] /\ order[o] # "none"
    BY <1>1, <1>9, CommitFacts, AtCases DEF TxOK, ClaimedOK, OnOrder
  <2>3. Rest
    BY <1>1, <1>2, <2>1, <2>2 DEF Refund, SetPayment, Refundable, RepoTypeOK
  <2>. QED BY <1>5, <2>3
<1>. QED BY <1>6, <1>7, <1>8, <1>9, CommitFacts

LEMMA CommitIsRepoStep ==
  ASSUME TxInv, NEW t \in Txs, Commit(t)
  PROVE  RepoStep(tx[t].on) /\ CartsKept'
<1>. DEFINE o == tx[t].on
<1>1. o \in Orders /\ tx[t].cart \in Cart /\ RepoTypeOK /\ CartsKept
  BY CommitFacts DEF TxInv
<1>2. CASE tx[t].kind = "create"
  <2>1. CreatePendingOrder(o, tx[t].cart, tx[t].arg) /\ tx[t].arg \in Provider
    BY <1>2, CreateCommits
  <2>2. CartsKept'
    BY <1>1, <2>1 DEF CreatePendingOrder, CartsKept, RepoTypeOK
  <2>. QED BY <1>1, <2>1, <2>2 DEF RepoStep
<1>3. CASE tx[t].kind = "cancel"
  <2>1. CancelPendingOrder(o, tx[t].arg) /\ tx[t].arg \in Reasons
    BY <1>3, CancelCommits
  <2>2. CartsKept'
    BY <1>1, <2>1 DEF CancelPendingOrder, CancelPending, CartsKept, RepoTypeOK
  <2>. QED BY <2>1, <2>2 DEF RepoStep, Reasons
<1>4. CASE tx[t].kind = "markPaid"
  <2>1. MarkPaid(o) /\ order[o] # "none"
    BY <1>4, CommitFacts, MarkPaidCommits DEF TxOK, ClaimedOK, OnOrder
  <2>2. CartsKept'
    BY <1>1, <2>1 DEF MarkPaid, CartsKept, RepoTypeOK
  <2>. QED BY <2>1, <2>2 DEF RepoStep
<1>5. CASE tx[t].kind = "refund"
  <2>1. Refund(o) /\ order[o] # "none"
    BY <1>5, CommitFacts, RefundCommits DEF TxOK, ClaimedOK, OnOrder
  <2>2. CartsKept'
    BY <1>1, <2>1 DEF Refund, CartsKept, RepoTypeOK
  <2>. QED BY <2>1, <2>2 DEF RepoStep
<1>. QED BY <1>2, <1>3, <1>4, <1>5, CommitFacts

LEMMA CommitKeeps ==
  ASSUME TxInv, NEW t \in Txs, Commit(t)
  PROVE  TxInv'
<1>1. RepoStep(tx[t].on) /\ tx[t].on \in Orders /\ CartsKept'
  BY CommitIsRepoStep, CommitFacts
<1>2. RepoTypeOK' /\ OrderMatchesPayment'
  BY <1>1, RepoTypeStep, OrderMatchesPaymentStep DEF TxInv
<1>3. \A u \in Txs \ {t} : TxOK(u)'
  BY CommitIsQuiet, QuietKeepsTx DEF TxInv
<1>4. tx'[t] = NoTx /\ locks'[t] = {} /\ OthersAlone(t) /\ TxTypeOK'
  BY CommitFacts
<1>5. TxOK(t)'
  BY <1>4 DEF TxOK, Running, NoTx
<1>6. Exclusive'
  BY <1>4 DEF TxInv, Exclusive, OthersAlone
<1>. QED BY <1>1, <1>2, <1>3, <1>4, <1>5, <1>6 DEF TxInv

\* The operations of one statement wait for the row they write.
LEMMA SingleStatementKeeps ==
  ASSUME TxInv, NEW o \in Orders, SingleStatement(o)
  PROVE  TxInv' /\ RepoStep(o)
<1>1. RepoTypeOK /\ TxTypeOK /\ CartsKept /\ UNCHANGED txVars
  BY DEF TxInv, SingleStatement
<1>2. RepoStep(o)
  BY DEF SingleStatement, RepoStep
<1>. DEFINE Effect ==
       /\ stock' = stock /\ cart' = cart
       /\ \A q \in Orders \ {o} : order'[q] = order[q] /\ payment'[q] = payment[q]
       /\ Held(OrderRow(o)) => order'[o] = order[o]
       /\ Held(PaymentRow(o)) => payment'[o] = payment[o]
       /\ order[o] = "none" <=> order'[o] = "none"
       /\ order[o] \in {"none", "cancelled"} => order'[o] = order[o]
<1>3. Effect
  <2>1. CASE AttachProviderId(o) \/ RecordProviderFee(o)
    BY <1>1, <2>1 DEF AttachProviderId, RecordProviderFee, SetPayment, RepoTypeOK
  <2>2. CASE ~Held(PaymentRow(o)) /\ (ClaimRefund(o) \/ ReleaseRefundClaim(o))
    BY <1>1, <2>2 DEF ClaimRefund, ReleaseRefundClaim, SetPayment, RepoTypeOK
  <2>3. ASSUME ~Held(OrderRow(o)), NEW to \in {"delivery_arranged", "delivered"},
               UpdateOrderStatus(o, to)
        PROVE  Effect
    BY <1>1, <2>3 DEF UpdateOrderStatus, ValidFrom, RepoTypeOK
  <2>4. CASE ClaimAges(o)
    BY <2>4 DEF ClaimAges
  <2>. QED BY <2>1, <2>2, <2>3, <2>4 DEF SingleStatement
<1>4. ASSUME NEW u \in Txs
      PROVE  TxOK(u)'
  <2>1. tx'[u] = tx[u] /\ locks'[u] = locks[u] /\ TxOK(u)
    BY <1>1 DEF txVars, TxInv
  <2>2. ASSUME NEW q \in Orders
        PROVE  /\ OrderRow(q) \in locks[u] => order'[q] = order[q]
               /\ PaymentRow(q) \in locks[u] => payment'[q] = payment[q]
               /\ order[q] # "none" => order'[q] # "none" /\ cart'[q] = cart[q]
               /\ order[q] = "cancelled" => order'[q] = "cancelled"
    BY <1>3 DEF Held
  <2>3. ASSUME tx[u].kind = "create"
        PROVE  /\ order'[tx[u].on] = order[tx[u].on]
               /\ \A v \in Txs \ {u} : tx'[v].kind # "none" => tx'[v].on # tx[u].on
    <3>1. Running(u) /\ tx[u] \in Transaction /\ CreateOK(u)
      BY <1>1, <2>1, <2>3, AtCases DEF TxOK, Running
    <3>. QED BY <1>1, <1>3, <3>1 DEF CreateOK, Transaction, Running, txVars
  <2>4. Quiet(u)
    BY <1>3, <2>1, <2>2, <2>3 DEF Quiet, HeldItems
  <2>. QED BY <1>1, <2>1, <2>4, QuietKeepsTx
<1>5. RepoTypeOK' /\ OrderMatchesPayment'
  BY <1>2, RepoTypeStep, OrderMatchesPaymentStep DEF TxInv
<1>6. Exclusive' /\ TxTypeOK'
  BY <1>1 DEF TxInv, Exclusive, TxTypeOK, txVars, Running
<1>7. CartsKept'
  BY <1>1, <1>3 DEF CartsKept
<1>. QED BY <1>2, <1>4, <1>5, <1>6, <1>7 DEF TxInv

-----------------------------------------------------------------------------
(* The theorems.                                                           *)

LEMMA TxInvInit == TxInit => TxInv
<1>. SUFFICES ASSUME TxInit PROVE TxInv
  OBVIOUS
<1>1. RepoTypeOK /\ OrderMatchesPayment
  BY RepoTypeInit, OrderMatchesPaymentInit DEF TxInit
<1>2. \A t \in Txs : tx[t] = NoTx /\ locks[t] = {} /\ NoTx.kind = "none"
  BY DEF TxInit, NoTx
<1>3. TxTypeOK
  BY <1>2 DEF TxInit, TxTypeOK, Running
<1>4. Exclusive
  BY <1>2 DEF Exclusive
<1>5. CartsKept
  BY DEF TxInit, RepoInit, CartsKept
<1>6. \A t \in Txs : TxOK(t)
  BY <1>2 DEF TxOK, Running
<1>. QED BY <1>1, <1>3, <1>4, <1>5, <1>6 DEF TxInv

LEMMA TxInvNext ==
  TxInv /\ [TxNext]_allVars => TxInv' /\ [RepoNext]_repoVars
<1>. SUFFICES ASSUME TxInv, [TxNext]_allVars
              PROVE  TxInv' /\ [RepoNext]_repoVars
  OBVIOUS
<1>1. ASSUME NEW t \in Txs, TxStep(t)
      PROVE  TxInv' /\ [RepoNext]_repoVars
  <2>1. ASSUME NEW o \in Orders,
               \/ \E c \in Cart, p \in Provider : BeginCreate(t, o, c, p)
               \/ \E reason \in Reasons : BeginCancel(t, o, reason)
               \/ BeginMarkPaid(t, o)
               \/ BeginRefund(t, o)
        PROVE  TxInv' /\ UNCHANGED repoVars
    <3>1. TxInv'
      BY <2>1, BeginningsKeep
    <3>2. UNCHANGED repoVars
      BY <2>1 DEF BeginCreate, BeginCancel, BeginMarkPaid, BeginRefund, Begin
    <3>. QED BY <3>1, <3>2
  <2>2. CASE Write(t)
    BY <2>2, WriteKeeps DEF Write
  <2>3. CASE NoMatch(t)
    BY <2>3, NoMatchKeeps DEF NoMatch
  <2>4. CASE Commit(t)
    BY <2>4, CommitKeeps, CommitIsRepoStep, CommitFacts DEF RepoNext
  <2>5. CASE Rollback(t) \/ DeadlockVictim(t)
    BY <2>5, AbortKeeps
  <2>. QED BY <1>1, <2>1, <2>2, <2>3, <2>4, <2>5 DEF TxStep, Reasons
<1>2. ASSUME NEW o \in Orders, SingleStatement(o)
      PROVE  TxInv' /\ [RepoNext]_repoVars
  BY <1>2, SingleStatementKeeps DEF RepoNext
<1>3. CASE UNCHANGED allVars
  <2>1. UNCHANGED repoVars /\ UNCHANGED txVars
    BY <1>3 DEF allVars
  <2>2. \A u \in Txs : Quiet(u)
    <3>. SUFFICES ASSUME NEW u \in Txs PROVE Quiet(u)
      OBVIOUS
    <3>1. tx[u].kind = "create" =>
            \A v \in Txs \ {u} : tx[v].kind # "none" => tx[v].on # tx[u].on
      BY DEF TxInv, TxOK, CreateOK, Running
    <3>. QED BY <2>1, <3>1 DEF Quiet, repoVars, txVars
  <2>3. \A u \in Txs : TxOK(u)'
    BY <2>2, QuietKeepsTx DEF TxInv
  <2>4. RepoTypeOK' /\ OrderMatchesPayment' /\ CartsKept' /\ Exclusive' /\ TxTypeOK'
    BY <2>1 DEF TxInv, RepoTypeOK, OrderMatchesPayment, CartsKept, Exclusive, TxTypeOK,
                Running, repoVars, txVars
  <2>. QED BY <2>1, <2>3, <2>4 DEF TxInv
<1>. QED BY <1>1, <1>2, <1>3 DEF TxNext

\* A connection runs one transaction of a known kind, at a statement of its
\* script, and the locks are on rows that exist.
THEOREM TransactionsTypeCorrect == TxSpec => []TxTypeOK
<1>1. TxInv => TxTypeOK
  BY DEF TxInv
<1>. QED BY <1>1, TxInvInit, TxInvNext, PTL DEF TxSpec

\* Row locks and guarded updates are enough: whatever interleaving of
\* statements, aborts and crashes READ COMMITTED allows, what becomes visible
\* is a sequence of whole operations of orders.repository.ts.
THEOREM TransactionsImplementRepository == TxSpec => RepoSpec
<1>1. TxInit => RepoInit
  BY DEF TxInit
<1>. QED BY <1>1, TxInvInit, TxInvNext, PTL DEF TxSpec, RepoSpec

\* So no unit is oversold, no status pair diverges and no capture is announced
\* twice under the interleavings of the statements either.
THEOREM TransactionsKeepInvariants ==
  TxSpec => [](StockConserved /\ OrderMatchesPayment /\ SignalledOnce)
BY TransactionsImplementRepository, StockNeverOversold, StatusesAgree,
   CapturesSignalledOnce, PTL

\* Of any number of transactions that wait for each other in a circle, one is a
\* cancellation: taking the items by id (orders.repository.ts:143), and the
\* payment before the order, is enough for all the others.
THEOREM DeadlocksNeedCancellations == TxSpec => []DeadlockNeedsCancellation
BY CircleHasCancellation, TxInvInit, TxInvNext, PTL DEF TxSpec
=============================================================================
