--------------------------- MODULE CheckoutProofs ---------------------------
(***************************************************************************)
(* Checkout implements OrdersRepository, so the invariants proved there    *)
(* hold of the composed system; and no event of a capture or of a refund   *)
(* is marked before it has had its effect, for any number of orders, runs, *)
(* admins, crashes and stale claims.                                       *)
(***************************************************************************)
EXTENDS Checkout, OrdersRepositoryProofs

-----------------------------------------------------------------------------
(* Implementation.                                                         *)

\* Every step of a caller is one transaction of the repository, or none.
LEMMA OrderStepIsRepoStep ==
  ASSUME NEW o \in Orders, OrderStep(o)
  PROVE  RepoStep(o) \/ UNCHANGED repoVars
<1>. USE DEF RepoStep
<1>1. ASSUME NEW c \in Cart, NEW p \in Provider, Reserve(o, c, p)
      PROVE  RepoStep(o)
  BY <1>1 DEF Reserve
<1>2. CASE RequestStep(o)
  BY <1>2 DEF RequestStep, CreateCharge, Attach, Instruct, ChargeFails, Compensate
<1>3. CASE RequestCrash(o) \/ Pay(o) \/ ChargeCloses(o) \/ RefundOutside(o)
  BY <1>3 DEF RequestCrash, Pay, ChargeCloses, RefundOutside
<1>4. ASSUME NEW e \in Events, StoreWebhookEvent(o, e)
      PROVE  UNCHANGED repoVars
  BY <1>4 DEF StoreWebhookEvent
<1>5. ASSUME NEW r \in Runs, NEW e \in Events,
             Pick(r, o, e) \/ RunStep(r, o, e) \/ Throw(r, o, e) \/ RunCrash(r, o, e)
      PROVE  RepoStep(o) \/ UNCHANGED repoVars
  <2>1. CASE RecordFee(r, o) \/ ApplyPaid(r, o) \/ EnqueuePayout(r, o)
    BY <2>1 DEF RecordFee, ApplyPaid, EnqueuePayout
  <2>2. CASE ApplyClosed(r, o)
    BY <2>2 DEF ApplyClosed
  <2>3. CASE ApplyRefunded(r, o)
    BY <2>3 DEF ApplyRefunded
  <2>4. CASE \/ Pick(r, o, e) \/ Finish(r, o, e) \/ MarkFailed(r, o, e)
             \/ Throw(r, o, e) \/ RunCrash(r, o, e)
    BY <2>4 DEF Pick, Finish, MarkFailed, Throw, RunCrash
  <2>. QED BY <1>5, <2>1, <2>2, <2>3, <2>4 DEF RunStep
<1>6. CASE ReservationLapses(o) \/ ExpireReservation(o) \/ CancelByStore(o)
  BY <1>6 DEF ReservationLapses, ExpireReservation, CancelByStore
<1>7. ASSUME NEW to \in {"delivery_arranged", "delivered"}, Deliver(o, to)
      PROVE  RepoStep(o)
  BY <1>7 DEF Deliver
<1>8. ASSUME NEW a \in Admins,
             RequestRefund(a, o) \/ AdminStep(a, o) \/ RefundCrash(a, o)
      PROVE  RepoStep(o) \/ UNCHANGED repoVars
  BY <1>8 DEF RequestRefund, AdminStep, RefundClaimed, RefundRejected, RefundAccepted,
              RefundFails, RefundReleased, RefundCrash
<1>9. CASE ClaimGoesStale(o)
  BY <1>9 DEF ClaimGoesStale
<1>. HIDE DEF RepoStep
<1>. QED
  BY <1>1, <1>2, <1>3, <1>4, <1>5, <1>6, <1>7, <1>8, <1>9 DEF OrderStep

LEMMA NextIsRepoNext == [CheckoutNext]_vars => [RepoNext]_repoVars
<1>1. CheckoutNext => [RepoNext]_repoVars
  BY OrderStepIsRepoStep DEF CheckoutNext, RepoNext
<1>2. UNCHANGED vars => UNCHANGED repoVars
  BY DEF vars
<1>. QED BY <1>1, <1>2

LEMMA CheckoutImplementsRepository == CheckoutSpec => RepoSpec
<1>1. CheckoutInit => RepoInit
  BY DEF CheckoutInit
<1>. QED BY <1>1, NextIsRepoNext, PTL DEF CheckoutSpec, RepoSpec

\* So the units are conserved, the columns agree and a capture is signalled
\* once in the composed system too.
THEOREM CheckoutKeepsRepositoryInvariants ==
  CheckoutSpec => [](RepoTypeOK /\ OrderMatchesPayment /\ SignalledOnce /\ StockConserved)
BY CheckoutImplementsRepository, RepoTypeCorrect, StatusesAgree,
   CapturesSignalledOnce, StockNeverOversold, PTL

-----------------------------------------------------------------------------
(* A charge is opened once, by the request of an order that exists.        *)

RequestInv ==
  /\ request \in [Orders -> RequestState]
  /\ charge \in [Orders -> ChargeState]
  /\ \A o \in Orders :
       /\ request[o] # "idle" => order[o] # "none"
       /\ request[o] \in {"idle", "charging"} => charge[o] = "none"

\* No transaction makes an order disappear.
LEMMA OrdersStay ==
  ASSUME RepoTypeOK, OrderMatchesPayment, NEW o \in Orders, OrderStep(o),
         NEW q \in Orders, order[q] # "none"
  PROVE  order'[q] # "none"
<1>1. CASE RepoStep(o)
  BY <1>1, StepGoesForward DEF Forward, Rank, RepoTypeOK, OrderStatus
<1>2. CASE UNCHANGED repoVars
  BY <1>2 DEF repoVars
<1>. QED BY <1>1, <1>2, OrderStepIsRepoStep

LEMMA RequestInvStep ==
  ASSUME RequestInv, RepoTypeOK, OrderMatchesPayment, NEW o \in Orders, OrderStep(o)
  PROVE  RequestInv'
<1>. USE DEF RequestInv
<1>0. \A q \in Orders : order[q] # "none" => order'[q] # "none"
  BY OrdersStay
<1>1. ASSUME NEW c \in Cart, NEW p \in Provider, Reserve(o, c, p)
      PROVE  RequestInv'
  <2>1. order'[o] # "none"
    BY <1>1 DEF Reserve, CreatePendingOrder, RepoTypeOK
  <2>. QED BY <1>0, <1>1, <2>1 DEF Reserve, RequestState
<1>2. CASE CreateCharge(o)
  BY <1>0, <1>2 DEF CreateCharge, RequestState, ChargeState
<1>3. CASE ChargeFails(o)
  BY <1>0, <1>3 DEF ChargeFails, RequestState, ChargeState
<1>4. CASE Attach(o) \/ Instruct(o) \/ Compensate(o) \/ RequestCrash(o)
  BY <1>0, <1>4 DEF Attach, Instruct, Compensate, RequestCrash, RequestState
<1>5. CASE Pay(o) \/ ChargeCloses(o) \/ RefundOutside(o)
  BY <1>0, <1>5 DEF Pay, ChargeCloses, RefundOutside, ReturnMoney, ChargeBecomes,
                    ChargeState
<1>6. ASSUME NEW e \in Events, StoreWebhookEvent(o, e)
      PROVE  RequestInv'
  BY <1>0, <1>6 DEF StoreWebhookEvent, requestVars
<1>7. ASSUME NEW r \in Runs, NEW e \in Events,
             Pick(r, o, e) \/ RunStep(r, o, e) \/ Throw(r, o, e) \/ RunCrash(r, o, e)
      PROVE  RequestInv'
  <2>1. UNCHANGED requestVars
    BY <1>7 DEF Pick, RunStep, Throw, RunCrash, RecordFee, ApplyPaid, EnqueuePayout,
                ApplyClosed, ApplyRefunded, Finish, MarkFailed
  <2>. QED BY <1>0, <2>1 DEF requestVars
<1>8. CASE \/ ReservationLapses(o) \/ ExpireReservation(o) \/ CancelByStore(o)
           \/ ClaimGoesStale(o)
           \/ \E to \in {"delivery_arranged", "delivered"} : Deliver(o, to)
  BY <1>0, <1>8 DEF ReservationLapses, ExpireReservation, CancelByStore, ClaimGoesStale,
                    Deliver, requestVars
<1>9. ASSUME NEW a \in Admins,
             RequestRefund(a, o) \/ AdminStep(a, o) \/ RefundCrash(a, o)
      PROVE  RequestInv'
  <2>1. CASE RefundAccepted(a, o) \/ RefundFails(a, o)
    BY <1>0, <2>1 DEF RefundAccepted, RefundFails, CallProvider, ReturnMoney,
                      ChargeBecomes, ChargeState
  <2>2. CASE \/ RequestRefund(a, o) \/ RefundClaimed(a, o) \/ RefundRejected(a, o)
             \/ RefundReleased(a, o) \/ RefundCrash(a, o)
    BY <1>0, <2>2 DEF RequestRefund, RefundClaimed, RefundRejected, RefundReleased,
                      RefundCrash, requestVars
  <2>. QED BY <1>9, <2>1, <2>2 DEF AdminStep
<1>. QED
  BY <1>1, <1>2, <1>3, <1>4, <1>5, <1>6, <1>7, <1>8, <1>9 DEF OrderStep, RequestStep

-----------------------------------------------------------------------------
(* Captured money leaves a trace.                                          *)

TraceTypes ==
  /\ charge \in [Orders -> ChargeState]
  /\ hook \in [Orders -> [Events -> HookState]]
  /\ job \in [Runs -> [Orders -> [Events -> JobState]]]
  /\ payoutRows \in [Orders -> Nat]

\* The provider announces exactly what happened to the charge.
HookMatchesCharge ==
  \A o \in Orders :
    /\ hook[o]["paid"] # "none" <=> charge[o] \in {"captured", "returned"}
    /\ hook[o]["closed"] # "none" => charge[o] = "closed"
    /\ hook[o]["refunded"] # "none" => charge[o] = "returned"

\* A run works on events that were received, whatever became of them since.
JobHasEvent ==
  \A r \in Runs, o \in Orders, e \in Events :
    job[r][o][e] # "idle" => hook[o][e] \in {"received", "processed", "failed"}

\* What a run past a step of the success event knows to be durable.
PaidJobProgress ==
  \A r \in Runs, o \in Orders :
    /\ job[r][o]["paid"] = "payout" => payment[o] \in Settled
    /\ job[r][o]["paid"] = "finish" => payment[o] \in Settled /\ payoutRows[o] > 0

\* The inductive invariant: the properties alone are not inductive, since a run
\* that crashed or overlaps another leaves only its place in the job behind.
TraceInv ==
  /\ TraceTypes
  /\ HookMatchesCharge
  /\ JobHasEvent
  /\ PaidJobProgress
  /\ ProcessedIsComplete
  /\ RecordedIsReal

\* A write that neither settles a payment nor refunds it.
KeepsMoney ==
  \A q \in Orders :
    /\ payment'[q] \in Settled <=> payment[q] \in Settled
    /\ payment'[q] = "refunded" <=> payment[q] = "refunded"

\* A write that settles or refunds a payment only if the provider did so.
RecordsMoney ==
  \A q \in Orders :
    /\ payment[q] \in Settled => payment'[q] \in Settled
    /\ payment'[q] \in Settled
         => payment[q] \in Settled \/ charge[q] \in {"captured", "returned"}
    /\ payment'[q] = "refunded" => payment[q] = "refunded" \/ charge[q] = "returned"

LEMMA KeptIsRecorded == KeepsMoney => RecordsMoney
BY DEF KeepsMoney, RecordsMoney

LEMMA UnchangedKeepsMoney == UNCHANGED repoVars => KeepsMoney
BY DEF repoVars, KeepsMoney

LEMMA CancelKeepsMoney ==
  ASSUME RepoTypeOK, NEW o \in Orders,
         NEW reason \in {"expired", "failed", "cancelled"},
         CancelPendingOrder(o, reason)
  PROVE  KeepsMoney
BY DEF CancelPendingOrder, SetPayment, RepoTypeOK, KeepsMoney, Settled

LEMMA OtherRepoStepsKeepMoney ==
  ASSUME RepoTypeOK, OrderMatchesPayment, NEW o \in Orders,
         \/ \E c \in Cart, p \in Provider : CreatePendingOrder(o, c, p)
         \/ AttachProviderId(o) \/ RecordProviderFee(o)
         \/ ClaimRefund(o) \/ ReleaseRefundClaim(o) \/ ClaimAges(o)
         \/ \E to \in {"delivery_arranged", "delivered"} : UpdateOrderStatus(o, to)
  PROVE  KeepsMoney
<1>. USE DEF KeepsMoney, Settled, SetPayment, RepoTypeOK
<1>1. ASSUME NEW c \in Cart, NEW p \in Provider, CreatePendingOrder(o, c, p)
      PROVE  KeepsMoney
  BY <1>1 DEF CreatePendingOrder, OrderMatchesPayment
<1>2. CASE AttachProviderId(o) \/ RecordProviderFee(o)
  BY <1>2 DEF AttachProviderId, RecordProviderFee
<1>3. CASE ClaimRefund(o) \/ ReleaseRefundClaim(o)
  BY <1>3 DEF ClaimRefund, Claimable, ReleaseRefundClaim
<1>4. CASE ClaimAges(o)
  BY <1>4 DEF ClaimAges
<1>5. ASSUME NEW to \in {"delivery_arranged", "delivered"}, UpdateOrderStatus(o, to)
      PROVE  KeepsMoney
  BY <1>5 DEF UpdateOrderStatus
<1>. QED BY <1>1, <1>2, <1>3, <1>4, <1>5

\* markPaid settles its own payment and refunds none.
LEMMA MarkPaidSettles ==
  ASSUME RepoTypeOK, NEW o \in Orders, MarkPaid(o)
  PROVE  /\ payment'[o] \in Settled
         /\ \A q \in Orders : payment'[q] = "refunded" <=> payment[q] = "refunded"
         /\ \A q \in Orders \ {o} : payment'[q] = payment[q]
         /\ \A q \in Orders : payment[q] \in Settled => payment'[q] \in Settled
BY DEF MarkPaid, SetPayment, RepoTypeOK, Settled, Payable

\* refund changes a settled payment for another settled one.
LEMMA RefundKeepsSettled ==
  ASSUME RepoTypeOK, NEW o \in Orders, Refund(o)
  PROVE  /\ \A q \in Orders : payment'[q] \in Settled <=> payment[q] \in Settled
         /\ \A q \in Orders \ {o} : payment'[q] = payment[q]
BY DEF Refund, SetPayment, RepoTypeOK, Settled

\* A step outside the provider and the webhooks.
LEMMA TraceFrame ==
  ASSUME TraceInv, RecordsMoney, UNCHANGED <<charge, hook, job, payoutRows>>
  PROVE  TraceInv'
BY DEF TraceInv, RecordsMoney, TraceTypes, HookMatchesCharge, JobHasEvent,
       PaidJobProgress, ProcessedIsComplete, RecordedIsReal

\* A step of a charge that neither captures nor returns it.
LEMMA TraceChargeOpens ==
  ASSUME TraceInv, RecordsMoney, UNCHANGED <<hook, job, payoutRows>>,
         NEW o \in Orders, charge[o] \notin {"closed", "captured", "returned"},
         charge' = [charge EXCEPT ![o] = "open"]
  PROVE  TraceInv'
<1>1. TraceTypes'
  BY DEF TraceInv, TraceTypes, ChargeState
<1>2. HookMatchesCharge' /\ RecordedIsReal'
  BY DEF TraceInv, TraceTypes, HookMatchesCharge, RecordedIsReal, RecordsMoney
<1>3. JobHasEvent' /\ PaidJobProgress' /\ ProcessedIsComplete'
  BY DEF TraceInv, JobHasEvent, PaidJobProgress, ProcessedIsComplete, RecordsMoney
<1>. QED BY <1>1, <1>2, <1>3 DEF TraceInv

\* The provider announces a change of a charge it has not announced before.
LEMMA TraceChargeBecomes ==
  ASSUME TraceInv, payment' = payment, job' = job, payoutRows' = payoutRows,
         NEW o \in Orders, NEW s \in ChargeState, NEW e \in Events,
         ChargeBecomes(o, s, e),
         \/ charge[o] = "open" /\ s = "captured" /\ e = "paid"
         \/ charge[o] = "open" /\ s = "closed" /\ e = "closed"
         \/ charge[o] = "captured" /\ s = "returned" /\ e = "refunded"
  PROVE  TraceInv'
<1>. USE DEF TraceInv, TraceTypes, Events
<1>1. TraceTypes'
  BY DEF ChargeBecomes, ChargeState, HookState
<1>2. hook[o][e] = "none"
  BY DEF HookMatchesCharge
<1>3. /\ charge'[o] = s /\ hook'[o][e] = "sent"
      /\ \A q \in Orders \ {o} : charge'[q] = charge[q] /\ hook'[q] = hook[q]
      /\ \A f \in Events \ {e} : hook'[o][f] = hook[o][f]
  BY DEF ChargeBecomes
<1>4. HookMatchesCharge'
  <2>. DEFINE Matches(q) ==
         /\ hook[q]["paid"] # "none" <=> charge[q] \in {"captured", "returned"}
         /\ hook[q]["closed"] # "none" => charge[q] = "closed"
         /\ hook[q]["refunded"] # "none" => charge[q] = "returned"
  <2>1. Matches(o)'
    <3>. "paid" \in Events /\ "closed" \in Events /\ "refunded" \in Events
      OBVIOUS
    <3>1. CASE e = "paid"
      BY <1>3, <3>1 DEF HookMatchesCharge
    <3>2. CASE e = "closed"
      BY <1>3, <3>2 DEF HookMatchesCharge
    <3>3. CASE e = "refunded"
      BY <1>3, <3>3 DEF HookMatchesCharge
    <3>. QED BY <3>1, <3>2, <3>3
  <2>2. ASSUME NEW q \in Orders \ {o} PROVE Matches(q)'
    BY <1>3, <2>2 DEF HookMatchesCharge
  <2>3. \A q \in Orders : Matches(q)'
    <3>. HIDE DEF Matches
    <3>. QED BY <2>1, <2>2, Zenon
  <2>. QED BY <2>3 DEF HookMatchesCharge
<1>5. JobHasEvent'
  <2>. SUFFICES ASSUME NEW r \in Runs, NEW q \in Orders, NEW f \in Events,
                       job[r][q][f] # "idle"
                PROVE  hook'[q][f] \in {"received", "processed", "failed"}
    BY DEF JobHasEvent
  <2>1. hook[q][f] \in {"received", "processed", "failed"}
    BY DEF JobHasEvent
  <2>2. q # o \/ f # e
    BY <1>2, <2>1
  <2>. QED BY <1>3, <2>1, <2>2
<1>6. PaidJobProgress'
  BY DEF PaidJobProgress
<1>7. ProcessedIsComplete'
  BY <1>3 DEF ProcessedIsComplete
<1>8. RecordedIsReal'
  BY <1>3 DEF RecordedIsReal
<1>. QED BY <1>1, <1>4, <1>5, <1>6, <1>7, <1>8

LEMMA TraceProviderStep ==
  ASSUME TraceInv, NEW o \in Orders, request[o] = "charging" => charge[o] = "none",
         CreateCharge(o) \/ Pay(o) \/ ChargeCloses(o) \/ RefundOutside(o)
  PROVE  TraceInv'
<1>1. payment' = payment /\ job' = job /\ payoutRows' = payoutRows
  BY DEF CreateCharge, Pay, ChargeCloses, RefundOutside, repoVars, hookVars
<1>2. CASE CreateCharge(o)
  <2>1. RecordsMoney
    BY <1>1 DEF RecordsMoney
  <2>. QED BY <1>2, <2>1, TraceChargeOpens DEF CreateCharge, hookVars
<1>3. CASE Pay(o)
  BY <1>1, <1>3, TraceChargeBecomes DEF Pay, ChargeState, Events
<1>4. CASE ChargeCloses(o)
  BY <1>1, <1>4, TraceChargeBecomes DEF ChargeCloses, ChargeState, Events
<1>5. CASE RefundOutside(o)
  BY <1>1, <1>5, TraceChargeBecomes DEF RefundOutside, ReturnMoney, ChargeState, Events
<1>. QED BY <1>2, <1>3, <1>4, <1>5

\* A step of a run that moves its place in the job: what it must know is given.
LEMMA TraceJobGoes ==
  ASSUME TraceInv, RecordsMoney, UNCHANGED <<charge, hook, payoutRows>>,
         NEW r \in Runs, NEW o \in Orders, NEW e \in Events, NEW s \in JobState,
         JobGoes(r, o, e, s),
         s # "idle" => hook[o][e] \in {"received", "processed", "failed"},
         e = "paid" /\ s = "payout" => payment'[o] \in Settled,
         e = "paid" /\ s = "finish" => payment'[o] \in Settled /\ payoutRows'[o] > 0
  PROVE  TraceInv'
<1>. USE DEF TraceInv, RecordsMoney
<1>1. job' = [job EXCEPT ![r][o][e] = s]
  BY DEF JobGoes
<1>2. TraceTypes'
  BY <1>1 DEF TraceTypes
<1>3. \A p \in Runs, q \in Orders, f \in Events :
        job'[p][q][f] = IF p = r /\ q = o /\ f = e THEN s ELSE job[p][q][f]
  BY <1>1 DEF TraceTypes
<1>4. HookMatchesCharge' /\ ProcessedIsComplete' /\ RecordedIsReal'
  BY DEF HookMatchesCharge, ProcessedIsComplete, RecordedIsReal
<1>5. JobHasEvent'
  BY <1>3 DEF JobHasEvent
<1>6. PaidJobProgress'
  BY <1>3 DEF PaidJobProgress, Events
<1>. QED BY <1>2, <1>4, <1>5, <1>6

\* A step that writes the status of an event, and may end a run's work on it.
LEMMA TraceHookGoes ==
  ASSUME TraceInv, payment' = payment, charge' = charge, payoutRows' = payoutRows,
         NEW o \in Orders, NEW e \in Events,
         NEW s \in {"received", "processed", "failed"},
         hook' = [hook EXCEPT ![o][e] = s], hook[o][e] # "none",
         e = "paid" /\ s = "processed" => payment[o] \in Settled /\ payoutRows[o] > 0,
         job' = job \/ \E r \in Runs : JobGoes(r, o, e, "idle")
  PROVE  TraceInv'
<1>. USE DEF TraceInv
<1>1. /\ job' \in [Runs -> [Orders -> [Events -> JobState]]]
      /\ \A p \in Runs, q \in Orders, f \in Events :
           job'[p][q][f] # "idle" => job'[p][q][f] = job[p][q][f]
  <2>1. CASE job' = job
    BY <2>1 DEF TraceTypes
  <2>2. ASSUME NEW r \in Runs, JobGoes(r, o, e, "idle")
        PROVE  <1>1!:
    BY <2>2 DEF TraceTypes, JobGoes, JobState
  <2>. QED BY <2>1, <2>2
<1>2. TraceTypes'
  BY <1>1 DEF TraceTypes, HookState
<1>3. \A q \in Orders, f \in Events :
        hook'[q][f] = IF q = o /\ f = e THEN s ELSE hook[q][f]
  BY DEF TraceTypes
<1>4. HookMatchesCharge'
  BY <1>3 DEF HookMatchesCharge, Events
<1>5. JobHasEvent'
  <2>. SUFFICES ASSUME NEW p \in Runs, NEW q \in Orders, NEW f \in Events,
                       job'[p][q][f] # "idle"
                PROVE  hook'[q][f] \in {"received", "processed", "failed"}
    BY DEF JobHasEvent
  <2>1. job[p][q][f] # "idle"
    BY <1>1
  <2>2. hook[q][f] \in {"received", "processed", "failed"}
    BY <2>1 DEF JobHasEvent
  <2>. QED BY <1>3, <2>2
<1>6. PaidJobProgress'
  BY <1>1 DEF PaidJobProgress, Events
<1>7. ProcessedIsComplete'
  BY <1>3 DEF ProcessedIsComplete, Events
<1>8. RecordedIsReal'
  BY DEF RecordedIsReal
<1>. QED BY <1>2, <1>4, <1>5, <1>6, <1>7, <1>8

\* The payout is queued by a run that has seen the payment settled.
LEMMA TraceEnqueuePayout ==
  ASSUME TraceInv, NEW r \in Runs, NEW o \in Orders, EnqueuePayout(r, o)
  PROVE  TraceInv'
<1>. USE DEF TraceInv
<1>1. /\ payment' = payment /\ charge' = charge /\ hook' = hook
      /\ payoutRows' = [payoutRows EXCEPT ![o] = @ + 1]
      /\ job' = [job EXCEPT ![r][o]["paid"] = "finish"]
      /\ job[r][o]["paid"] = "payout"
  BY DEF EnqueuePayout, JobGoes, repoVars, requestVars
<1>2. TraceTypes'
  BY <1>1 DEF TraceTypes, JobState, Events
<1>3. \A p \in Runs, q \in Orders, f \in Events :
        job'[p][q][f] = IF p = r /\ q = o /\ f = "paid" THEN "finish" ELSE job[p][q][f]
  BY <1>1 DEF TraceTypes
<1>4. \A q \in Orders : payoutRows'[q] = IF q = o THEN payoutRows[q] + 1 ELSE payoutRows[q]
  BY <1>1 DEF TraceTypes
<1>5. payment[o] \in Settled
  BY <1>1 DEF PaidJobProgress
<1>6. payoutRows \in [Orders -> Nat]
  BY DEF TraceTypes
<1>7. HookMatchesCharge' /\ RecordedIsReal'
  BY <1>1 DEF HookMatchesCharge, RecordedIsReal
<1>8. JobHasEvent'
  BY <1>1, <1>3 DEF JobHasEvent, Events
<1>9. PaidJobProgress'
  BY <1>1, <1>3, <1>4, <1>5, <1>6 DEF PaidJobProgress, Events
<1>10. ProcessedIsComplete'
  BY <1>1, <1>4, <1>6 DEF ProcessedIsComplete
<1>. QED BY <1>2, <1>7, <1>8, <1>9, <1>10

LEMMA TraceRunStep ==
  ASSUME TraceInv, RequestInv, RepoTypeOK, OrderMatchesPayment,
         NEW o \in Orders, NEW r \in Runs, NEW e \in Events,
         Pick(r, o, e) \/ RunStep(r, o, e) \/ Throw(r, o, e) \/ RunCrash(r, o, e)
  PROVE  TraceInv'
<1>. USE DEF TraceInv, JobState
<1>1. CASE Pick(r, o, e)
  <2>1. RecordsMoney
    BY <1>1, UnchangedKeepsMoney, KeptIsRecorded DEF Pick
  <2>2. PICK first \in FirstSteps(o, e) : JobGoes(r, o, e, first)
    BY <1>1 DEF Pick
  <2>3. first \in {"fee", "apply"}
    BY <2>2 DEF FirstSteps
  <2>. QED BY <1>1, <2>1, <2>2, <2>3, TraceJobGoes DEF Pick, requestVars
<1>2. CASE RecordFee(r, o)
  <2>1. RecordsMoney
    BY <1>2, OtherRepoStepsKeepMoney, KeptIsRecorded DEF RecordFee
  <2>2. hook[o]["paid"] \in {"received", "processed", "failed"}
    BY <1>2 DEF RecordFee, JobHasEvent, Events
  <2>. QED BY <1>2, <2>1, <2>2, TraceJobGoes DEF RecordFee, requestVars, Events
<1>3. CASE ApplyPaid(r, o)
  <2>1. hook[o]["paid"] \in {"received", "processed", "failed"}
    BY <1>3 DEF ApplyPaid, JobHasEvent, Events
  <2>2. charge[o] \in {"captured", "returned"}
    BY <2>1 DEF HookMatchesCharge
  <2>3. RecordsMoney /\ payment'[o] \in Settled
    <3>1. CASE MarkPaid(o)
      BY <2>2, <3>1, MarkPaidSettles DEF RecordsMoney
    <3>2. CASE payment[o] \notin Payable /\ UNCHANGED repoVars
      <4>1. payment[o] # "none"
        BY <2>2 DEF RequestInv, RequestState, OrderMatchesPayment
      <4>2. payment'[o] \in Settled
        BY <3>2, <4>1 DEF Payable, Settled, RepoTypeOK, PaymentStatus, repoVars
      <4>. QED BY <3>2, <4>2, UnchangedKeepsMoney, KeptIsRecorded
    <3>. QED BY <1>3, <3>1, <3>2 DEF ApplyPaid
  <2>. QED BY <1>3, <2>1, <2>3, TraceJobGoes DEF ApplyPaid, requestVars, Events
<1>4. CASE EnqueuePayout(r, o)
  BY <1>4, TraceEnqueuePayout
<1>5. CASE ApplyClosed(r, o)
  <2>1. RecordsMoney
    BY <1>5, UnchangedKeepsMoney, CancelKeepsMoney, KeptIsRecorded DEF ApplyClosed
  <2>2. hook[o]["closed"] \in {"received", "processed", "failed"}
    BY <1>5 DEF ApplyClosed, JobHasEvent, Events
  <2>. QED BY <1>5, <2>1, <2>2, TraceJobGoes DEF ApplyClosed, requestVars, Events
<1>6. CASE ApplyRefunded(r, o)
  <2>1. hook[o]["refunded"] \in {"received", "processed", "failed"}
    BY <1>6 DEF ApplyRefunded, JobHasEvent, Events
  <2>2. charge[o] = "returned"
    BY <2>1 DEF HookMatchesCharge
  <2>3. RecordsMoney
    <3>1. CASE Refund(o)
      BY <2>2, <3>1, RefundKeepsSettled DEF RecordsMoney
    <3>2. CASE UNCHANGED repoVars
      BY <3>2, UnchangedKeepsMoney, KeptIsRecorded
    <3>. QED BY <1>6, <3>1, <3>2 DEF ApplyRefunded
  <2>. QED BY <1>6, <2>1, <2>3, TraceJobGoes DEF ApplyRefunded, requestVars, Events
<1>7. CASE Finish(r, o, e)
  <2>1. /\ hook[o][e] # "none"
        /\ e = "paid" => payment[o] \in Settled /\ payoutRows[o] > 0
    BY <1>7 DEF Finish, JobHasEvent, PaidJobProgress
  <2>. QED BY <1>7, <2>1, TraceHookGoes DEF Finish, repoVars, requestVars
<1>8. CASE MarkFailed(r, o, e)
  <2>1. hook[o][e] # "none"
    BY <1>8 DEF MarkFailed, JobHasEvent
  <2>. QED BY <1>8, <2>1, TraceHookGoes DEF MarkFailed, repoVars, requestVars
<1>9. CASE Throw(r, o, e) \/ RunCrash(r, o, e)
  <2>1. RecordsMoney
    BY <1>9, UnchangedKeepsMoney, KeptIsRecorded DEF Throw, RunCrash
  <2>2. hook[o][e] \in {"received", "processed", "failed"}
    BY <1>9 DEF Throw, RunCrash, JobHasEvent
  <2>. QED BY <1>9, <2>1, <2>2, TraceJobGoes DEF Throw, RunCrash, requestVars
<1>. QED
  BY <1>1, <1>2, <1>3, <1>4, <1>5, <1>6, <1>7, <1>8, <1>9 DEF RunStep

\* The provider's side of a refund call changes the charge once or not at all.
LEMMA TraceCallProvider ==
  ASSUME TraceInv, payment' = payment, job' = job, payoutRows' = payoutRows,
         NEW o \in Orders, CallProvider(o) \/ UNCHANGED <<charge, hook>>
  PROVE  TraceInv'
<1>1. CASE charge[o] = "captured" /\ ReturnMoney(o)
  BY <1>1, TraceChargeBecomes DEF ReturnMoney, ChargeState, Events
<1>2. CASE UNCHANGED <<charge, hook>>
  BY <1>2, TraceFrame DEF RecordsMoney
<1>. QED BY <1>1, <1>2 DEF CallProvider

LEMMA TraceInvStep ==
  ASSUME TraceInv, RequestInv, RepoTypeOK, OrderMatchesPayment,
         NEW o \in Orders, OrderStep(o)
  PROVE  TraceInv'
<1>1. ASSUME NEW c \in Cart, NEW p \in Provider, Reserve(o, c, p)
      PROVE  TraceInv'
  BY <1>1, OtherRepoStepsKeepMoney, KeptIsRecorded, TraceFrame DEF Reserve, hookVars
<1>2. CASE CreateCharge(o) \/ Pay(o) \/ ChargeCloses(o) \/ RefundOutside(o)
  BY <1>2, TraceProviderStep DEF RequestInv
<1>3. CASE Attach(o)
  BY <1>3, OtherRepoStepsKeepMoney, KeptIsRecorded, TraceFrame DEF Attach, hookVars
<1>4. CASE Instruct(o)
  BY <1>4, OtherRepoStepsKeepMoney, UnchangedKeepsMoney, KeptIsRecorded, TraceFrame
     DEF Instruct, hookVars
<1>5. CASE ChargeFails(o)
  <2>1. RecordsMoney
    BY <1>5, UnchangedKeepsMoney, KeptIsRecorded DEF ChargeFails
  <2>2. CASE charge' = charge
    BY <1>5, <2>1, <2>2, TraceFrame DEF ChargeFails, hookVars
  <2>3. CASE request[o] = "charging" /\ charge' = [charge EXCEPT ![o] = "open"]
    BY <1>5, <2>1, <2>3, TraceChargeOpens DEF ChargeFails, hookVars, RequestInv
  <2>. QED BY <1>5, <2>2, <2>3 DEF ChargeFails
<1>6. CASE Compensate(o)
  <2>1. RecordsMoney
    BY <1>6, UnchangedKeepsMoney, CancelKeepsMoney, KeptIsRecorded
       DEF Compensate, CompensateFailedCheckout
  <2>. QED BY <1>6, <2>1, TraceFrame DEF Compensate, hookVars
<1>7. CASE RequestCrash(o) \/ ReservationLapses(o)
  BY <1>7, UnchangedKeepsMoney, KeptIsRecorded, TraceFrame
     DEF RequestCrash, ReservationLapses, hookVars
<1>8. ASSUME NEW e \in Events, StoreWebhookEvent(o, e)
      PROVE  TraceInv'
  BY <1>8, TraceHookGoes DEF StoreWebhookEvent, repoVars, requestVars
<1>9. ASSUME NEW r \in Runs, NEW e \in Events,
             Pick(r, o, e) \/ RunStep(r, o, e) \/ Throw(r, o, e) \/ RunCrash(r, o, e)
      PROVE  TraceInv'
  BY <1>9, TraceRunStep
<1>10. CASE ExpireReservation(o) \/ CancelByStore(o)
  <2>1. RecordsMoney
    BY <1>10, CancelKeepsMoney, KeptIsRecorded DEF ExpireReservation, CancelByStore
  <2>. QED BY <1>10, <2>1, TraceFrame
           DEF ExpireReservation, CancelByStore, requestVars, hookVars
<1>11. ASSUME NEW to \in {"delivery_arranged", "delivered"}, Deliver(o, to)
       PROVE  TraceInv'
  BY <1>11, OtherRepoStepsKeepMoney, KeptIsRecorded, TraceFrame
     DEF Deliver, requestVars, hookVars
<1>12. ASSUME NEW a \in Admins,
              RequestRefund(a, o) \/ AdminStep(a, o) \/ RefundCrash(a, o)
       PROVE  TraceInv'
  <2>1. CASE RefundAccepted(a, o) \/ RefundFails(a, o)
    BY <2>1, TraceCallProvider DEF RefundAccepted, RefundFails, repoVars
  <2>2. CASE RequestRefund(a, o) \/ RefundRejected(a, o) \/ RefundCrash(a, o)
    BY <2>2, UnchangedKeepsMoney, KeptIsRecorded, TraceFrame
       DEF RequestRefund, RefundRejected, RefundCrash, requestVars, hookVars
  <2>3. CASE RefundClaimed(a, o)
    BY <2>3, OtherRepoStepsKeepMoney, KeptIsRecorded, TraceFrame
       DEF RefundClaimed, requestVars, hookVars
  <2>4. CASE RefundReleased(a, o)
    BY <2>4, OtherRepoStepsKeepMoney, UnchangedKeepsMoney, KeptIsRecorded, TraceFrame
       DEF RefundReleased, requestVars, hookVars
  <2>. QED BY <1>12, <2>1, <2>2, <2>3, <2>4 DEF AdminStep
<1>13. CASE ClaimGoesStale(o)
  BY <1>13, OtherRepoStepsKeepMoney, KeptIsRecorded, TraceFrame
     DEF ClaimGoesStale, requestVars, hookVars
<1>. QED
  BY <1>1, <1>2, <1>3, <1>4, <1>5, <1>6, <1>7, <1>8, <1>9, <1>10, <1>11, <1>12, <1>13
     DEF OrderStep, RequestStep

LEMMA TraceInvInit == CheckoutInit => RequestInv /\ TraceInv
BY DEF CheckoutInit, RepoInit, RequestInv, RequestState, TraceInv, TraceTypes,
       ChargeState, HookState, JobState, HookMatchesCharge, JobHasEvent,
       PaidJobProgress, ProcessedIsComplete, RecordedIsReal, Settled, Events

LEMMA TraceInvNext ==
  /\ RepoTypeOK /\ OrderMatchesPayment /\ RequestInv /\ TraceInv
  /\ [CheckoutNext]_vars
  => RequestInv' /\ TraceInv'
<1>. SUFFICES ASSUME RepoTypeOK, OrderMatchesPayment, RequestInv, TraceInv,
                     [CheckoutNext]_vars
              PROVE  RequestInv' /\ TraceInv'
  OBVIOUS
<1>1. CASE CheckoutNext
  BY <1>1, RequestInvStep, TraceInvStep DEF CheckoutNext
<1>2. CASE UNCHANGED vars
  <2>1. RequestInv'
    BY <1>2 DEF vars, repoVars, requestVars, RequestInv
  <2>2. TraceInv'
    BY <1>2, UnchangedKeepsMoney, KeptIsRecorded, TraceFrame DEF vars, requestVars, hookVars
  <2>. QED BY <2>1, <2>2
<1>. QED BY <1>1, <1>2

LEMMA TraceInvImplies == TraceInv => ProcessedIsComplete /\ RecordedIsReal
BY DEF TraceInv

LEMMA TraceInvHolds ==
  CheckoutSpec => [](RepoTypeOK /\ OrderMatchesPayment /\ RequestInv /\ TraceInv)
<1>1. CheckoutSpec => [](RepoTypeOK /\ OrderMatchesPayment)
  BY CheckoutKeepsRepositoryInvariants, PTL
<1>2. CheckoutSpec => [](RequestInv /\ TraceInv)
  BY <1>1, TraceInvInit, TraceInvNext, PTL DEF CheckoutSpec
<1>. QED BY <1>1, <1>2, PTL

\* An event marked processed has settled the payment and queued the payout,
\* whichever run marked it and whichever runs died on it before.
THEOREM ProcessedEventsAreComplete == CheckoutSpec => []ProcessedIsComplete
BY TraceInvHolds, TraceInvImplies, PTL

\* The database records no capture and no refund that the provider did not make,
\* whatever stale claim or late event the write came from.
THEOREM RecordedMoneyIsReal == CheckoutSpec => []RecordedIsReal
BY TraceInvHolds, TraceInvImplies, PTL

-----------------------------------------------------------------------------
(* Refunds land.                                                           *)

\* A settled intent can be looked up by the id the webhook names.
FoundByProviderId ==
  \A o \in Orders : payment[o] \in Settled /\ provider[o] = "stripe" => attached[o]

\* The inductive invariant: a refund can only be under way, made, or about to be
\* marked for a payment whose capture was recorded first, unless the panel made
\* it early.
LandingInv ==
  /\ refunding \in [Admins -> [Orders -> RefundState]]
  /\ early \in [Orders -> BOOLEAN]
  /\ FoundByProviderId
  /\ \A a \in Admins, o \in Orders : refunding[a][o] # "idle" => payment[o] \in Settled
  /\ \A o \in Orders : charge[o] = "returned" => early[o] \/ payment[o] \in Settled
  /\ \A r \in Runs, o \in Orders :
       job[r][o]["refunded"] = "finish" => early[o] \/ payment[o] = "refunded"
  /\ RefundLands

\* What a step does to each of the columns the invariant speaks of.
SettledStays ==
  \A q \in Orders : /\ payment[q] \in Settled => payment'[q] \in Settled
                    /\ payment[q] = "refunded" => payment'[q] = "refunded"

ClaimsFollow ==
  /\ refunding' \in [Admins -> [Orders -> RefundState]]
  /\ \A a \in Admins, q \in Orders :
       refunding'[a][q] # "idle" => refunding[a][q] # "idle" \/ payment[q] \in Settled

EarlyStays ==
  /\ early' \in [Orders -> BOOLEAN]
  /\ \A q \in Orders : early[q] => early'[q]

ReturnsFollow ==
  \A q \in Orders :
    charge'[q] = "returned"
      => charge[q] = "returned" \/ early'[q] \/ payment[q] \in Settled

FinishesFollow ==
  \A r \in Runs, q \in Orders :
    job'[r][q]["refunded"] = "finish"
      => job[r][q]["refunded"] = "finish" \/ early[q] \/ payment'[q] = "refunded"

MarksFollow ==
  \A q \in Orders :
    hook'[q]["refunded"] = "processed"
      => hook[q]["refunded"] = "processed" \/ early[q] \/ payment[q] = "refunded"

LEMMA LandingFrame ==
  ASSUME LandingInv, SettledStays, FoundByProviderId', ClaimsFollow, EarlyStays,
         ReturnsFollow, FinishesFollow, MarksFollow
  PROVE  LandingInv'
<1>. USE DEF LandingInv
<1>1. \A a \in Admins, o \in Orders : refunding'[a][o] # "idle" => payment'[o] \in Settled
  BY DEF ClaimsFollow, SettledStays
<1>2. \A o \in Orders : charge'[o] = "returned" => early'[o] \/ payment'[o] \in Settled
  BY DEF ReturnsFollow, SettledStays, EarlyStays
<1>3. \A r \in Runs, o \in Orders :
        job'[r][o]["refunded"] = "finish" => early'[o] \/ payment'[o] = "refunded"
  BY DEF FinishesFollow, SettledStays, EarlyStays
<1>4. RefundLands'
  BY DEF RefundLands, MarksFollow, SettledStays, EarlyStays
<1>. QED BY <1>1, <1>2, <1>3, <1>4 DEF ClaimsFollow, EarlyStays

\* No transaction takes a capture or a refund back, and markPaid stores the id of
\* the intent it settles.
LEMMA SettledStaysFound ==
  ASSUME RepoTypeOK, OrderMatchesPayment, FoundByProviderId,
         NEW o \in Orders, RepoStep(o) \/ UNCHANGED repoVars
  PROVE  SettledStays /\ FoundByProviderId'
<1>. USE DEF SettledStays, FoundByProviderId, Settled, SetPayment, RepoTypeOK
<1>1. ASSUME NEW c \in Cart, NEW p \in Provider, CreatePendingOrder(o, c, p)
      PROVE  SettledStays /\ FoundByProviderId'
  BY <1>1 DEF CreatePendingOrder, OrderMatchesPayment
<1>2. CASE AttachProviderId(o)
  BY <1>2 DEF AttachProviderId
<1>3. CASE RecordProviderFee(o)
  BY <1>3 DEF RecordProviderFee
<1>4. ASSUME NEW reason \in {"expired", "failed", "cancelled"},
             CancelPendingOrder(o, reason)
      PROVE  SettledStays /\ FoundByProviderId'
  BY <1>4 DEF CancelPendingOrder
<1>5. CASE MarkPaid(o)
  BY <1>5 DEF MarkPaid, Payable
<1>6. CASE ClaimRefund(o)
  BY <1>6 DEF ClaimRefund, Claimable
<1>7. CASE ReleaseRefundClaim(o)
  BY <1>7 DEF ReleaseRefundClaim
<1>8. CASE Refund(o)
  BY <1>8 DEF Refund
<1>9. ASSUME NEW to \in {"delivery_arranged", "delivered"}, UpdateOrderStatus(o, to)
      PROVE  SettledStays /\ FoundByProviderId'
  BY <1>9 DEF UpdateOrderStatus
<1>10. CASE ClaimAges(o)
  BY <1>10 DEF ClaimAges
<1>11. CASE UNCHANGED repoVars
  BY <1>11 DEF repoVars
<1>. QED
  BY <1>1, <1>2, <1>3, <1>4, <1>5, <1>6, <1>7, <1>8, <1>9, <1>10, <1>11
     DEF RepoStep, CompensateFailedCheckout

LEMMA ClaimsFollowStep ==
  ASSUME LandingInv, NEW o \in Orders, OrderStep(o)
  PROVE  ClaimsFollow
<1>. USE DEF LandingInv, ClaimsFollow
<1>1. ASSUME refunding' = refunding
      PROVE  ClaimsFollow
  BY <1>1
<1>2. CASE \/ \E c \in Cart, p \in Provider : Reserve(o, c, p)
           \/ RequestStep(o) \/ RequestCrash(o)
           \/ Pay(o) \/ ChargeCloses(o) \/ RefundOutside(o)
           \/ \E e \in Events : StoreWebhookEvent(o, e)
           \/ ReservationLapses(o) \/ ExpireReservation(o) \/ CancelByStore(o)
           \/ \E to \in {"delivery_arranged", "delivered"} : Deliver(o, to)
           \/ ClaimGoesStale(o)
  BY <1>1, <1>2 DEF Reserve, RequestStep, CreateCharge, Attach, Instruct, ChargeFails,
       Compensate, RequestCrash, Pay, ChargeCloses, RefundOutside, StoreWebhookEvent,
       ReservationLapses, ExpireReservation, CancelByStore, Deliver, ClaimGoesStale,
       refundVars
<1>3. ASSUME NEW r \in Runs, NEW e \in Events,
             Pick(r, o, e) \/ RunStep(r, o, e) \/ Throw(r, o, e) \/ RunCrash(r, o, e)
      PROVE  ClaimsFollow
  BY <1>1, <1>3 DEF Pick, RunStep, Throw, RunCrash, RecordFee, ApplyPaid, EnqueuePayout,
                    ApplyClosed, ApplyRefunded, Finish, MarkFailed, refundVars
<1>4. ASSUME NEW a \in Admins, NEW s \in RefundState, RefundGoes(a, o, s),
             s = "idle" \/ refunding[a][o] # "idle" \/ payment[o] \in Settled
      PROVE  ClaimsFollow
  BY <1>4 DEF RefundGoes
<1>5. ASSUME NEW a \in Admins, RequestRefund(a, o) \/ AdminStep(a, o) \/ RefundCrash(a, o)
      PROVE  ClaimsFollow
  BY <1>4, <1>5 DEF RequestRefund, AdminStep, RefundCrash, RefundClaimed, RefundRejected,
                    RefundAccepted, RefundFails, RefundReleased, RefundState, Settled
<1>. QED BY <1>2, <1>3, <1>5 DEF OrderStep

\* Only the panel makes an early refund, and it stays one.
LEMMA EarlyStaysStep ==
  ASSUME LandingInv, NEW o \in Orders, OrderStep(o)
  PROVE  EarlyStays
<1>. USE DEF LandingInv, EarlyStays
<1>1. ASSUME early' = early
      PROVE  EarlyStays
  BY <1>1
<1>2. CASE RefundOutside(o)
  <2>1. early' = [early EXCEPT ![o] = early[o] \/ payment[o] \notin Settled]
    BY <1>2 DEF RefundOutside
  <2>. QED BY <2>1, Zenon
<1>3. CASE \/ \E c \in Cart, p \in Provider : Reserve(o, c, p)
           \/ RequestStep(o) \/ RequestCrash(o) \/ Pay(o) \/ ChargeCloses(o)
           \/ \E e \in Events : StoreWebhookEvent(o, e)
           \/ ReservationLapses(o) \/ ExpireReservation(o) \/ CancelByStore(o)
           \/ \E to \in {"delivery_arranged", "delivered"} : Deliver(o, to)
           \/ ClaimGoesStale(o)
  BY <1>1, <1>3 DEF Reserve, RequestStep, CreateCharge, Attach, Instruct, ChargeFails,
       Compensate, RequestCrash, Pay, ChargeCloses, StoreWebhookEvent,
       ReservationLapses, ExpireReservation, CancelByStore, Deliver, ClaimGoesStale,
       refundVars
<1>4. ASSUME NEW r \in Runs, NEW e \in Events,
             Pick(r, o, e) \/ RunStep(r, o, e) \/ Throw(r, o, e) \/ RunCrash(r, o, e)
      PROVE  EarlyStays
  BY <1>1, <1>4 DEF Pick, RunStep, Throw, RunCrash, RecordFee, ApplyPaid, EnqueuePayout,
                    ApplyClosed, ApplyRefunded, Finish, MarkFailed, refundVars
<1>5. ASSUME NEW a \in Admins, RequestRefund(a, o) \/ AdminStep(a, o) \/ RefundCrash(a, o)
      PROVE  EarlyStays
  BY <1>1, <1>5 DEF RequestRefund, AdminStep, RefundCrash, RefundClaimed, RefundRejected,
                    RefundAccepted, RefundFails, RefundReleased
<1>. QED BY <1>2, <1>3, <1>4, <1>5 DEF OrderStep

\* The provider gives money back to an admin who is calling it, or in its panel.
LEMMA ReturnsFollowStep ==
  ASSUME LandingInv, charge \in [Orders -> ChargeState],
         NEW o \in Orders, OrderStep(o)
  PROVE  ReturnsFollow
<1>. USE DEF LandingInv, ReturnsFollow
<1>1. ASSUME charge' = charge
      PROVE  ReturnsFollow
  BY <1>1
<1>2. ASSUME NEW s \in ChargeState, charge' = [charge EXCEPT ![o] = s],
             s # "returned" \/ payment[o] \in Settled
      PROVE  ReturnsFollow
  BY <1>2
<1>3. CASE RequestStep(o) \/ RequestCrash(o) \/ ReservationLapses(o)
  <2>1. charge' = charge \/ charge' = [charge EXCEPT ![o] = "open"]
    BY <1>3 DEF RequestStep, CreateCharge, Attach, Instruct, ChargeFails, Compensate,
                RequestCrash, ReservationLapses
  <2>. QED BY <1>1, <1>2, <2>1 DEF ChargeState
<1>4. CASE Pay(o) \/ ChargeCloses(o)
  <2>1. \E s \in {"captured", "closed"} : charge' = [charge EXCEPT ![o] = s]
    BY <1>4 DEF Pay, ChargeCloses, ChargeBecomes
  <2>. QED BY <1>2, <2>1 DEF ChargeState
<1>5. CASE RefundOutside(o)
  <2>1. early'[o] \/ payment[o] \in Settled
    BY <1>5 DEF RefundOutside
  <2>2. charge' = [charge EXCEPT ![o] = "returned"]
    BY <1>5 DEF RefundOutside, ReturnMoney, ChargeBecomes
  <2>. QED BY <2>1, <2>2
<1>6. ASSUME NEW a \in Admins, RefundAccepted(a, o) \/ RefundFails(a, o)
      PROVE  ReturnsFollow
  <2>1. payment[o] \in Settled
    BY <1>6 DEF RefundAccepted, RefundFails
  <2>2. charge' = charge \/ charge' = [charge EXCEPT ![o] = "returned"]
    BY <1>6 DEF RefundAccepted, RefundFails, CallProvider, ReturnMoney, ChargeBecomes
  <2>. QED BY <1>1, <1>2, <2>1, <2>2 DEF ChargeState
<1>7. CASE \/ \E c \in Cart, p \in Provider : Reserve(o, c, p)
           \/ \E e \in Events : StoreWebhookEvent(o, e)
           \/ ExpireReservation(o) \/ CancelByStore(o) \/ ClaimGoesStale(o)
           \/ \E to \in {"delivery_arranged", "delivered"} : Deliver(o, to)
  BY <1>1, <1>7 DEF Reserve, StoreWebhookEvent, ExpireReservation, CancelByStore,
                    ClaimGoesStale, Deliver, requestVars
<1>8. ASSUME NEW r \in Runs, NEW e \in Events,
             Pick(r, o, e) \/ RunStep(r, o, e) \/ Throw(r, o, e) \/ RunCrash(r, o, e)
      PROVE  ReturnsFollow
  BY <1>1, <1>8 DEF Pick, RunStep, Throw, RunCrash, RecordFee, ApplyPaid, EnqueuePayout,
                    ApplyClosed, ApplyRefunded, Finish, MarkFailed, requestVars
<1>9. ASSUME NEW a \in Admins,
             \/ RequestRefund(a, o) \/ RefundClaimed(a, o) \/ RefundRejected(a, o)
             \/ RefundReleased(a, o) \/ RefundCrash(a, o)
      PROVE  ReturnsFollow
  BY <1>1, <1>9 DEF RequestRefund, RefundClaimed, RefundRejected, RefundReleased,
                    RefundCrash, requestVars
<1>. QED
  BY <1>3, <1>4, <1>5, <1>6, <1>7, <1>8, <1>9 DEF OrderStep, AdminStep

\* A run that applies a refund event finds the payment settled, unless the money
\* was given back early, and so refunds it.
LEMMA FinishesFollowStep ==
  ASSUME LandingInv, TraceInv, RepoTypeOK, NEW o \in Orders, OrderStep(o)
  PROVE  FinishesFollow
<1>. USE DEF LandingInv, FinishesFollow
<1>1. ASSUME job' = job
      PROVE  FinishesFollow
  BY <1>1
<1>2. ASSUME NEW r \in Runs, NEW e \in Events, NEW s \in JobState, JobGoes(r, o, e, s),
             e # "refunded" \/ s # "finish" \/ early[o] \/ payment'[o] = "refunded"
      PROVE  FinishesFollow
  BY <1>2 DEF JobGoes, TraceInv, TraceTypes, Events
<1>3. ASSUME NEW r \in Runs, ApplyRefunded(r, o)
      PROVE  early[o] \/ payment'[o] = "refunded"
  <2>. SUFFICES ASSUME ~early[o]
                PROVE  payment'[o] = "refunded"
    OBVIOUS
  <2>1. hook[o]["refunded"] \in {"received", "processed", "failed"}
    BY <1>3 DEF ApplyRefunded, TraceInv, JobHasEvent, Events
  <2>2. charge[o] = "returned"
    BY <2>1 DEF TraceInv, HookMatchesCharge
  <2>3. payment[o] \in Settled
    BY <2>2
  <2>4. provider[o] = "woovi" \/ attached[o]
    BY <2>3 DEF FoundByProviderId, RepoTypeOK, Provider
  <2>. QED BY <1>3, <2>3, <2>4 DEF ApplyRefunded, Refund, SetPayment, Settled, RepoTypeOK,
                                   repoVars
<1>4. ASSUME NEW r \in Runs, NEW e \in Events,
             Pick(r, o, e) \/ RunStep(r, o, e) \/ Throw(r, o, e) \/ RunCrash(r, o, e)
      PROVE  FinishesFollow
  <2>1. CASE Pick(r, o, e)
    BY <1>2, <2>1 DEF Pick, FirstSteps, JobState
  <2>2. CASE e = "paid" /\ (RecordFee(r, o) \/ ApplyPaid(r, o) \/ EnqueuePayout(r, o))
    BY <1>2, <2>2 DEF RecordFee, ApplyPaid, EnqueuePayout, JobState
  <2>3. CASE e = "closed" /\ ApplyClosed(r, o)
    BY <1>2, <2>3 DEF ApplyClosed, JobState
  <2>4. CASE e = "refunded" /\ ApplyRefunded(r, o)
    BY <1>2, <1>3, <2>4 DEF ApplyRefunded, JobState
  <2>5. CASE Finish(r, o, e) \/ MarkFailed(r, o, e) \/ Throw(r, o, e) \/ RunCrash(r, o, e)
    BY <1>2, <2>5 DEF Finish, MarkFailed, Throw, RunCrash, JobState
  <2>. QED BY <1>4, <2>1, <2>2, <2>3, <2>4, <2>5 DEF RunStep
<1>5. CASE \/ \E c \in Cart, p \in Provider : Reserve(o, c, p)
           \/ RequestStep(o) \/ RequestCrash(o)
           \/ Pay(o) \/ ChargeCloses(o) \/ RefundOutside(o)
           \/ \E e \in Events : StoreWebhookEvent(o, e)
           \/ ReservationLapses(o) \/ ExpireReservation(o) \/ CancelByStore(o)
           \/ \E to \in {"delivery_arranged", "delivered"} : Deliver(o, to)
           \/ ClaimGoesStale(o)
  BY <1>1, <1>5 DEF Reserve, RequestStep, CreateCharge, Attach, Instruct, ChargeFails,
       Compensate, RequestCrash, Pay, ChargeCloses, RefundOutside, StoreWebhookEvent,
       ReservationLapses, ExpireReservation, CancelByStore, Deliver, ClaimGoesStale,
       hookVars
<1>6. ASSUME NEW a \in Admins, RequestRefund(a, o) \/ AdminStep(a, o) \/ RefundCrash(a, o)
      PROVE  FinishesFollow
  BY <1>1, <1>6 DEF RequestRefund, AdminStep, RefundCrash, RefundClaimed, RefundRejected,
                    RefundAccepted, RefundFails, RefundReleased, hookVars
<1>. QED BY <1>4, <1>5, <1>6 DEF OrderStep

LEMMA MarksFollowStep ==
  ASSUME LandingInv, TraceInv, NEW o \in Orders, OrderStep(o)
  PROVE  MarksFollow
<1>. USE DEF LandingInv, MarksFollow
<1>1. ASSUME hook' = hook
      PROVE  MarksFollow
  BY <1>1
<1>2. ASSUME NEW e \in Events, NEW s \in HookState, hook' = [hook EXCEPT ![o][e] = s],
             e # "refunded" \/ s # "processed" \/ early[o] \/ payment[o] = "refunded"
      PROVE  MarksFollow
  BY <1>2 DEF TraceInv, TraceTypes, Events
<1>3. CASE Pay(o) \/ ChargeCloses(o) \/ RefundOutside(o)
  <2>1. \E e \in Events : hook' = [hook EXCEPT ![o][e] = "sent"]
    BY <1>3 DEF Pay, ChargeCloses, RefundOutside, ReturnMoney, ChargeBecomes, Events
  <2>. QED BY <1>2, <2>1 DEF HookState
<1>4. ASSUME NEW e \in Events, StoreWebhookEvent(o, e)
      PROVE  MarksFollow
  BY <1>2, <1>4 DEF StoreWebhookEvent, HookState
<1>5. ASSUME NEW r \in Runs, NEW e \in Events,
             Pick(r, o, e) \/ RunStep(r, o, e) \/ Throw(r, o, e) \/ RunCrash(r, o, e)
      PROVE  MarksFollow
  <2>1. CASE Finish(r, o, e)
    <3>1. e = "refunded" => early[o] \/ payment[o] = "refunded"
      BY <2>1 DEF Finish
    <3>. QED BY <1>2, <2>1, <3>1 DEF Finish, HookState
  <2>2. CASE MarkFailed(r, o, e)
    BY <1>2, <2>2 DEF MarkFailed, HookState
  <2>3. CASE \/ Pick(r, o, e) \/ Throw(r, o, e) \/ RunCrash(r, o, e)
             \/ RecordFee(r, o) \/ ApplyPaid(r, o) \/ EnqueuePayout(r, o)
             \/ ApplyClosed(r, o) \/ ApplyRefunded(r, o)
    BY <1>1, <2>3 DEF Pick, Throw, RunCrash, RecordFee, ApplyPaid, EnqueuePayout,
                      ApplyClosed, ApplyRefunded
  <2>. QED BY <1>5, <2>1, <2>2, <2>3 DEF RunStep
<1>6. ASSUME NEW a \in Admins, RefundAccepted(a, o) \/ RefundFails(a, o)
      PROVE  MarksFollow
  <2>1. hook' = hook \/ hook' = [hook EXCEPT ![o]["refunded"] = "sent"]
    BY <1>6 DEF RefundAccepted, RefundFails, CallProvider, ReturnMoney, ChargeBecomes
  <2>. QED BY <1>1, <1>2, <2>1 DEF HookState, Events
<1>7. CASE \/ \E c \in Cart, p \in Provider : Reserve(o, c, p)
           \/ RequestStep(o) \/ RequestCrash(o)
           \/ ReservationLapses(o) \/ ExpireReservation(o) \/ CancelByStore(o)
           \/ \E to \in {"delivery_arranged", "delivered"} : Deliver(o, to)
           \/ ClaimGoesStale(o)
  BY <1>1, <1>7 DEF Reserve, RequestStep, CreateCharge, Attach, Instruct, ChargeFails,
       Compensate, RequestCrash, ReservationLapses, ExpireReservation, CancelByStore,
       Deliver, ClaimGoesStale, hookVars
<1>8. ASSUME NEW a \in Admins,
             \/ RequestRefund(a, o) \/ RefundClaimed(a, o) \/ RefundRejected(a, o)
             \/ RefundReleased(a, o) \/ RefundCrash(a, o)
      PROVE  MarksFollow
  BY <1>1, <1>8 DEF RequestRefund, RefundClaimed, RefundRejected, RefundReleased,
                    RefundCrash, hookVars
<1>. QED
  BY <1>3, <1>4, <1>5, <1>6, <1>7, <1>8 DEF OrderStep, AdminStep

LEMMA LandingInvInit == CheckoutInit => LandingInv
BY DEF CheckoutInit, RepoInit, LandingInv, RefundState, FoundByProviderId, RefundLands,
       Settled, Events

LEMMA LandingInvNext ==
  /\ RepoTypeOK /\ OrderMatchesPayment /\ RequestInv /\ TraceInv /\ LandingInv
  /\ [CheckoutNext]_vars
  => LandingInv'
<1>. SUFFICES ASSUME RepoTypeOK, OrderMatchesPayment, RequestInv, TraceInv, LandingInv,
                     [CheckoutNext]_vars
              PROVE  LandingInv'
  OBVIOUS
<1>1. ASSUME NEW o \in Orders, OrderStep(o)
      PROVE  LandingInv'
  <2>1. SettledStays /\ FoundByProviderId'
    BY <1>1, OrderStepIsRepoStep, SettledStaysFound DEF LandingInv
  <2>2. ClaimsFollow /\ EarlyStays /\ MarksFollow /\ FinishesFollow
    BY <1>1, ClaimsFollowStep, EarlyStaysStep, MarksFollowStep, FinishesFollowStep
  <2>3. ReturnsFollow
    BY <1>1, ReturnsFollowStep DEF TraceInv, TraceTypes
  <2>. QED BY <2>1, <2>2, <2>3, LandingFrame
<1>2. CASE UNCHANGED vars
  BY <1>2 DEF vars, repoVars, requestVars, hookVars, refundVars, LandingInv,
              FoundByProviderId, RefundLands
<1>. QED BY <1>1, <1>2 DEF CheckoutNext

\* A refund event marked processed has refunded the payment, in whatever order the
\* events of the order come: asked for through the API or made in the panel, a
\* refund of a capture already recorded cannot be lost.
THEOREM RefundEventsLand == CheckoutSpec => []RefundLands
<1>1. LandingInv => RefundLands
  BY DEF LandingInv
<1>. QED
  BY <1>1, TraceInvHolds, LandingInvInit, LandingInvNext, PTL DEF CheckoutSpec
=============================================================================
