------------------------------ MODULE Checkout ------------------------------
(***************************************************************************)
(* The life of an order as its real callers drive it: the checkout request *)
(* (checkout.service.ts), the payment provider and the webhooks it sends,  *)
(* the runs of processWebhookEvents (one per delivery, plus the recovery   *)
(* worker), the expiry worker, and the store, which cancels, delivers and  *)
(* refunds (refund-order.controller.ts).                                   *)
(*                                                                         *)
(* Every database write of an order is an action of OrdersRepository, so   *)
(* this module implements RepoSpec and inherits its invariants.  A request *)
(* or a run is cut wherever the code awaits: between two steps anything    *)
(* else may happen, the process may die, and a call may throw.             *)
(***************************************************************************)
EXTENDS OrdersRepository

CONSTANTS
  Runs,            \* concurrent runs of processWebhookEvents on one event
  Admins,          \* people of the store who may ask for a refund at once
  MaxFaults,       \* bound on the crashes and database errors of a behaviour
  MaxAged,         \* bound on the claims of a payment that go stale
  OutsideRefunds   \* may the provider refund without being asked by the API?

ASSUME BoundsAssumption == MaxFaults \in Nat /\ MaxAged \in Nat
ASSUME OutsideAssumption == OutsideRefunds \in BOOLEAN

VARIABLES
  request,      \* where the checkout request of the order stands
  charge,       \* the PaymentIntent, or the Pix charge, at the provider
  instructed,   \* the buyer has the client secret, or can read the Pix code
  overdue,      \* orders.expires_at has passed
  hook,         \* webhook_events.status of each event the provider may send
  job,          \* where each run stands on each event
  refunding,    \* where each admin stands on the refund of each order
  early,        \* the panel gave the money back before its capture was recorded
  aged,         \* times a refund claim of the payment went stale
  payoutRows,   \* outbox rows stripe.transfer or woovi.withdraw ever written
  faults        \* crashes and database errors so far

requestVars == <<request, charge, instructed, overdue>>
hookVars == <<hook, job, payoutRows>>
refundVars == <<refunding, early, aged>>
vars == <<repoVars, requestVars, hookVars, refundVars, faults>>

-----------------------------------------------------------------------------
RequestState == {"idle", "charging", "attaching", "attached", "failing", "over"}

\* A charge is taken ("captured") once and may be given back ("returned").
ChargeState == {"none", "open", "closed", "captured", "returned"}

\* payment_intent.succeeded and OPENPIX:CHARGE_COMPLETED; payment_intent.canceled
\* and OPENPIX:CHARGE_EXPIRED; charge.refunded and OPENPIX:TRANSACTION_REFUND_RECEIVED.
Events == {"paid", "closed", "refunded"}

HookState == {"none", "sent", "received", "processed", "failed"}

JobState == {"idle", "fee", "apply", "payout", "finish", "failing"}

RefundState == {"idle", "claiming", "calling", "releasing"}

CheckoutTypeOK ==
  /\ RepoTypeOK
  /\ request \in [Orders -> RequestState]
  /\ charge \in [Orders -> ChargeState]
  /\ instructed \in [Orders -> BOOLEAN]
  /\ overdue \in [Orders -> BOOLEAN]
  /\ hook \in [Orders -> [Events -> HookState]]
  /\ job \in [Runs -> [Orders -> [Events -> JobState]]]
  /\ refunding \in [Admins -> [Orders -> RefundState]]
  /\ early \in [Orders -> BOOLEAN]
  /\ aged \in [Orders -> 0..MaxAged]
  /\ payoutRows \in [Orders -> Nat]
  /\ faults \in 0..MaxFaults

CheckoutInit ==
  /\ RepoInit
  /\ request = [o \in Orders |-> "idle"]
  /\ charge = [o \in Orders |-> "none"]
  /\ instructed = [o \in Orders |-> FALSE]
  /\ overdue = [o \in Orders |-> FALSE]
  /\ hook = [o \in Orders |-> [e \in Events |-> "none"]]
  /\ job = [r \in Runs |-> [o \in Orders |-> [e \in Events |-> "idle"]]]
  /\ refunding = [a \in Admins |-> [o \in Orders |-> "idle"]]
  /\ early = [o \in Orders |-> FALSE]
  /\ aged = [o \in Orders |-> 0]
  /\ payoutRows = [o \in Orders |-> 0]
  /\ faults = 0

\* A crash, or an error of the database, of which a behaviour has a few.
Fault == faults < MaxFaults /\ faults' = faults + 1

-----------------------------------------------------------------------------
(* The checkout request.                                                   *)

Reserve(o, c, p) ==
  /\ request[o] = "idle"
  /\ CreatePendingOrder(o, c, p)
  /\ request' = [request EXCEPT ![o] = "charging"]
  /\ UNCHANGED <<charge, instructed, overdue, hookVars, refundVars, faults>>

\* createPaymentIntent or createCharge answers.
CreateCharge(o) ==
  /\ request[o] = "charging"
  /\ request' = [request EXCEPT ![o] = "attaching"]
  /\ charge' = [charge EXCEPT ![o] = "open"]
  /\ UNCHANGED <<repoVars, instructed, overdue, hookVars, refundVars, faults>>

Attach(o) ==
  /\ request[o] = "attaching"
  /\ AttachProviderId(o)
  /\ request' = [request EXCEPT ![o] = "attached"]
  /\ UNCHANGED <<charge, instructed, overdue, hookVars, refundVars, faults>>

\* The client secret travels in the reply; the Pix code is also stored, where
\* the buyer finds it even if the reply is lost.
Instruct(o) ==
  /\ request[o] = "attached"
  /\ IF provider[o] = "woovi" THEN AttachProviderId(o) ELSE UNCHANGED repoVars
  /\ instructed' = [instructed EXCEPT ![o] = TRUE]
  /\ request' = [request EXCEPT ![o] = "over"]
  /\ UNCHANGED <<charge, overdue, hookVars, refundVars, faults>>

\* One of the awaits of the try block throws.  A call to the provider that
\* throws may have taken effect there.
ChargeFails(o) ==
  /\ \/ request[o] \in {"charging", "attaching"}
     \/ request[o] = "attached" /\ provider[o] = "woovi"
  /\ request' = [request EXCEPT ![o] = "failing"]
  /\ \/ UNCHANGED charge
     \/ request[o] = "charging" /\ charge' = [charge EXCEPT ![o] = "open"]
  /\ UNCHANGED <<repoVars, instructed, overdue, hookVars, refundVars, faults>>

\* The catch block: the order may have been cancelled by somebody meanwhile.
Compensate(o) ==
  /\ request[o] = "failing"
  /\ \/ CompensateFailedCheckout(o)
     \/ ~CancelPending(o) /\ UNCHANGED repoVars
  /\ request' = [request EXCEPT ![o] = "over"]
  /\ UNCHANGED <<charge, instructed, overdue, hookVars, refundVars, faults>>

\* The process dies, and the buyer never gets an answer.
RequestCrash(o) ==
  /\ request[o] \notin {"idle", "over"}
  /\ Fault
  /\ request' = [request EXCEPT ![o] = "over"]
  /\ UNCHANGED <<repoVars, charge, instructed, overdue, hookVars, refundVars>>

-----------------------------------------------------------------------------
(* The buyer and the provider.                                             *)

\* The provider changes a charge and owes the API an event about it.
ChargeBecomes(o, state, event) ==
  /\ charge' = [charge EXCEPT ![o] = state]
  /\ hook' = [hook EXCEPT ![o][event] = "sent"]

\* The API never cancels an intent, so a buyer may pay an order that is gone.
Pay(o) ==
  /\ instructed[o] /\ charge[o] = "open"
  /\ ChargeBecomes(o, "captured", "paid")
  /\ UNCHANGED <<repoVars, request, instructed, overdue, job, payoutRows,
                 refundVars, faults>>

\* A Pix charge closes when the reservation does; an intent when it is canceled
\* at the provider.
ChargeCloses(o) ==
  /\ charge[o] = "open"
  /\ provider[o] = "woovi" => overdue[o]
  /\ ChargeBecomes(o, "closed", "closed")
  /\ UNCHANGED <<repoVars, request, instructed, overdue, job, payoutRows,
                 refundVars, faults>>

ReturnMoney(o) == ChargeBecomes(o, "returned", "refunded")

\* Somebody refunds in the provider's own panel, whether or not the API knows
\* of the capture yet.
RefundOutside(o) ==
  /\ OutsideRefunds
  /\ charge[o] = "captured"
  /\ ReturnMoney(o)
  /\ early' = [early EXCEPT ![o] = @ \/ payment[o] \notin Settled]
  /\ UNCHANGED <<repoVars, request, instructed, overdue, job, payoutRows,
                 refunding, aged, faults>>

-----------------------------------------------------------------------------
(* Webhooks.                                                               *)

\* storeWebhookEvent.  The provider repeats an event until it is answered; the
\* unique key (provider, eventId) drops the copies, which change nothing.
StoreWebhookEvent(o, e) ==
  /\ hook[o][e] = "sent"
  /\ hook' = [hook EXCEPT ![o][e] = "received"]
  /\ UNCHANGED <<repoVars, requestVars, job, payoutRows, refundVars, faults>>

JobGoes(r, o, e, state) == job' = [job EXCEPT ![r][o][e] = state]

\* A Woovi charge may or may not say what fee was taken.
FirstSteps(o, e) ==
  IF e = "paid" /\ provider[o] = "woovi" THEN {"fee", "apply"} ELSE {"apply"}

\* The event is marked before its effects are durable.
Faulty_Pick(r, o, e) ==
  /\ job[r][o][e] = "idle"
  /\ hook[o][e] = "received"
  /\ hook' = [hook EXCEPT ![o][e] = "processed"]
  /\ \E first \in FirstSteps(o, e) : JobGoes(r, o, e, first)
  /\ UNCHANGED <<repoVars, requestVars, payoutRows, refundVars, faults>>

\* A run reads the rows still "received"; another run may hold the same one.
Pick(r, o, e) ==
  /\ job[r][o][e] = "idle"
  /\ hook[o][e] = "received"
  /\ \E first \in FirstSteps(o, e) : JobGoes(r, o, e, first)
  /\ UNCHANGED <<repoVars, requestVars, hook, payoutRows, refundVars, faults>>

RecordFee(r, o) ==
  /\ job[r][o]["paid"] = "fee"
  /\ RecordProviderFee(o)
  /\ JobGoes(r, o, "paid", "apply")
  /\ UNCHANGED <<requestVars, hook, payoutRows, refundVars, faults>>

\* A payment already recorded is taken for a payment already dealt with.
Faulty_ApplyPaid(r, o) ==
  /\ job[r][o]["paid"] = "apply"
  /\ \/ MarkPaid(o) /\ JobGoes(r, o, "paid", "payout")
     \/ payment[o] \notin Payable /\ JobGoes(r, o, "paid", "finish") /\ UNCHANGED repoVars
  /\ UNCHANGED <<requestVars, hook, payoutRows, refundVars, faults>>

\* markPaymentPaid.
ApplyPaid(r, o) ==
  /\ job[r][o]["paid"] = "apply"
  /\ \/ MarkPaid(o)
     \/ payment[o] \notin Payable /\ UNCHANGED repoVars
  /\ JobGoes(r, o, "paid", "payout")
  /\ UNCHANGED <<requestVars, hook, payoutRows, refundVars, faults>>

\* enqueueStripeTransfer or enqueueWooviWithdraw, whatever markPaid found: an
\* intent that succeeded names its charge, and a Pix key is never taken away.
EnqueuePayout(r, o) ==
  /\ job[r][o]["paid"] = "payout"
  /\ payoutRows' = [payoutRows EXCEPT ![o] = @ + 1]
  /\ JobGoes(r, o, "paid", "finish")
  /\ UNCHANGED <<repoVars, requestVars, hook, refundVars, faults>>

\* cancelPaymentAggregate.
ApplyClosed(r, o) ==
  /\ job[r][o]["closed"] = "apply"
  /\ \/ CancelPendingOrder(o, IF provider[o] = "stripe" THEN "failed" ELSE "expired")
     \/ ~CancelPending(o) /\ UNCHANGED repoVars
  /\ JobGoes(r, o, "closed", "finish")
  /\ UNCHANGED <<requestVars, hook, payoutRows, refundVars, faults>>

\* Only the refund of a payment that is still claimed is believed.
Faulty_ApplyRefundedClaimed(r, o) ==
  /\ job[r][o]["refunded"] = "apply"
  /\ \/ payment[o] = "refund_pending" /\ Refund(o)
     \/ payment[o] # "refund_pending" /\ UNCHANGED repoVars
  /\ JobGoes(r, o, "refunded", "finish")
  /\ UNCHANGED <<requestVars, hook, payoutRows, refundVars, faults>>

\* Only the refund of an order that was sold is believed.
Faulty_ApplyRefundedSold(r, o) ==
  /\ job[r][o]["refunded"] = "apply"
  /\ \/ order[o] \in Refundable /\ Refund(o)
     \/ order[o] \notin Refundable /\ UNCHANGED repoVars
  /\ JobGoes(r, o, "refunded", "finish")
  /\ UNCHANGED <<requestVars, hook, payoutRows, refundVars, faults>>

\* refundPaymentByProviderId looks the intent up, refundPaymentByPaymentId has
\* the payment's own id; a payment not found or not settled is left alone.
ApplyRefunded(r, o) ==
  /\ job[r][o]["refunded"] = "apply"
  /\ LET found == provider[o] = "woovi" \/ attached[o]
     IN  \/ found /\ Refund(o)
         \/ /\ ~found \/ payment[o] \notin {"succeeded", "refund_pending"}
            /\ UNCHANGED repoVars
  /\ JobGoes(r, o, "refunded", "finish")
  /\ UNCHANGED <<requestVars, hook, payoutRows, refundVars, faults>>

\* webhookEvent.update to "processed", by id: whatever another run wrote.
Finish(r, o, e) ==
  /\ job[r][o][e] = "finish"
  /\ hook' = [hook EXCEPT ![o][e] = "processed"]
  /\ JobGoes(r, o, e, "idle")
  /\ UNCHANGED <<repoVars, requestVars, payoutRows, refundVars, faults>>

\* A statement throws; its own transaction leaves nothing behind.
Throw(r, o, e) ==
  /\ job[r][o][e] \in {"fee", "apply", "payout", "finish"}
  /\ Fault
  /\ JobGoes(r, o, e, "failing")
  /\ UNCHANGED <<repoVars, requestVars, hook, payoutRows, refundVars>>

\* The catch block: terminal, no worker reads a "failed" row again.
MarkFailed(r, o, e) ==
  /\ job[r][o][e] = "failing"
  /\ hook' = [hook EXCEPT ![o][e] = "failed"]
  /\ JobGoes(r, o, e, "idle")
  /\ UNCHANGED <<repoVars, requestVars, payoutRows, refundVars, faults>>

RunCrash(r, o, e) ==
  /\ job[r][o][e] # "idle"
  /\ Fault
  /\ JobGoes(r, o, e, "idle")
  /\ UNCHANGED <<repoVars, requestVars, hook, payoutRows, refundVars>>

-----------------------------------------------------------------------------
(* The expiry worker and the store.                                        *)

\* Thirty minutes pass.
ReservationLapses(o) ==
  /\ order[o] # "none" /\ ~overdue[o]
  /\ overdue' = [overdue EXCEPT ![o] = TRUE]
  /\ UNCHANGED <<repoVars, request, charge, instructed, hookVars, refundVars, faults>>

\* What has a charge is left for the provider to close.
Faulty_ExpireUnattached(o) ==
  /\ overdue[o] /\ ~attached[o]
  /\ CancelPendingOrder(o, "expired")
  /\ UNCHANGED <<requestVars, hookVars, refundVars, faults>>

\* expireReservations: an order read as overdue and pending stays overdue, and
\* the transaction reads its status again.
ExpireReservation(o) ==
  /\ overdue[o]
  /\ CancelPendingOrder(o, "expired")
  /\ UNCHANGED <<requestVars, hookVars, refundVars, faults>>

CancelByStore(o) ==
  /\ CancelPendingOrder(o, "cancelled")
  /\ UNCHANGED <<requestVars, hookVars, refundVars, faults>>

Deliver(o, to) ==
  /\ UpdateOrderStatus(o, to)
  /\ UNCHANGED <<requestVars, hookVars, refundVars, faults>>

-----------------------------------------------------------------------------
(* The refund controller.                                                  *)

RefundGoes(a, o, state) == refunding' = [refunding EXCEPT ![a][o] = state]

\* Reads the payment and checks it.
RequestRefund(a, o) ==
  /\ refunding[a][o] = "idle"
  /\ payment[o] \in {"succeeded", "refund_pending"}
  /\ provider[o] = "stripe" => attached[o]
  /\ RefundGoes(a, o, "claiming")
  /\ UNCHANGED <<repoVars, requestVars, hookVars, early, aged, faults>>

\* The refund is recorded when it is asked for.
Faulty_RefundClaimed(a, o) ==
  /\ refunding[a][o] = "claiming"
  /\ Claimable(o)
  /\ Refund(o)
  /\ RefundGoes(a, o, "calling")
  /\ UNCHANGED <<requestVars, hookVars, early, aged, faults>>

RefundClaimed(a, o) ==
  /\ refunding[a][o] = "claiming"
  /\ ClaimRefund(o)
  /\ RefundGoes(a, o, "calling")
  /\ UNCHANGED <<requestVars, hookVars, early, aged, faults>>

\* refund_already_requested, or the payment is refunded by now.
RefundRejected(a, o) ==
  /\ refunding[a][o] = "claiming"
  /\ ~Claimable(o)
  /\ RefundGoes(a, o, "idle")
  /\ UNCHANGED <<repoVars, requestVars, hookVars, early, aged, faults>>

\* The provider's side of the call: the idempotency key, refund-<payment id>,
\* makes a second call return the first refund.
CallProvider(o) ==
  IF charge[o] = "captured" THEN ReturnMoney(o) ELSE UNCHANGED <<charge, hook>>

RefundAccepted(a, o) ==
  /\ refunding[a][o] = "calling"
  /\ CallProvider(o)
  /\ RefundGoes(a, o, "idle")
  /\ UNCHANGED <<repoVars, request, instructed, overdue, job, payoutRows,
                 early, aged, faults>>

\* The call throws, having taken effect at the provider or not.
RefundFails(a, o) ==
  /\ refunding[a][o] = "calling"
  /\ CallProvider(o) \/ UNCHANGED <<charge, hook>>
  /\ RefundGoes(a, o, "releasing")
  /\ UNCHANGED <<repoVars, request, instructed, overdue, job, payoutRows,
                 early, aged, faults>>

RefundReleased(a, o) ==
  /\ refunding[a][o] = "releasing"
  /\ \/ ReleaseRefundClaim(o)
     \/ payment[o] # "refund_pending" /\ UNCHANGED repoVars
  /\ RefundGoes(a, o, "idle")
  /\ UNCHANGED <<requestVars, hookVars, early, aged, faults>>

RefundCrash(a, o) ==
  /\ refunding[a][o] # "idle"
  /\ Fault
  /\ RefundGoes(a, o, "idle")
  /\ UNCHANGED <<repoVars, requestVars, hookVars, early, aged>>

\* Fifteen minutes pass; MaxAged bounds how often.
ClaimGoesStale(o) ==
  /\ aged[o] < MaxAged
  /\ ClaimAges(o)
  /\ aged' = [aged EXCEPT ![o] = @ + 1]
  /\ UNCHANGED <<requestVars, hookVars, refunding, early, faults>>

-----------------------------------------------------------------------------
RequestStep(o) ==
  \/ CreateCharge(o) \/ Attach(o) \/ Instruct(o) \/ ChargeFails(o) \/ Compensate(o)

RunStep(r, o, e) ==
  \/ e = "paid" /\ (RecordFee(r, o) \/ ApplyPaid(r, o) \/ EnqueuePayout(r, o))
  \/ e = "closed" /\ ApplyClosed(r, o)
  \/ e = "refunded" /\ ApplyRefunded(r, o)
  \/ Finish(r, o, e) \/ MarkFailed(r, o, e)

AdminStep(a, o) ==
  \/ RefundClaimed(a, o) \/ RefundRejected(a, o) \/ RefundAccepted(a, o)
  \/ RefundFails(a, o) \/ RefundReleased(a, o)

OrderStep(o) ==
  \/ \E c \in Cart, p \in Provider : Reserve(o, c, p)
  \/ RequestStep(o) \/ RequestCrash(o)
  \/ Pay(o) \/ ChargeCloses(o) \/ RefundOutside(o)
  \/ \E e \in Events : StoreWebhookEvent(o, e)
  \/ \E r \in Runs, e \in Events :
       Pick(r, o, e) \/ RunStep(r, o, e) \/ Throw(r, o, e) \/ RunCrash(r, o, e)
  \/ ReservationLapses(o) \/ ExpireReservation(o) \/ CancelByStore(o)
  \/ \E to \in {"delivery_arranged", "delivered"} : Deliver(o, to)
  \/ \E a \in Admins : RequestRefund(a, o) \/ AdminStep(a, o) \/ RefundCrash(a, o)
  \/ ClaimGoesStale(o)

CheckoutNext == \E o \in Orders : OrderStep(o)

CheckoutSpec == CheckoutInit /\ [][CheckoutNext]_vars

\* What the code and its surroundings guarantee: a request or a run that has
\* not died takes its next step, a provider repeats an event until it is
\* answered, the recovery worker finds a row still "received", time passes and
\* the expiry worker wakes up.  Nobody has to pay, deliver or ask for a refund.
Fairness ==
  \A o \in Orders :
    /\ WF_vars(RequestStep(o))
    /\ \A e \in Events : /\ WF_vars(StoreWebhookEvent(o, e))
                         /\ WF_vars(\E r \in Runs : Pick(r, o, e))
                         /\ \A r \in Runs : WF_vars(RunStep(r, o, e))
    /\ WF_vars(ReservationLapses(o))
    /\ WF_vars(ExpireReservation(o))

FairCheckoutSpec == CheckoutSpec /\ Fairness

-----------------------------------------------------------------------------
(* Properties.                                                             *)

\* The database never invents money: what it calls settled was captured, and
\* what it calls refunded was given back.
RecordedIsReal ==
  \A o \in Orders :
    /\ payment[o] \in Settled => charge[o] \in {"captured", "returned"}
    /\ payment[o] = "refunded" => charge[o] = "returned"

\* An event is marked processed only once both of its effects are durable: the
\* payment is settled and the store's payout is queued, whichever runs were
\* interrupted between the two.
ProcessedIsComplete ==
  \A o \in Orders :
    hook[o]["paid"] = "processed" => payment[o] \in Settled /\ payoutRows[o] > 0

\* A refund event marked processed has landed, whatever runs, claims and crashes
\* came between: only a refund made in the panel before the API had recorded the
\* capture can be processed, and forgotten, before there is a payment to refund.
RefundLands ==
  \A o \in Orders :
    hook[o]["refunded"] = "processed" /\ ~early[o] => payment[o] = "refunded"

\* A reservation does not hold its units for ever, even when the request that
\* made it died.
ReservationResolved ==
  \A o \in Orders : order[o] = "pending_payment" ~> order[o] # "pending_payment"

\* A captured payment is eventually recorded, unless its event ended up failed.
CaptureRecorded ==
  \A o \in Orders :
    charge[o] = "captured" ~> (payment[o] \in Settled \/ hook[o]["paid"] = "failed")

\* Money the provider gave back on the store's request is eventually recorded
\* as given back, unless its event ended up failed.
RefundRecorded ==
  \A o \in Orders :
    charge[o] = "returned" ~> (payment[o] = "refunded" \/ hook[o]["refunded"] = "failed")
=============================================================================
