------------------------------ MODULE Donations ------------------------------
(***************************************************************************)
(* Donations, single and monthly: the request that creates one             *)
(* (create-donation.service.ts), the provider, the webhooks it sends and   *)
(* the runs of processWebhookEvents that apply them, the cancellation of a *)
(* subscription, and the expiry worker.                                    *)
(*                                                                         *)
(* A charge is <<g, 0>> for the single payment of gift g, and <<g, i>> for *)
(* the i-th invoice of its subscription.  A row of donations is <<g, 0>>   *)
(* for the one the request creates (the anchor of a subscription) and      *)
(* <<g, i>> for the one that a later invoice i creates.                    *)
(***************************************************************************)
EXTENDS Naturals, FiniteSets

CONSTANTS
  Cards, Pixes, Monthlies,  \* gifts, by how they are paid
  Runs,                     \* concurrent runs of processWebhookEvents
  Cancellers,               \* requests to cancel a subscription
  MaxGifts,                 \* bound on the gifts of a behaviour
  MaxCycles,                \* bound on the invoices of a subscription
  MaxRefunds,               \* bound on the charges the provider gives back
  MaxFaults                 \* bound on crashes and errors of the database

Gifts  == Cards \cup Pixes \cup Monthlies
Cycles == 1..MaxCycles

ASSUME GiftsAssumption ==
  /\ Cards \cap Pixes = {} /\ Cards \cap Monthlies = {} /\ Pixes \cap Monthlies = {}
  /\ MaxCycles \in Nat /\ MaxFaults \in Nat /\ MaxGifts \in Nat /\ MaxRefunds \in Nat

Rows    == (Gifts \X {0}) \cup (Monthlies \X Cycles)
Charges == {<<g, 0>> : g \in Cards \cup Pixes} \cup (Monthlies \X Cycles)
Anchor(g) == <<g, 0>>

VARIABLES
  request,   \* where the request that creates the gift stands
  status,    \* donations.status, "none" before the row exists
  payment,   \* payments.status of the row
  first,     \* donations.provider_invoice_id of the anchor, 0 while null
  linked,    \* gifts whose donations.subscription_ref is stored
  ended,     \* rows with donations.subscription_cancelled_at
  offer,     \* the PaymentIntent, Pix charge or subscription at the provider
  taken,     \* charges the provider captured
  repaid,    \* charges the provider gave back
  hook,      \* webhook_events.status of each event the provider may send
  job,       \* where each run stands
  cancelling,\* where each request to cancel stands
  told,      \* the outbox rows written about each charge
  queued,    \* charges whose payout to the store was queued
  outrun,    \* history: invoices that found the anchor claimed by another one
  faults

vars == <<request, status, payment, first, linked, ended, offer, taken, repaid, hook, job,
          cancelling, told, queued, outrun, faults>>

rowVars      == <<status, payment, first, linked, ended>>
providerVars == <<offer, taken, repaid>>
hookVars     == <<hook, job>>
moneyVars    == <<told, queued, outrun>>

-----------------------------------------------------------------------------
Events == [type : {"paid", "refunded"}, charge : Charges]
          \cup [type : {"closed"}, charge : {<<g, 0>> : g \in Cards \cup Pixes}]
          \cup [type : {"deleted"}, charge : {<<g, 0>> : g \in Monthlies}]

GiftOf(e)  == e.charge[1]
CycleOf(e) == e.charge[2]

Statuses == {"none", "pending_payment", "paid", "cancelled", "refunded"}
Payments == {"none", "pending", "succeeded", "failed", "expired", "refunded"}
Steps    == {"look", "claim", "child", "apply", "payout", "finish"}
Idle     == [step |-> "idle"]

DonationsTypeOK ==
  /\ request \in [Gifts -> {"idle", "charging", "attaching", "linking", "answered",
                            "failing", "over"}]
  /\ status \in [Rows -> Statuses]
  /\ payment \in [Rows -> Payments]
  /\ first \in [Gifts -> 0..MaxCycles]
  /\ linked \subseteq Monthlies /\ ended \subseteq Rows
  /\ offer \in [Gifts -> {"none", "open", "active", "closed"}]
  /\ taken \subseteq Charges /\ repaid \subseteq taken
  /\ hook \in [Events -> {"none", "received", "processed", "failed"}]
  /\ job \in [Runs -> {Idle} \cup [step : Steps, event : Events]]
  /\ cancelling \in [Cancellers -> {"idle", "asking", "marking"} \X Gifts]
  /\ told \in [Charges -> {"nothing", "received", "orphaned", "again"}]
  /\ queued \subseteq Charges /\ outrun \subseteq Charges
  /\ faults \in 0..MaxFaults

DonationsInit ==
  /\ request = [g \in Gifts |-> "idle"]
  /\ status = [r \in Rows |-> "none"]
  /\ payment = [r \in Rows |-> "none"]
  /\ first = [g \in Gifts |-> 0]
  /\ linked = {} /\ ended = {}
  /\ offer = [g \in Gifts |-> "none"]
  /\ taken = {} /\ repaid = {}
  /\ hook = [e \in Events |-> "none"]
  /\ job = [w \in Runs |-> Idle]
  /\ cancelling \in [Cancellers -> {"idle"} \X Gifts]
  /\ told = [c \in Charges |-> "nothing"]
  /\ queued = {} /\ outrun = {}
  /\ faults = 0

Fault == faults < MaxFaults /\ faults' = faults + 1

-----------------------------------------------------------------------------
(* The request that creates a gift.  Nobody can pay before it answers: the *)
(* client secret, or the Pix code and the token of the receipt, travel in  *)
(* the answer.                                                             *)

Goto(g, step) == request' = [request EXCEPT ![g] = step]

createPendingDonation(g) ==
  /\ request[g] = "idle"
  /\ Cardinality({h \in Gifts : request[h] # "idle"}) < MaxGifts
  /\ status' = [status EXCEPT ![Anchor(g)] = "pending_payment"]
  /\ payment' = [payment EXCEPT ![Anchor(g)] = "pending"]
  /\ Goto(g, "charging")
  /\ UNCHANGED <<first, linked, ended, providerVars, hookVars, cancelling, moneyVars, faults>>

createCharge(g) ==
  /\ request[g] = "charging"
  /\ offer' = [offer EXCEPT ![g] = "open"]
  /\ Goto(g, "attaching")
  /\ UNCHANGED <<rowVars, taken, repaid, hookVars, cancelling, moneyVars, faults>>

(* Mutant: a monthly gift answers before its reference is stored.           *)
Faulty_attachProviderId(g) ==
  /\ request[g] = "attaching"
  /\ Goto(g, IF g \in Pixes THEN "linking" ELSE "answered")
  /\ UNCHANGED <<rowVars, providerVars, hookVars, cancelling, moneyVars, faults>>

(* The id is written over whatever the payment has: only the refund of a   *)
(* single card gift looks it up, and markPaid writes the same one.         *)
attachProviderId(g) ==
  /\ request[g] = "attaching"
  /\ Goto(g, IF g \in Cards THEN "answered" ELSE "linking")
  /\ UNCHANGED <<rowVars, providerVars, hookVars, cancelling, moneyVars, faults>>

attachPixCharge(g) ==
  /\ request[g] = "linking" /\ g \in Pixes
  /\ Goto(g, "answered")
  /\ UNCHANGED <<rowVars, providerVars, hookVars, cancelling, moneyVars, faults>>

attachSubscriptionRef(g) ==
  /\ request[g] = "linking" /\ g \in Monthlies
  /\ linked' = linked \cup {g}
  /\ Goto(g, "answered")
  /\ UNCHANGED <<status, payment, first, ended, providerVars, hookVars, cancelling, moneyVars,
                 faults>>

(* One of the awaits of the try block throws; a call to the provider that  *)
(* throws may have taken effect there.                                     *)
requestThrows(g) ==
  /\ request[g] \in {"charging", "attaching", "linking"}
  /\ Goto(g, "failing")
  /\ \/ UNCHANGED offer
     \/ request[g] = "charging" /\ offer' = [offer EXCEPT ![g] = "open"]
  /\ UNCHANGED <<rowVars, taken, repaid, hookVars, cancelling, moneyVars, faults>>

(* A pending row and its pending payment are closed together.              *)
CancelPending(g, paymentStatus) ==
  /\ status[Anchor(g)] = "pending_payment"
  /\ status' = [status EXCEPT ![Anchor(g)] = "cancelled"]
  /\ payment' = [payment EXCEPT ![Anchor(g)] = IF @ = "pending" THEN paymentStatus ELSE @]

compensateFailedDonation(g) ==
  /\ request[g] = "failing"
  /\ \/ CancelPending(g, "failed")
     \/ status[Anchor(g)] # "pending_payment" /\ UNCHANGED <<status, payment>>
  /\ Goto(g, "over")
  /\ UNCHANGED <<first, linked, ended, providerVars, hookVars, cancelling, moneyVars, faults>>

requestCrash(g) ==
  /\ request[g] \in {"charging", "attaching", "linking", "failing"}
  /\ Fault
  /\ Goto(g, "over")
  /\ UNCHANGED <<rowVars, providerVars, hookVars, cancelling, moneyVars>>

(* The expiry worker; a monthly gift has no expires_at.                    *)
expireDonation(g) ==
  /\ g \notin Monthlies
  /\ CancelPending(g, "expired")
  /\ UNCHANGED <<request, first, linked, ended, providerVars, hookVars, cancelling, moneyVars,
                 faults>>

-----------------------------------------------------------------------------
(* The donor and the provider.                                             *)

pay(g) ==
  /\ g \notin Monthlies
  /\ request[g] = "answered" /\ offer[g] = "open"
  /\ offer' = [offer EXCEPT ![g] = "closed"]
  /\ taken' = taken \cup {<<g, 0>>}
  /\ UNCHANGED <<request, rowVars, repaid, hookVars, cancelling, moneyVars, faults>>

(* The first invoice is paid with the client secret, the next ones follow  *)
(* month by month while the subscription lives.                            *)
payInvoice(g, i) ==
  /\ g \in Monthlies
  /\ request[g] = "answered" /\ offer[g] \in {"open", "active"}
  /\ <<g, i>> \notin taken
  /\ i > 1 => <<g, i - 1>> \in taken
  /\ offer' = [offer EXCEPT ![g] = "active"]
  /\ taken' = taken \cup {<<g, i>>}
  /\ UNCHANGED <<request, rowVars, repaid, hookVars, cancelling, moneyVars, faults>>

(* A charge expires or is canceled, a subscription ends at the provider.   *)
providerCloses(g) ==
  /\ offer[g] \in {"open", "active"}
  /\ offer' = [offer EXCEPT ![g] = "closed"]
  /\ UNCHANGED <<request, rowVars, taken, repaid, hookVars, cancelling, moneyVars, faults>>

(* The API never asks for the refund of a donation: it is made outside.    *)
providerRefunds(c) ==
  /\ c \in taken \ repaid
  /\ Cardinality(repaid) < MaxRefunds
  /\ repaid' = repaid \cup {c}
  /\ UNCHANGED <<request, rowVars, offer, taken, hookVars, cancelling, moneyVars, faults>>

(* What the provider has to tell, in any order and after any delay.        *)
Happened(e) ==
  CASE e.type = "paid"     -> e.charge \in taken
    [] e.type = "refunded" -> e.charge \in repaid
    [] OTHER               -> offer[GiftOf(e)] = "closed" /\ e.charge \notin taken

receiveEvent(e) ==
  /\ hook[e] = "none"
  /\ Happened(e)
  /\ hook' = [hook EXCEPT ![e] = "received"]
  /\ UNCHANGED <<request, rowVars, providerVars, job, cancelling, moneyVars, faults>>

-----------------------------------------------------------------------------
(* A run of processWebhookEvents on one event.                             *)

At(w, step, type) == job[w].step = step /\ job[w].event.type = type

Move(w, step) == job' = [job EXCEPT ![w].step = step]

(* An event of a subscription whose reference no donation has is not one   *)
(* of a donation.                                                          *)
isDonationSubscription(g) == g \in linked

FirstStep(e) ==
  CASE GiftOf(e) \in Monthlies /\ e.type \in {"paid", "deleted"}
            /\ ~isDonationSubscription(GiftOf(e))    -> "finish"
    [] GiftOf(e) \in Monthlies /\ e.type = "paid"    -> "look"
    [] OTHER                                         -> "apply"

pickEvent(w, e) ==
  /\ job[w] = Idle
  /\ hook[e] = "received"
  /\ job' = [job EXCEPT ![w] = [step |-> FirstStep(e), event |-> e]]
  /\ UNCHANGED <<request, rowVars, providerVars, hook, cancelling, moneyVars, faults>>

(* Every announcement writes its outbox rows again.                        *)
Tell(c, news) == told' = [told EXCEPT ![c] = IF @ = "nothing" THEN news ELSE "again"]

(* Mutant: the claim forgets which payments still wait for their money.     *)
Faulty_markPaid(g) ==
  /\ payment' = [payment EXCEPT ![Anchor(g)] = "succeeded"]
  /\ IF status[Anchor(g)] = "pending_payment"
     THEN /\ status' = [status EXCEPT ![Anchor(g)] = "paid"]
          /\ Tell(<<g, 0>>, "received")
     ELSE /\ Tell(<<g, 0>>, "orphaned")
          /\ UNCHANGED status

(* The payment of a single gift is claimed first, and the gift follows if  *)
(* it still waits for it.                                                  *)
markPaid(g) ==
  IF payment[Anchor(g)] \in {"pending", "expired", "failed"}
  THEN /\ payment' = [payment EXCEPT ![Anchor(g)] = "succeeded"]
       /\ IF status[Anchor(g)] = "pending_payment"
          THEN /\ status' = [status EXCEPT ![Anchor(g)] = "paid"]
               /\ Tell(<<g, 0>>, "received")
          ELSE /\ Tell(<<g, 0>>, "orphaned")
               /\ UNCHANGED status
  ELSE UNCHANGED <<payment, status, told>>

applyPaid(w) ==
  /\ At(w, "apply", "paid")
  /\ markPaid(GiftOf(job[w].event))
  /\ Move(w, "payout")
  /\ UNCHANGED <<request, first, linked, ended, providerVars, hook, cancelling, queued, outrun,
                 faults>>

(* The row that an invoice has already been booked on, if any.             *)
BookedOn(g, i) == {r \in Rows : /\ r[1] = g
                                /\ \/ r = Anchor(g) /\ first[g] = i
                                   \/ r = <<g, i>> /\ status[r] # "none"}

(* markSubscriptionInvoicePaid reads whether the invoice is booked, and    *)
(* whether the anchor still waits.  The two reads are one step: an invoice *)
(* booked between them is refused by the unique index, in createChild.     *)
lookAtAnchor(w) ==
  /\ At(w, "look", "paid")
  /\ LET g == GiftOf(job[w].event)
         i == CycleOf(job[w].event)
     IN Move(w, IF BookedOn(g, i) # {} THEN "payout"
                ELSE IF status[Anchor(g)] = "pending_payment" THEN "claim" ELSE "child")
  /\ UNCHANGED <<request, rowVars, providerVars, hook, cancelling, moneyVars, faults>>

(* Mutant: the claim does not store the invoice on the anchor.              *)
Faulty_claimAnchor(w) ==
  /\ At(w, "claim", "paid")
  /\ LET g == GiftOf(job[w].event)
     IN IF status[Anchor(g)] = "pending_payment"
        THEN /\ status' = [status EXCEPT ![Anchor(g)] = "paid"]
             /\ payment' = [payment EXCEPT ![Anchor(g)] = "succeeded"]
             /\ Tell(job[w].event.charge, "received")
        ELSE UNCHANGED <<status, payment, told>>
  /\ Move(w, "payout")
  /\ UNCHANGED <<request, first, linked, ended, providerVars, hook, cancelling, queued, outrun,
                 faults>>

(* A claim that comes too late gives up, whichever invoice came first.     *)
claimAnchor(w) ==
  /\ At(w, "claim", "paid")
  /\ LET g == GiftOf(job[w].event)
         i == CycleOf(job[w].event)
     IN IF status[Anchor(g)] = "pending_payment"
        THEN /\ status' = [status EXCEPT ![Anchor(g)] = "paid"]
             /\ first' = [first EXCEPT ![g] = i]
             /\ payment' = [payment EXCEPT ![Anchor(g)] =
                              IF @ \in {"pending", "failed", "expired"} THEN "succeeded" ELSE @]
             /\ Tell(<<g, i>>, "received")
             /\ UNCHANGED outrun
        ELSE /\ outrun' = IF first[g] = i THEN outrun ELSE outrun \cup {<<g, i>>}
             /\ UNCHANGED <<status, first, payment, told>>
  /\ Move(w, "payout")
  /\ UNCHANGED <<request, linked, ended, providerVars, hook, cancelling, queued, faults>>

(* provider_invoice_id is unique: the second of two children is refused.   *)
createChild(w) ==
  /\ At(w, "child", "paid")
  /\ LET g == GiftOf(job[w].event)
         i == CycleOf(job[w].event)
     IN IF BookedOn(g, i) = {}
        THEN /\ status' = [status EXCEPT ![<<g, i>>] = "paid"]
             /\ payment' = [payment EXCEPT ![<<g, i>>] = "succeeded"]
             /\ Tell(<<g, i>>, "received")
        ELSE UNCHANGED <<status, payment, told>>
  /\ Move(w, "payout")
  /\ UNCHANGED <<request, first, linked, ended, providerVars, hook, cancelling, queued, outrun,
                 faults>>

(* The payout of an invoice is queued only if a payment carries its id.    *)
enqueueTransfer(w) ==
  /\ At(w, "payout", "paid")
  /\ LET e == job[w].event
     IN IF GiftOf(e) \in Monthlies /\ BookedOn(GiftOf(e), CycleOf(e)) = {}
        THEN UNCHANGED queued
        ELSE queued' = queued \cup {e.charge}
  /\ Move(w, "finish")
  /\ UNCHANGED <<request, rowVars, providerVars, hook, cancelling, told, outrun, faults>>

applyClosed(w) ==
  /\ At(w, "apply", "closed")
  /\ LET g == GiftOf(job[w].event)
     IN \/ CancelPending(g, IF g \in Pixes THEN "expired" ELSE "failed")
        \/ status[Anchor(g)] # "pending_payment" /\ UNCHANGED <<status, payment>>
  /\ Move(w, "finish")
  /\ UNCHANGED <<request, first, linked, ended, providerVars, hook, cancelling, moneyVars, faults>>

(* The payment is found by the intent, by the invoice or by its own id.    *)
PaidRows(c) == IF c[2] = 0 THEN {c} ELSE BookedOn(c[1], c[2])

markRefunded(w) ==
  /\ At(w, "apply", "refunded")
  /\ LET R == {r \in PaidRows(job[w].event.charge) : payment[r] = "succeeded"}
     IN /\ payment' = [r \in Rows |-> IF r \in R THEN "refunded" ELSE payment[r]]
        /\ status' = [r \in Rows |-> IF r \in R /\ status[r] = "paid" THEN "refunded"
                                     ELSE status[r]]
  /\ Move(w, "finish")
  /\ UNCHANGED <<request, first, linked, ended, providerVars, hook, cancelling, moneyVars, faults>>

(* Every row of the subscription not yet marked is.                        *)
markSubscriptionCancelled(g) ==
  ended' = ended \cup {r \in Rows : r[1] = g /\ status[r] # "none"}

applyDeleted(w) ==
  /\ At(w, "apply", "deleted")
  /\ markSubscriptionCancelled(GiftOf(job[w].event))
  /\ Move(w, "finish")
  /\ UNCHANGED <<request, status, payment, first, linked, providerVars, hook, cancelling,
                 moneyVars, faults>>

finishEvent(w) ==
  /\ job[w].step = "finish"
  /\ hook' = [hook EXCEPT ![job[w].event] = "processed"]
  /\ job' = [job EXCEPT ![w] = Idle]
  /\ UNCHANGED <<request, rowVars, providerVars, cancelling, moneyVars, faults>>

(* An error of the database ends the event for good.                       *)
eventFails(w) ==
  /\ job[w] # Idle
  /\ Fault
  /\ hook' = [hook EXCEPT ![job[w].event] = "failed"]
  /\ job' = [job EXCEPT ![w] = Idle]
  /\ UNCHANGED <<request, rowVars, providerVars, cancelling, moneyVars>>

runDies(w) ==
  /\ job[w] # Idle
  /\ Fault
  /\ job' = [job EXCEPT ![w] = Idle]
  /\ UNCHANGED <<request, rowVars, providerVars, hook, cancelling, moneyVars>>

-----------------------------------------------------------------------------
(* The cancellation of a subscription, by the donor or by the store: read, *)
(* ask the provider, mark.                                                 *)

cancelRead(k, g) ==
  /\ cancelling[k][1] = "idle"
  /\ g \in linked /\ Anchor(g) \notin ended
  /\ cancelling' = [cancelling EXCEPT ![k] = <<"asking", g>>]
  /\ UNCHANGED <<request, rowVars, providerVars, hookVars, moneyVars, faults>>

cancelAtProvider(k) ==
  /\ cancelling[k][1] = "asking"
  /\ LET g == cancelling[k][2]
     IN /\ offer[g] \in {"open", "active"}
        /\ offer' = [offer EXCEPT ![g] = "closed"]
        /\ cancelling' = [cancelling EXCEPT ![k] = <<"marking", g>>]
  /\ UNCHANGED <<request, rowVars, taken, repaid, hookVars, moneyVars, faults>>

cancelMark(k) ==
  /\ cancelling[k][1] = "marking"
  /\ markSubscriptionCancelled(cancelling[k][2])
  /\ cancelling' = [cancelling EXCEPT ![k][1] = "idle"]
  /\ UNCHANGED <<request, status, payment, first, linked, providerVars, hookVars, moneyVars, faults>>

(* The provider throws, also because the subscription is already over; or  *)
(* the process dies before the mark.                                       *)
cancelFails(k) ==
  /\ \/ cancelling[k][1] = "asking" /\ UNCHANGED faults
     \/ cancelling[k][1] = "marking" /\ Fault
  /\ cancelling' = [cancelling EXCEPT ![k][1] = "idle"]
  /\ UNCHANGED <<request, rowVars, providerVars, hookVars, moneyVars>>

-----------------------------------------------------------------------------
RunStep(w) ==
  \/ applyPaid(w) \/ lookAtAnchor(w) \/ claimAnchor(w) \/ createChild(w) \/ enqueueTransfer(w)
  \/ applyClosed(w) \/ markRefunded(w) \/ applyDeleted(w) \/ finishEvent(w)

DonationsNext ==
  \/ \E g \in Gifts :
       \/ createPendingDonation(g) \/ createCharge(g) \/ attachProviderId(g)
       \/ attachPixCharge(g) \/ attachSubscriptionRef(g) \/ requestThrows(g)
       \/ compensateFailedDonation(g) \/ requestCrash(g) \/ expireDonation(g)
       \/ pay(g) \/ providerCloses(g)
       \/ \E i \in Cycles : payInvoice(g, i)
  \/ \E c \in Charges : providerRefunds(c)
  \/ \E e \in Events : receiveEvent(e) \/ \E w \in Runs : pickEvent(w, e)
  \/ \E w \in Runs : RunStep(w) \/ eventFails(w) \/ runDies(w)
  \/ \E k \in Cancellers :
       \/ \E g \in Monthlies : cancelRead(k, g)
       \/ cancelAtProvider(k) \/ cancelMark(k) \/ cancelFails(k)

DonationsSpec == DonationsInit /\ [][DonationsNext]_vars

-----------------------------------------------------------------------------
(* The charge that a row was booked for, and what a campaign counts.       *)
ChargeOf(r) == IF r[1] \in Monthlies /\ r[2] = 0 THEN <<r[1], first[r[1]]>> ELSE r

progressFor == {r \in Rows : status[r] = "paid"}

(* Donations keep the promise of the ledger: money is announced when it    *)
(* was taken and once, as a gift or as an orphan, and is recorded as given *)
(* back at most once and only after it was announced, however often        *)
(* webhooks are delivered, processed at once or cut short.                 *)
Returned == {c \in Charges : \E r \in Rows : payment[r] = "refunded" /\ ChargeOf(r) = c}

L == INSTANCE Ledger WITH Charges <- Charges, taken <- taken, told <- told, returned <- Returned

LedgerKept == L!Spec

(* What a campaign says it raised (campaigns.repository.ts:143) is money   *)
(* that was really taken, is held by a payment that says so, and counts    *)
(* once: no invoice is booked on two rows.                                 *)
CountedIsHeld ==
  /\ \A r \in progressFor : payment[r] = "succeeded" /\ ChargeOf(r) \in taken
  /\ \A r, s \in progressFor : ChargeOf(r) = ChargeOf(s) => r = s

(* A processed payment event is booked, and its payout to the store is     *)
(* queued.  Only an invoice that raced another one of the same             *)
(* subscription for the anchor is marked processed and lost                *)
(* (donations.repository.ts:302).                                          *)
ProcessedIsBooked ==
  \A e \in Events :
    e.type = "paid" /\ hook[e] = "processed" =>
      \/ e.charge \in outrun
      \/ told[e.charge] # "nothing" /\ e.charge \in queued

=============================================================================
