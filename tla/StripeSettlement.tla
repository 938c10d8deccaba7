-------------------------- MODULE StripeSettlement --------------------------
(***************************************************************************)
(* Who ends up with the money of a card payment.  The charge stays on the  *)
(* platform; a row stripe.transfer of the outbox sends the net amount to   *)
(* the store, and a refund returns the charge to the buyer and takes the   *)
(* transfer back from the store (ADR-029).  The two never speak to each    *)
(* other but through the outbox row and payments.stripe_transfer_id.       *)
(*                                                                         *)
(* The rows are relayed by OutboxRelay; here the branch stripe.transfer,   *)
(* one step there, is cut at its awaits, and the refund controller joins.  *)
(***************************************************************************)
EXTENDS OutboxRelay

CONSTANTS
  Payments,    \* card payments of one store, all recorded as paid
  PaymentOf,   \* the payment each row is to settle: two runs of one event make two rows
  Admins,      \* people of the store who may ask for a refund
  MaxAged      \* bound on the refund claims that go stale

ASSUME PaymentOfAssumption == PaymentOf \in [Rows -> Payments]
ASSUME MaxAgedAssumption == MaxAged \in Nat

VARIABLES
  chargeless,   \* cycles of a monthly donation whose invoice, of value zero, has no charge
  connected,    \* stores.stripe_account_id is set
  payment,      \* payments.status
  agedClaim,    \* payments.updated_at is older than STALE_REFUND_CLAIM_MS
  transferId,   \* payments.stripe_transfer_id is set
  stage,        \* where a tick stands inside the branch of a row
  refunding,    \* where an admin stands
  target,       \* the payment an admin wants to refund
  knew,         \* whether the admin's read of it found a transfer
  killed,       \* rows the refund closed
  held,         \* rows the relay gave up on because the store had no account
  transferred,  \* Stripe has made the transfer of the payment
  reversed,     \* the transfer was taken back
  unreturned,   \* taking it back failed, which is logged
  returned,     \* the charge was returned to the buyer
  raced,        \* a payout was out of the refund's reach when it closed the rows
  aged

storeVars == <<chargeless, connected>>
dbVars == <<storeVars, payment, agedClaim, transferId>>
adminVars == <<refunding, target, knew>>
stripeVars == <<transferred, reversed, unreturned, returned>>
historyVars == <<killed, held, raced, aged>>
settleVars == <<relayVars, dbVars, stage, adminVars, stripeVars, historyVars>>

Stage == {"start", "creating", "recording"}

Refunding == {"idle", "claiming", "killing", "reversing", "returning", "releasing"}

SettlementTypeOK ==
  /\ RelayTypeOK
  /\ chargeless \in SUBSET Payments /\ connected \in BOOLEAN
  /\ payment \in [Payments -> {"succeeded", "refund_pending", "refunded"}]
  /\ agedClaim \in [Payments -> BOOLEAN]
  /\ transferId \in [Payments -> BOOLEAN]
  /\ stage \in [Ticks -> [Rows -> Stage]]
  /\ refunding \in [Admins -> Refunding]
  /\ target \in [Admins -> Payments]
  /\ knew \in [Admins -> BOOLEAN]
  /\ killed \in SUBSET Rows /\ held \in SUBSET Rows
  /\ transferred \in [Payments -> BOOLEAN]
  /\ reversed \in [Payments -> BOOLEAN] /\ unreturned \in [Payments -> BOOLEAN]
  /\ returned \in [Payments -> BOOLEAN] /\ raced \in [Payments -> BOOLEAN]
  /\ aged \in 0..MaxAged

Never == [p \in Payments |-> FALSE]

SettlementInit ==
  /\ RelayInit
  /\ chargeless \in SUBSET Payments /\ connected \in BOOLEAN
  /\ payment = [p \in Payments |-> "succeeded"]
  /\ agedClaim = Never /\ transferId = Never
  /\ stage = [t \in Ticks |-> [e \in Rows |-> "start"]]
  /\ refunding = [a \in Admins |-> "idle"]
  /\ target \in [Admins -> Payments]
  /\ knew = [a \in Admins |-> FALSE]
  /\ killed = {} /\ held = {}
  /\ transferred = Never
  /\ reversed = Never /\ unreturned = Never /\ returned = Never /\ raced = Never
  /\ aged = 0

-----------------------------------------------------------------------------
(* The branch stripe.transfer of the relay.                                *)

StageGoes(t, e, s) == stage' = [stage EXCEPT ![t][e] = s]

\* The tick is on this row and on no other.
InBranch(t, e, s) ==
  /\ stage[t][e] = s
  /\ \A f \in Rows \ {e} : stage[t][f] = "start"

\* A payment whose refund was asked for is not paid out.
Faulty_Settled(p) == transferId[p] \/ payment[p] # "succeeded"

\* "repasse Stripe ja feito, nada a fazer".
Settled(p) == transferId[p]

\* payment.findUnique, with the store: the transfer is asked for on the strength
\* of this read.
PayoutReads(t, e) ==
  /\ InBranch(t, e, "start") /\ Turn(t, e)
  /\ ~Settled(PaymentOf[e]) /\ connected
  /\ StageGoes(t, e, "creating")
  /\ UNCHANGED <<relayVars, dbVars, adminVars, stripeVars, historyVars>>

PayoutSkipped(t, e) ==
  /\ InBranch(t, e, "start") /\ Settled(PaymentOf[e])
  /\ Deliver(t, e)
  /\ UNCHANGED <<dbVars, stage, adminVars, stripeVars, historyVars>>

\* "dinheiro retido na plataforma": an error is logged and the row is closed.
PayoutHeld(t, e) ==
  /\ InBranch(t, e, "start")
  /\ ~Settled(PaymentOf[e]) /\ ~connected
  /\ held' = held \cup {e}
  /\ Deliver(t, e)
  /\ UNCHANGED <<dbVars, stage, adminVars, stripeVars, killed, raced, aged>>

\* retrieveInvoiceChargeId finds none: "nada a repassar".
PayoutVoid(t, e) ==
  /\ stage[t][e] = "creating" /\ PaymentOf[e] \in chargeless
  /\ StageGoes(t, e, "start")
  /\ Deliver(t, e)
  /\ UNCHANGED <<dbVars, adminVars, stripeVars, historyVars>>

\* Under the key transfer:<payment id> a second call returns the first transfer.
CreateTransfer(p) ==
  /\ p \notin chargeless
  /\ transferred' = [transferred EXCEPT ![p] = TRUE]

PayoutMade(t, e) ==
  /\ stage[t][e] = "creating"
  /\ CreateTransfer(PaymentOf[e])
  /\ StageGoes(t, e, "recording")
  /\ UNCHANGED <<relayVars, dbVars, adminVars, reversed, unreturned, returned, historyVars>>

\* payment.update: the id of the transfer and the fee.
PayoutRecorded(t, e) ==
  /\ stage[t][e] = "recording"
  /\ transferId' = [transferId EXCEPT ![PaymentOf[e]] = TRUE]
  /\ agedClaim' = [agedClaim EXCEPT ![PaymentOf[e]] = FALSE]
  /\ StageGoes(t, e, "start")
  /\ Deliver(t, e)
  /\ UNCHANGED <<storeVars, payment, adminVars, stripeVars, historyVars>>

\* That the transfer could not be put on record is logged and forgotten.
Faulty_PayoutFails(t, e) ==
  /\ InBranch(t, e, stage[t][e])
  /\ StageGoes(t, e, "start")
  /\ IF stage[t][e] = "recording" THEN Deliver(t, e) ELSE DeliverFails(t, e)
  /\ UNCHANGED <<dbVars, adminVars, stripeVars, historyVars>>

\* A call of the branch throws, the transfer having been made or not.
PayoutFails(t, e) ==
  /\ InBranch(t, e, stage[t][e])
  /\ \/ UNCHANGED transferred
     \/ stage[t][e] = "creating" /\ CreateTransfer(PaymentOf[e])
  /\ StageGoes(t, e, "start")
  /\ DeliverFails(t, e)
  /\ UNCHANGED <<dbVars, adminVars, reversed, unreturned, returned, historyVars>>

\* The steps of the relay around the branch.
AroundBranch(t) ==
  \/ Reap(t) \/ ReadCandidates(t) \/ Claim(t) \/ Reread(t) \/ TickEnds(t)
  \/ \E e \in Rows : MarkProcessed(t, e) \/ MarkThrows(t, e) \/ MarkFailed(t, e)

RelayGoesOn ==
  /\ \/ \E t \in Ticks : AroundBranch(t)
     \/ \E e \in Rows : CreateRow(e) \/ ClaimAges(e)
  /\ UNCHANGED <<dbVars, stage, adminVars, stripeVars, historyVars>>

\* attachStripeAccount: an account once set is never taken away again.
Connect ==
  /\ ~connected /\ connected' = TRUE
  /\ UNCHANGED <<relayVars, chargeless, payment, agedClaim, transferId, stage, adminVars,
                 stripeVars, historyVars>>

TickDies(t) ==
  /\ Crash(t)
  /\ stage' = [stage EXCEPT ![t] = [e \in Rows |-> "start"]]
  /\ UNCHANGED <<dbVars, adminVars, stripeVars, historyVars>>

-----------------------------------------------------------------------------
(* The refund controller.                                                  *)

AdminGoes(a, s) == refunding' = [refunding EXCEPT ![a] = s]

SetStatus(p, s) ==
  /\ payment' = [payment EXCEPT ![p] = s]
  /\ agedClaim' = [agedClaim EXCEPT ![p] = FALSE]

\* Reads the payment: what it says of the transfer is used until the end.  Only an
\* order is refunded here, and an order has its charge.
AskRefund(a, p) ==
  /\ refunding[a] = "idle" /\ p \notin chargeless
  /\ payment[p] \in {"succeeded", "refund_pending"}
  /\ target' = [target EXCEPT ![a] = p]
  /\ knew' = [knew EXCEPT ![a] = transferId[p]]
  /\ AdminGoes(a, "claiming")
  /\ UNCHANGED <<relayVars, dbVars, stage, stripeVars, historyVars>>

TakeClaim(a) ==
  LET p == target[a]
      free == payment[p] = "succeeded" \/ (payment[p] = "refund_pending" /\ agedClaim[p])
  IN  /\ refunding[a] = "claiming"
      /\ \/ /\ free
            /\ SetStatus(p, "refund_pending")
            /\ AdminGoes(a, IF knew[a] THEN "reversing" ELSE "killing")
         \/ ~free /\ AdminGoes(a, "idle") /\ UNCHANGED <<payment, agedClaim>>
      /\ UNCHANGED <<relayVars, storeVars, transferId, stage, target, knew, stripeVars,
                 historyVars>>

\* A row that has been tried before is forgotten.
Faulty_KillableUntried(e) == status[e] = "pending" /\ claimedBy[e] = Nobody

Killable(e) == status[e] = "pending"

\* A tick of the relay has the row in hand, be it still the row's owner or not.
InHand(e) == \E t \in Ticks : work[t][e] # "none"

\* A payout of p that closing its rows does not stop: made since the admin's read,
\* not queued yet, or claimed by a tick, which may be slower than its claim.
OutOfReach(p) ==
  \/ transferId[p] \/ transferred[p]
  \/ \E e \in Rows : /\ PaymentOf[e] = p
                     /\ status[e] \in {"none", "processing"} \/ InHand(e)

\* "matar o evento pendente": closes what the relay has not claimed.
KillPayout(a) ==
  LET p == target[a]
      dead == {e \in Rows : PaymentOf[e] = p /\ Killable(e)}
  IN  /\ refunding[a] = "killing"
      /\ status' = [e \in Rows |-> IF e \in dead THEN "processed" ELSE status[e]]
      /\ killed' = killed \cup dead
      /\ raced' = [raced EXCEPT ![p] = @ \/ OutOfReach(p)]
      /\ AdminGoes(a, "returning")
      /\ UNCHANGED <<claimedBy, stale, attempts, effects, phase, ids, work, seen,
                     faults, slow>>
      /\ UNCHANGED <<dbVars, stage, target, knew, stripeVars, held, aged>>

\* The store may have spent the money: the failure is logged and the refund
\* goes on.
ReverseTransfer(a) ==
  LET p == target[a]
  IN  /\ refunding[a] = "reversing"
      /\ \/ reversed' = [reversed EXCEPT ![p] = TRUE] /\ UNCHANGED unreturned
         \/ unreturned' = [unreturned EXCEPT ![p] = TRUE] /\ UNCHANGED reversed
      /\ AdminGoes(a, "returning")
      /\ UNCHANGED <<relayVars, dbVars, stage, target, knew, transferred, returned, historyVars>>

ReturnCharge(a) ==
  /\ refunding[a] = "returning"
  /\ returned' = [returned EXCEPT ![target[a]] = TRUE]
  /\ AdminGoes(a, "idle")
  /\ UNCHANGED <<relayVars, dbVars, stage, target, knew, transferred, reversed, unreturned,
                 historyVars>>

\* The statement that closes the rows throws, or the call that returns the
\* charge does, having returned it or not.
RefundThrows(a) ==
  /\ \/ refunding[a] = "killing" /\ UNCHANGED returned
     \/ /\ refunding[a] = "returning"
        /\ \/ UNCHANGED returned
           \/ returned' = [returned EXCEPT ![target[a]] = TRUE]
  /\ AdminGoes(a, "releasing")
  /\ UNCHANGED <<relayVars, dbVars, stage, target, knew, transferred, reversed, unreturned,
                 historyVars>>

ReleaseClaim(a) ==
  /\ refunding[a] = "releasing"
  /\ \/ payment[target[a]] = "refund_pending" /\ SetStatus(target[a], "succeeded")
     \/ payment[target[a]] # "refund_pending" /\ UNCHANGED <<payment, agedClaim>>
  /\ AdminGoes(a, "idle")
  /\ UNCHANGED <<relayVars, storeVars, transferId, stage, target, knew, stripeVars,
                 historyVars>>

AdminDies(a) ==
  /\ refunding[a] # "idle"
  /\ faults < MaxFaults /\ faults' = faults + 1
  /\ AdminGoes(a, "idle")
  /\ UNCHANGED <<rowVars, effects, phase, ids, work, seen, slow>>
  /\ UNCHANGED <<dbVars, stage, target, knew, stripeVars, historyVars>>

\* The webhook that tells of the refund is processed.
RefundConfirmed(p) ==
  /\ returned[p] /\ payment[p] # "refunded"
  /\ SetStatus(p, "refunded")
  /\ UNCHANGED <<relayVars, storeVars, transferId, stage, adminVars, stripeVars, historyVars>>

\* Fifteen minutes pass.
RefundClaimAges(p) ==
  /\ payment[p] = "refund_pending" /\ ~agedClaim[p]
  /\ aged < MaxAged /\ aged' = aged + 1
  /\ agedClaim' = [agedClaim EXCEPT ![p] = TRUE]
  /\ UNCHANGED <<relayVars, storeVars, payment, transferId, stage, adminVars, stripeVars,
                 killed, held, raced>>

-----------------------------------------------------------------------------
BranchStep(t) ==
  \E e \in Rows : \/ PayoutReads(t, e) \/ PayoutSkipped(t, e) \/ PayoutHeld(t, e)
                  \/ PayoutVoid(t, e) \/ PayoutMade(t, e) \/ PayoutRecorded(t, e)
                  \/ PayoutFails(t, e)

AdminStep(a) ==
  \/ TakeClaim(a) \/ KillPayout(a) \/ ReverseTransfer(a) \/ ReturnCharge(a)
  \/ RefundThrows(a) \/ ReleaseClaim(a)

SettlementNext ==
  \/ RelayGoesOn \/ Connect
  \/ \E t \in Ticks : BranchStep(t) \/ TickDies(t)
  \/ \E a \in Admins : \/ AdminStep(a) \/ AdminDies(a)
                       \/ \E p \in Payments : AskRefund(a, p)
  \/ \E p \in Payments : RefundConfirmed(p) \/ RefundClaimAges(p)

SettlementSpec == SettlementInit /\ [][SettlementNext]_settleVars

-----------------------------------------------------------------------------
(* Properties.                                                             *)

\* A transfer that was made is on record, or a row of its payment is still there to
\* find it under its key and record it; else the store's account was missing when a
\* tick looked, or a refund closed the row of a payout that was under way.
MadeIsRecorded ==
  \A p \in Payments :
    transferred[p] /\ ~transferId[p] =>
      \/ raced[p]
      \/ \E e \in Rows : PaymentOf[e] = p /\ (status[e] # "processed" \/ e \in held)

\* A row the refund has closed pays nothing any more, unless a payout of its payment
\* was out of reach at that moment: no tick that listed it before claims it, and
\* none comes late to put it back.
KilledRowsStayDead ==
  [][\A e \in killed :
       ~raced[PaymentOf[e]] =>
         status'[e] = "processed" /\ effects'[e] = effects[e]]_settleVars

\* The store keeps the money of a returned charge only if taking it back failed,
\* which is logged, or if a payout was out of the refund's reach when it closed the
\* rows.
KeptOnlyIfRaced ==
  \A p \in Payments :
    returned[p] /\ transferred[p] /\ ~reversed[p] => unreturned[p] \/ raced[p]

\* A row that is processed and was not closed by a refund has paid the store and
\* said so, also when the refund was asked for meanwhile and came to nothing; or
\* there was nothing to pay, or no account to pay it to (test/e2e/workers.test.ts:194
\* and :220 expect these two).
ProcessedMeansPaid ==
  \A e \in Rows :
    status[e] = "processed" /\ e \notin killed =>
      \/ transferred[PaymentOf[e]] /\ transferId[PaymentOf[e]]
      \/ PaymentOf[e] \in chargeless \/ e \in held

\* "perder o repasse e perder dinheiro de outra pessoa" (payment-routing.ts:129):
\* when a refund has come to nothing, the store has its money or a row owes it; or
\* there was nothing to pay, or no account to pay it to.
PayoutNotForgotten ==
  \A p \in Payments \ chargeless :
    /\ payment[p] = "succeeded" /\ ~returned[p]
    /\ \A e \in held : PaymentOf[e] # p
    /\ \A a \in Admins : refunding[a] = "idle"
    => \/ transferred[p] /\ ~reversed[p]
       \/ \E e \in Rows : PaymentOf[e] = p /\ status[e] # "processed"
=============================================================================
