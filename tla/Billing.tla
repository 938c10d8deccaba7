------------------------------- MODULE Billing -------------------------------
(***************************************************************************)
(* The subscription a store pays the platform with, and the status of the  *)
(* store that follows from it (src/src/http/api/billing,                   *)
(* src/src/workers/billing-webhook.ts, update-store-status).               *)
(*                                                                         *)
(* Stripe may hold several subscriptions of one store; each change of one  *)
(* sends an event with the state after it.  Events are delivered in any    *)
(* order, and two workers may apply two of them at once: a worker reads    *)
(* the row of the store, then writes the row and the store.                *)
(***************************************************************************)
EXTENDS Integers, FiniteSets, Functions

CONSTANTS
  Subs,         \* subscriptions at Stripe that carry the store's id
  Workers,      \* processors of webhook events
  MaxPeriod,    \* current_period_end, as a number of billing periods
  MaxChanges,   \* changes at Stripe
  MaxDecisions  \* decisions of a platform administrator

ASSUME BillingAssumption == MaxPeriod \in Nat \ {0} /\ MaxChanges \in Nat /\ MaxDecisions \in Nat

VARIABLES
  sub,       \* Stripe: each subscription
  changes,
  undelivered, \* stored webhook events not applied yet
  apply,     \* what each worker is applying
  row,       \* the store's row of store_subscriptions
  store,     \* stores.status and suspension_reason
  decisions,
  moderated, \* history: the platform's last decision is a suspension
  overran    \* history: an event was applied over a row changed since it was read

billingVars == <<sub, changes, undelivered, apply, row, store, decisions, moderated, overran>>

NoSub == "none"

\* STATUS_MAP: unpaid and incomplete_expired count as canceled, paused as past_due.
StatusMap == [incomplete |-> "incomplete", incomplete_expired |-> "canceled",
              trialing |-> "trialing", active |-> "active", past_due |-> "past_due",
              paused |-> "past_due", unpaid |-> "canceled", canceled |-> "canceled"]
InForce(status) == status \in {"active", "trialing"}

SubState == [status : DOMAIN StatusMap \union {"none", "session"}, period : 0..MaxPeriod]
Events   == [sub : Subs, status : DOMAIN StatusMap, period : 0..MaxPeriod, no : 1..MaxChanges]
RowState == [made : BOOLEAN, sub : Subs \union {NoSub}, status : Range(StatusMap), period : 0..MaxPeriod]
Idle     == [step |-> "idle"]

BillingTypeOK ==
  /\ sub \in [Subs -> SubState] /\ changes \in 0..MaxChanges
  /\ undelivered \subseteq Events
  /\ apply \in [Workers -> {Idle} \union [step : {"read"}, event : Events, saw : RowState]]
  /\ row \in RowState
  /\ store \in [status : {"pending", "active", "suspended"}, reason : {"none", "billing", "platform"}]
  /\ decisions \in 0..MaxDecisions /\ moderated \in BOOLEAN /\ overran \in BOOLEAN

BillingInit ==
  /\ sub = [s \in Subs |-> [status |-> "none", period |-> 0]]
  /\ changes = 0
  /\ undelivered = {}
  /\ apply = [w \in Workers |-> Idle]
  /\ row = [made |-> FALSE, sub |-> NoSub, status |-> "incomplete", period |-> 0]
  /\ store = [status |-> "pending", reason |-> "none"]
  /\ decisions = 0 /\ moderated = FALSE /\ overran = FALSE

-----------------------------------------------------------------------------
(* Stripe.                                                                 *)

Emit(s, status, period) ==
  /\ changes < MaxChanges
  /\ changes' = changes + 1
  /\ sub' = [sub EXCEPT ![s] = [status |-> status, period |-> period]]
  /\ undelivered' = undelivered \union
       {[sub |-> s, status |-> status, period |-> period, no |-> changes + 1]}

\* A session is only given out while the store's row shows no subscription in force...
createSaasCheckoutSession(s) ==
  /\ sub[s].status = "none"
  /\ ~InForce(row.status)
  /\ sub' = [sub EXCEPT ![s].status = "session"]
  /\ UNCHANGED <<changes, undelivered, apply, row, store, decisions, moderated, overran>>

\* ...and may be paid whatever has happened since.
Subscribe(s) ==
  /\ sub[s].status = "session"
  /\ \E status \in {"incomplete", "trialing", "active"} : Emit(s, status, 1)
  /\ UNCHANGED <<apply, row, store, decisions, moderated, overran>>

\* A period is paid, or not, or Stripe gives up.
Renew(s) ==
  /\ sub[s].status \in {"incomplete", "trialing", "active", "past_due", "unpaid", "paused"}
  /\ sub[s].period < MaxPeriod
  /\ Emit(s, "active", sub[s].period + 1)
  /\ UNCHANGED <<apply, row, store, decisions, moderated, overran>>

Lapse(s) ==
  /\ \/ InForce(sub[s].status) /\ \E st \in {"past_due", "paused"} : Emit(s, st, sub[s].period)
     \/ sub[s].status = "past_due" /\ Emit(s, "unpaid", sub[s].period)
  /\ UNCHANGED <<apply, row, store, decisions, moderated, overran>>

Cancel(s) ==
  /\ sub[s].status \notin {"none", "session", "canceled"}
  /\ Emit(s, "canceled", sub[s].period)
  /\ UNCHANGED <<apply, row, store, decisions, moderated, overran>>

-----------------------------------------------------------------------------
(* The workers.                                                            *)

\* checkout.session.completed.
attachCustomer ==
  /\ \E s \in Subs : sub[s].status \notin {"none", "session"}
  /\ ~row.made
  /\ row' = [row EXCEPT !.made = TRUE]
  /\ UNCHANGED <<sub, changes, undelivered, apply, store, decisions, moderated, overran>>

applySubscriptionEvent(w, e) ==
  /\ apply[w] = Idle /\ e \in undelivered
  /\ undelivered' = undelivered \ {e}
  /\ apply' = [apply EXCEPT ![w] = [step |-> "read", event |-> e, saw |-> row]]
  /\ UNCHANGED <<sub, changes, row, store, decisions, moderated, overran>>

\* A fault: the subscription of the event is not compared with the one of the row.
Faulty_Ignored(saw, s, status, period) == FALSE

\* Another subscription than the row's changes nothing, unless it is in force and the row's is
\* not or ends earlier.
Ignored(saw, s, status, period) ==
  /\ saw.sub \notin {NoSub, s}
  /\ ~InForce(status) \/ (InForce(saw.status) /\ period <= saw.period)

\* What the status of the subscription does to the store.
Follow(status) ==
  IF InForce(status) /\ (store.status = "pending" \/ store = [status |-> "suspended", reason |-> "billing"])
  THEN [status |-> "active", reason |-> "none"]
  ELSE IF status = "canceled" /\ store.status = "active"
       THEN [status |-> "suspended", reason |-> "billing"]
  ELSE store

applySubscriptionState(w) ==
  LET e == apply[w].event
      status == StatusMap[e.status]
  IN
  /\ apply[w] # Idle
  /\ apply' = [apply EXCEPT ![w] = Idle]
  /\ IF Ignored(apply[w].saw, e.sub, status, e.period) THEN UNCHANGED <<row, store, overran>>
     ELSE /\ row' = [made |-> TRUE, sub |-> e.sub, status |-> status, period |-> e.period]
          /\ store' = Follow(status)
          /\ overran' = (overran \/ row # apply[w].saw)
  \* an event whose processed mark fails after this is applied again
  /\ undelivered' \in {undelivered, undelivered \union {e}}
  /\ UNCHANGED <<sub, changes, decisions, moderated>>

-----------------------------------------------------------------------------
(* The platform's administrator.                                           *)
setStoreStatus ==
  /\ decisions < MaxDecisions
  /\ decisions' = decisions + 1
  /\ \E status \in {"pending", "active", "suspended"} :
       /\ store' = [status |-> status, reason |-> IF status = "suspended" THEN "platform" ELSE "none"]
       /\ moderated' = (status = "suspended")
  /\ UNCHANGED <<sub, changes, undelivered, apply, row, overran>>

BillingNext ==
  \/ \E s \in Subs : createSaasCheckoutSession(s) \/ Subscribe(s) \/ Renew(s) \/ Lapse(s) \/ Cancel(s)
  \/ \E w \in Workers, e \in undelivered : applySubscriptionEvent(w, e)
  \/ \E w \in Workers : applySubscriptionState(w)
  \/ attachCustomer \/ setStoreStatus

BillingSpec == BillingInit /\ [][BillingNext]_billingVars

-----------------------------------------------------------------------------
(* A store the platform has suspended stays so until the platform decides  *)
(* otherwise: no payment, late or repeated event reopens it, and no        *)
(* cancellation turns the suspension into one a payment could lift         *)
(* (applySubscriptionState, "suspensão por decisão da plataforma não é     *)
(* desfeita por pagamento").                                               *)
ModerationStands == moderated => store = [status |-> "suspended", reason |-> "platform"]

(* A store is taken down for its own subscription only: the end of a       *)
(* duplicate never suspends it, in whatever order the events come, unless  *)
(* two of them were applied at once (applySubscriptionState, "cancelar a   *)
(* duplicada suspendia a loja que estava em dia").                         *)
OnlyItsOwnSuspends ==
  [][store.status = "active" /\ store'.reason = "billing"
       => row.sub \in {NoSub, row'.sub} \/ overran']_billingVars
=============================================================================
