----------------------------- MODULE Onboarding -----------------------------
(***************************************************************************)
(* The account at Stripe a store receives on: opening it, filling it in    *)
(* over there, and what the store knows of it (src/src/http/api/connect,   *)
(* applyAccountUpdated in src/src/workers/billing-webhook.ts).             *)
(*                                                                         *)
(* Both routes that open an account (account-session and account-link)     *)
(* read the store, call Stripe when it has none, and write the id of the   *)
(* account by the id of the store; two of them may overlap, and either may *)
(* fail between the two.  Each change of an account at Stripe sends an     *)
(* event with the state after it, delivered in any order, more than once.  *)
(***************************************************************************)
EXTENDS Integers, FiniteSets

CONSTANTS
  Openers,      \* requests of the owner to go to Stripe, at most one each at a time
  Watchers,     \* requests that look at the status of the account
  MaxAccounts,  \* accounts opened at Stripe
  MaxUpdates    \* changes of the accounts at Stripe

ASSUME OnboardingAssumption == MaxAccounts \in Nat /\ MaxUpdates \in Nat

Accounts == 1..MaxAccounts   \* 0 is no account
NoCaps   == [submitted |-> FALSE, transfers |-> FALSE]
Caps     == [submitted : BOOLEAN, transfers : BOOLEAN]

VARIABLES
  account,   \* Stripe: what each account may do, and the number of its last change
  opened,    \* accounts opened so far
  reachable, \* accounts the owner was given a way into
  updates,   \* changes so far
  mailbox,   \* events account.updated stored and not processed
  profile,   \* the columns of the store: its account and what it may do
  opening,   \* what each request of the owner has done
  watching,  \* what each look at the status has fetched
  seen,      \* history: the newest change of its account the store has stored
  skewed     \* history: the store's columns were last written with something older than that,
             \* or were carried over from another account

onboardingVars == <<account, opened, reachable, updates, mailbox, profile, opening, watching, seen, skewed>>

NotOpening  == [step |-> "idle", account |-> 0]
NotWatching == [account |-> 0, caps |-> NoCaps, no |-> 0]
Updates     == [account : Accounts, caps : Caps, no : 1..MaxUpdates]

OnboardingTypeOK ==
  /\ account \in [Accounts -> [caps : Caps, no : 0..MaxUpdates]]
  /\ opened \in 0..MaxAccounts /\ reachable \subseteq Accounts /\ updates \in 0..MaxUpdates
  /\ mailbox \subseteq Updates
  /\ profile \in [account : 0..MaxAccounts, caps : Caps]
  /\ opening \in [Openers -> [step : {"idle", "create", "attach", "go"}, account : 0..MaxAccounts]]
  /\ watching \in [Watchers -> [account : 0..MaxAccounts, caps : Caps, no : 0..MaxUpdates]]
  /\ seen \in 0..MaxUpdates /\ skewed \in BOOLEAN

OnboardingInit ==
  /\ account = [a \in Accounts |-> [caps |-> NoCaps, no |-> 0]]
  /\ opened = 0 /\ reachable = {} /\ updates = 0 /\ mailbox = {}
  /\ profile = [account |-> 0, caps |-> NoCaps]
  /\ opening = [r \in Openers |-> NotOpening]
  /\ watching = [w \in Watchers |-> NotWatching]
  /\ seen = 0 /\ skewed = FALSE

-----------------------------------------------------------------------------
(* The owner's requests.  Any of them may fail and be tried again.         *)

openRead(r) ==
  /\ opening[r] = NotOpening
  /\ opening' = [opening EXCEPT ![r] = IF profile.account = 0 THEN [step |-> "create", account |-> 0]
                                       ELSE [step |-> "go", account |-> profile.account]]
  /\ UNCHANGED <<account, opened, reachable, updates, mailbox, profile, watching, seen, skewed>>

createConnectedAccount(r) ==
  /\ opening[r].step = "create" /\ opened < MaxAccounts
  /\ opened' = opened + 1
  /\ opening' \in {[opening EXCEPT ![r] = [step |-> "attach", account |-> opened + 1]],
                   [opening EXCEPT ![r] = NotOpening]}   \* its answer is lost, or the process dies
  /\ UNCHANGED <<account, reachable, updates, mailbox, profile, watching, seen, skewed>>

\* What the store knew of another account stays in the other columns.
attachStripeAccount(r) ==
  /\ opening[r].step = "attach"
  /\ profile' = [profile EXCEPT !.account = opening[r].account]
  /\ opening' = [opening EXCEPT ![r].step = "go"]
  /\ seen' = 0
  /\ skewed' = (profile.caps # NoCaps)
  /\ UNCHANGED <<account, opened, reachable, updates, mailbox, watching>>

\* createAccountSession or createAccountLink, for the account the request holds.
enterAccount(r) ==
  /\ opening[r].step = "go"
  /\ opening' = [opening EXCEPT ![r] = NotOpening]
  /\ reachable' \in {reachable, reachable \union {opening[r].account}}
  /\ UNCHANGED <<account, opened, updates, mailbox, profile, watching, seen, skewed>>

\* The dashboard of an account that was submitted.
createDashboardLink ==
  /\ profile.account # 0 /\ profile.caps.submitted
  /\ reachable' = reachable \union {profile.account}
  /\ UNCHANGED <<account, opened, updates, mailbox, profile, opening, watching, seen, skewed>>

-----------------------------------------------------------------------------
(* Stripe: the owner submits the form, Stripe allows transfers or stops    *)
(* them when it wants more documents.                                      *)
AccountChanges(a) ==
  /\ a \in reachable /\ updates < MaxUpdates
  /\ \E caps \in Caps \ {account[a].caps} :
       /\ caps.submitted
       /\ account' = [account EXCEPT ![a] = [caps |-> caps, no |-> updates + 1]]
       /\ mailbox' = mailbox \union {[account |-> a, caps |-> caps, no |-> updates + 1]}
  /\ updates' = updates + 1
  /\ UNCHANGED <<opened, reachable, profile, opening, watching, seen, skewed>>

-----------------------------------------------------------------------------
\* A fault: the store is written whichever account the state is of.
Faulty_setStripeCapabilities(a, caps, no) ==
  /\ profile' = [profile EXCEPT !.caps = caps]
  /\ IF profile.account = a THEN seen' = (IF no > seen THEN no ELSE seen) /\ skewed' = (no < seen)
                            ELSE UNCHANGED <<seen, skewed>>

\* Keyed by the account: the state of one that is no store's changes nothing.
setStripeCapabilities(a, caps, no) ==
  IF profile.account = a
  THEN /\ profile' = [profile EXCEPT !.caps = caps]
       /\ seen' = IF no > seen THEN no ELSE seen
       /\ skewed' = (no < seen)
  ELSE UNCHANGED <<profile, seen, skewed>>

\* account.updated; the event stays when its processed mark fails after this.
applyAccountUpdated(e) ==
  /\ e \in mailbox
  /\ setStripeCapabilities(e.account, e.caps, e.no)
  /\ mailbox' \in {mailbox, mailbox \ {e}}
  /\ UNCHANGED <<account, opened, reachable, updates, opening, watching>>

\* getConnectStatus: until the form is submitted a look at the status asks Stripe...
retrieveAccountStatus(w) ==
  /\ watching[w] = NotWatching
  /\ profile.account # 0 /\ ~profile.caps.submitted
  /\ watching' = [watching EXCEPT ![w] =
       [account |-> profile.account, caps |-> account[profile.account].caps,
        no |-> account[profile.account].no]]
  /\ UNCHANGED <<account, opened, reachable, updates, mailbox, profile, opening, seen, skewed>>

\* ...and stores the answer.
storeStatus(w) ==
  /\ watching[w] # NotWatching
  /\ setStripeCapabilities(watching[w].account, watching[w].caps, watching[w].no)
  /\ watching' = [watching EXCEPT ![w] = NotWatching]
  /\ UNCHANGED <<account, opened, reachable, updates, mailbox, opening>>

OnboardingNext ==
  \/ \E r \in Openers : \/ openRead(r) \/ createConnectedAccount(r) \/ attachStripeAccount(r)
                        \/ enterAccount(r)
  \/ \E a \in Accounts : AccountChanges(a)
  \/ \E e \in mailbox : applyAccountUpdated(e)
  \/ \E w \in Watchers : retrieveAccountStatus(w) \/ storeStatus(w)
  \/ createDashboardLink

OnboardingSpec == OnboardingInit /\ [][OnboardingNext]_onboardingVars

-----------------------------------------------------------------------------
(* Once every event is in and nobody is looking, the store knows what its  *)
(* own account may do, and assertProviderConfigured opens its checkout     *)
(* exactly when Stripe takes the transfer: whatever other accounts were    *)
(* opened for it, unless an older state was the last to be written or the  *)
(* columns still are those of the account before (setStripeCapabilities,   *)
(* "até a capability transfers ficar ativa o repasse é recusado").         *)
SettledCapabilities ==
  /\ mailbox = {} /\ profile.account # 0 /\ ~skewed
  /\ \A w \in Watchers : watching[w] = NotWatching
  => profile.caps = account[profile.account].caps
=============================================================================
