------------------------------ MODULE Interests ------------------------------
(***************************************************************************)
(* The people who wait for one sold-out product or full event             *)
(* (src/src/http/api/interests), the store that tells them it is back, and *)
(* the outbox rows that carry the news.                                    *)
(*                                                                         *)
(* notifyArrival is one transaction of four statements under READ          *)
(* COMMITTED: people cancel, reopen and buy between them, and a second     *)
(* administrator may be doing the same.  Stamps are milliseconds; two      *)
(* calls may share one.                                                    *)
(***************************************************************************)
EXTENDS Integers, FiniteSets

CONSTANTS
  People,     \* customers, each with one interest at most (unique target and person)
  Notifiers,  \* requests to notify, at most one each at a time
  MaxCalls,   \* requests to notify
  MaxAsks,    \* times a customer asks to be told
  LastMs      \* the last millisecond

ASSUME InterestsAssumption == MaxCalls \in Nat /\ MaxAsks \in Nat /\ LastMs \in Nat \ {0}

VARIABLES
  onSale,   \* there is stock, or a seat in the open batch
  wish,     \* the rows of interests
  wanting,   \* customers whose request found nothing on sale and has not written yet
  asks,     \* requests made by each customer
  ms,
  call,     \* each notifier's transaction
  calls,
  told,     \* outbox rows interest.notified: [to, stamp, by]
  sending,  \* rows whose interest the relay found notified and has not mailed yet
  mailed,   \* rows whose e-mail went out
  noticed   \* history: the stamps at which each interest became notified

interestsVars == <<onSale, wish, wanting, asks, ms, call, calls, told, sending, mailed, noticed>>

Stamps == 0..LastMs   \* 0 is a null notified_at
NoWish == [status |-> "none", stamp |-> 0]
NoCall == [step |-> "idle", ids |-> {}, stamp |-> 0]
NewsRows == [to : People, stamp : Stamps, by : Notifiers]

InterestsTypeOK ==
  /\ onSale \in BOOLEAN
  /\ wish \in [People -> [status : {"none", "open", "notified", "converted", "cancelled"},
                          stamp : Stamps]]
  /\ wanting \subseteq People
  /\ asks \in [People -> 0..MaxAsks]
  /\ ms \in Stamps /\ calls \in 0..MaxCalls
  /\ call \in [Notifiers -> [step : {"idle", "read"}, ids : SUBSET People, stamp : Stamps]]
  /\ told \subseteq NewsRows /\ sending \subseteq told /\ mailed \subseteq told
  /\ noticed \in [People -> SUBSET Stamps]

InterestsInit ==
  /\ onSale = FALSE
  /\ wish = [p \in People |-> NoWish]
  /\ wanting = {}
  /\ asks = [p \in People |-> 0]
  /\ ms = 1
  /\ call = [a \in Notifiers |-> NoCall]
  /\ calls = 0
  /\ told = {} /\ sending = {} /\ mailed = {}
  /\ noticed = [p \in People |-> {}]

-----------------------------------------------------------------------------
Live(p) == wish[p].status \in {"open", "notified"}

\* Someone buys the last unit, or the store puts more on sale.
StockChanges == /\ onSale' = ~onSale
                /\ UNCHANGED <<wish, wanting, asks, ms, call, calls, told, sending, mailed, noticed>>

MsPasses == /\ ms < LastMs /\ ms' = ms + 1
            /\ UNCHANGED <<onSale, wish, wanting, asks, call, calls, told, sending, mailed, noticed>>

\* The customer is only let into the queue while nothing is on sale...
createInterest(p) ==
  /\ ~onSale /\ p \notin wanting /\ asks[p] < MaxAsks
  /\ wanting' = wanting \union {p}
  /\ asks' = [asks EXCEPT ![p] = @ + 1]
  /\ UNCHANGED <<onSale, wish, ms, call, calls, told, sending, mailed, noticed>>

\* ...and is written some time later, which opens a row that was closed.
upsertOpen(p) ==
  /\ p \in wanting
  /\ wish' = [wish EXCEPT ![p] = [status |-> "open", stamp |-> 0]]
  /\ wanting' = wanting \ {p}
  /\ UNCHANGED <<onSale, asks, ms, call, calls, told, sending, mailed, noticed>>

cancelMine(p) ==
  /\ Live(p)
  /\ wish' = [wish EXCEPT ![p].status = "cancelled"]
  /\ UNCHANGED <<onSale, wanting, asks, ms, call, calls, told, sending, mailed, noticed>>

\* order.paid of an order of this customer with the target among its items.
convertForOrder(p) ==
  /\ onSale /\ Live(p)
  /\ wish' = [wish EXCEPT ![p].status = "converted"]
  /\ UNCHANGED <<onSale, wanting, asks, ms, call, calls, told, sending, mailed, noticed>>

-----------------------------------------------------------------------------
(* notifyArrival.                                                          *)

readOpen(a) ==
  LET ids == {p \in People : wish[p].status = "open"} IN
  /\ call[a].step = "idle" /\ calls < MaxCalls
  /\ calls' = calls + 1
  /\ call' = [call EXCEPT ![a] = IF ids = {} THEN NoCall
                                 ELSE [step |-> "read", ids |-> ids, stamp |-> ms]]
  /\ UNCHANGED <<onSale, wish, wanting, asks, ms, told, sending, mailed, noticed>>

\* A fault: the outbox rows are made from what was read first.
Faulty_Found(a, new) == call[a].ids

\* What this call has notified, told by its stamp.
Found(a, new) == {p \in call[a].ids : new[p] = [status |-> "notified", stamp |-> call[a].stamp]}

\* The rows the guarded update locks stay locked until the commit, so that the update, the
\* selection by stamp and the outbox rows are one step.
notifyArrival(a) ==
  LET open == {p \in call[a].ids : wish[p].status = "open"}
      new  == [p \in People |-> IF p \in open THEN [status |-> "notified", stamp |-> call[a].stamp]
                                              ELSE wish[p]]
  IN
  /\ call[a].step = "read"
  /\ wish' = new
  /\ noticed' = [p \in People |-> IF p \in open THEN noticed[p] \union {call[a].stamp}
                                                ELSE noticed[p]]
  /\ told' = told \union [to : Found(a, new), stamp : {call[a].stamp}, by : {a}]
  /\ call' = [call EXCEPT ![a] = NoCall]
  /\ UNCHANGED <<onSale, wanting, asks, ms, calls, sending, mailed>>

-----------------------------------------------------------------------------
(* The relay, which may deliver a row again until it is marked.            *)

sendRead(r) ==
  /\ r \in told \ (mailed \union sending)
  /\ wish[r.to].status = "notified"
  /\ sending' = sending \union {r}
  /\ UNCHANGED <<onSale, wish, wanting, asks, ms, call, calls, told, mailed, noticed>>

sendEmail(r) ==
  /\ r \in sending
  /\ sending' = sending \ {r}
  /\ mailed' = mailed \union {r}
  /\ UNCHANGED <<onSale, wish, wanting, asks, ms, call, calls, told, noticed>>

\* The interest is no longer waiting for this e-mail: the row closes without one.
closeUnsent(r) ==
  /\ r \in told \ (mailed \union sending)
  /\ wish[r.to].status # "notified"
  /\ told' = told \ {r}
  /\ UNCHANGED <<onSale, wish, wanting, asks, ms, call, calls, sending, mailed, noticed>>

InterestsNext ==
  \/ StockChanges \/ MsPasses
  \/ \E p \in People : createInterest(p) \/ upsertOpen(p) \/ cancelMine(p) \/ convertForOrder(p)
  \/ \E a \in Notifiers : readOpen(a) \/ notifyArrival(a)
  \/ \E r \in told : sendRead(r) \/ sendEmail(r) \/ closeUnsent(r)

InterestsSpec == InterestsInit /\ [][InterestsNext]_interestsVars

-----------------------------------------------------------------------------
(* A row of news stands for a moment at which the interest really became   *)
(* notified: whoever cancels or buys while the store is notifying, and     *)
(* whatever two administrators notify at once, is not sent an e-mail for   *)
(* it (InterestsRepository.notifyArrival).                                 *)
NewsIsNotice ==
  \A r \in told : r.stamp \in noticed[r.to]
=============================================================================
