--------------------------- MODULE DonationsProofs ---------------------------
(***************************************************************************)
(* Donations implement the ledger, and what a campaign counts and what a   *)
(* processed webhook says is true, for any gifts, runs, invoices, refunds  *)
(* and faults.                                                             *)
(*                                                                         *)
(* The rows say by themselves what was announced: a single gift by its     *)
(* payment, an invoice by the row it is booked on.  An anchor that still   *)
(* waits has no invoice booked beside it, so that the claim of the anchor  *)
(* and the creation of a child never announce one invoice twice.           *)
(***************************************************************************)
EXTENDS Donations, TLAPS

Singles  == Cards \cup Pixes
Requests == {"idle", "charging", "attaching", "linking", "answered", "failing", "over"}
HookStates == {"none", "received", "processed", "failed"}
JobStates  == {Idle} \cup [step : Steps, event : Events]
News       == {"nothing", "received", "orphaned"}
Kept       == {"succeeded", "refunded"}

\* The types of what the argument is about; no announcement is repeated.
GiftsTypeOK ==
  /\ request \in [Gifts -> Requests]
  /\ status \in [Rows -> Statuses] /\ payment \in [Rows -> Payments]
  /\ first \in [Gifts -> 0..MaxCycles]
  /\ taken \subseteq Charges
  /\ hook \in [Events -> HookStates] /\ job \in [Runs -> JobStates]
  /\ told \in [Charges -> News]

\* The gift has a row that no longer waits.
Past(g) == status[Anchor(g)] \notin {"none", "pending_payment"}

\* The request makes the row, and answers once its reference is stored.
RequestMakesRow ==
  \A g \in Gifts :
    /\ request[g] = "idle" => status[Anchor(g)] = "none"
    /\ status[Anchor(g)] = "none" => request[g] = "idle"
    /\ request[g] = "answered" /\ g \in Monthlies => g \in linked

\* Nobody pays before the answer.
PaidAfterAnswer == \A c \in taken : request[c[1]] = "answered"

\* A gift and its payment agree as far as the argument needs it.
GiftMatchesPayment ==
  \A r \in Rows :
    /\ status[r] = "none" => payment[r] = "none"
    /\ payment[r] = "none" => status[r] = "none"
    /\ status[r] = "pending_payment" => payment[r] = "pending"
    /\ status[r] = "paid" => payment[r] = "succeeded"

\* An anchor that still waits has no invoice beside it, and none is booked on two rows.
FirstComesFirst ==
  \A g \in Monthlies :
    /\ first[g] # 0 => Past(g)
    /\ payment[Anchor(g)] \in Kept => first[g] # 0
    /\ \A i \in Cycles : status[<<g, i>>] # "none" => Past(g) /\ first[g] # i

\* The rows say what was announced, and only money taken is.
ToldIsBooked ==
  /\ \A g \in Singles : told[<<g, 0>>] # "nothing" => payment[Anchor(g)] \in Kept
  /\ \A g \in Singles : payment[Anchor(g)] \in Kept => told[<<g, 0>>] # "nothing"
  /\ \A g \in Monthlies, i \in Cycles :
       told[<<g, i>>] # "nothing" => first[g] = i \/ status[<<g, i>>] # "none"
  /\ \A g \in Monthlies, i \in Cycles :
       first[g] = i \/ status[<<g, i>>] # "none" => told[<<g, i>>] # "nothing"
  /\ \A c \in Charges : told[c] # "nothing" => c \in taken

RowsInv ==
  RequestMakesRow /\ PaidAfterAnswer /\ GiftMatchesPayment /\ FirstComesFirst /\ ToldIsBooked

Booked(c) == c \in outrun \/ (told[c] # "nothing" /\ c \in queued)

\* What a run knows of the payment event it works on.
JobKnows(w) ==
  job[w] # Idle /\ job[w].event.type = "paid" =>
    LET c == job[w].event.charge
    IN /\ c \in taken
       /\ job[w].step = "apply" => c[1] \in Singles
       /\ job[w].step \in {"look", "claim", "child"} => c[1] \in Monthlies
       /\ job[w].step = "child" => Past(c[1])
       /\ job[w].step = "payout" => c \in outrun \/ told[c] # "nothing"
       /\ job[w].step = "finish" => Booked(c)

SentWhenTaken == \A e \in Events : e.type = "paid" /\ hook[e] # "none" => e.charge \in taken

EventsInv == SentWhenTaken /\ ProcessedIsBooked /\ \A w \in Runs : JobKnows(w)

DonationsInv == GiftsTypeOK /\ RowsInv /\ EventsInv

-----------------------------------------------------------------------------
(* Rows, charges and events.                                               *)

LEMMA GiftFacts ==
  /\ Gifts = Singles \cup Monthlies
  /\ \A g \in Singles : g \notin Monthlies
  /\ MaxCycles \in Nat
  /\ 0 \notin Cycles /\ Cycles \subseteq Nat /\ Cycles \subseteq 0..MaxCycles
BY GiftsAssumption DEF Gifts, Singles, Cycles

LEMMA RowFacts ==
  /\ \A g \in Gifts : Anchor(g) \in Rows
  /\ \A g \in Monthlies, i \in Cycles : <<g, i>> \in Rows
  /\ \A r \in Rows : \/ \E g \in Gifts : r = Anchor(g)
                     \/ \E g \in Monthlies, i \in Cycles : r = <<g, i>>
  /\ \A g, h : Anchor(g) = Anchor(h) => g = h
  /\ \A g, h, i : i \in Cycles => Anchor(g) # <<h, i>>
<1>1. \A g \in Gifts : Anchor(g) \in Rows
  BY DEF Anchor, Rows
<1>2. \A g \in Monthlies, i \in Cycles : <<g, i>> \in Rows
  BY DEF Rows
<1>3. \A r \in Rows : \/ \E g \in Gifts : r = Anchor(g)
                      \/ \E g \in Monthlies, i \in Cycles : r = <<g, i>>
  BY DEF Rows, Anchor
<1>4. \A g, h : Anchor(g) = Anchor(h) => g = h
  BY DEF Anchor
<1>5. \A g, h, i : i \in Cycles => Anchor(g) # <<h, i>>
  BY GiftFacts DEF Anchor
<1> QED  BY <1>1, <1>2, <1>3, <1>4, <1>5

LEMMA ChargeFacts ==
  /\ \A g \in Singles : <<g, 0>> \in Charges
  /\ \A g \in Monthlies, i \in Cycles : <<g, i>> \in Charges
  /\ \A c \in Charges : \/ \E g \in Singles : c = <<g, 0>>
                        \/ \E g \in Monthlies, i \in Cycles : c = <<g, i>>
  /\ \A c \in Charges : c[1] \in Gifts
<1>1. /\ \A g \in Singles : <<g, 0>> \in Charges
      /\ \A g \in Monthlies, i \in Cycles : <<g, i>> \in Charges
  BY DEF Charges, Singles
<1>2. \A c \in Charges : \/ \E g \in Singles : c = <<g, 0>>
                         \/ \E g \in Monthlies, i \in Cycles : c = <<g, i>>
  BY DEF Charges, Singles
<1>3. \A c \in Charges : c[1] \in Gifts
  BY <1>2, GiftFacts
<1> QED  BY <1>1, <1>2, <1>3

LEMMA EventFacts ==
  /\ \A e \in Events : e.type \in {"paid", "refunded"} => e.charge \in Charges
  /\ \A e \in Events : GiftOf(e) \in Gifts
  /\ \A e \in Events : e.type = "closed" => GiftOf(e) \in Singles
BY GiftFacts, ChargeFacts DEF Events, GiftOf, Singles

-----------------------------------------------------------------------------
(* What a step may leave alone.                                            *)

rowsRead == <<request, status, payment, first, linked, taken, told>>

\* What is known stays known.
Grows ==
  /\ taken \subseteq taken' /\ outrun \subseteq outrun' /\ queued \subseteq queued'
  /\ \A c \in Charges : told[c] # "nothing" => told'[c] # "nothing"
  /\ \A g \in Gifts : Past(g) => Past(g)'

LEMMA RowsFrame ==
  ASSUME RowsInv, UNCHANGED rowsRead
  PROVE  RowsInv'
<1>1. RequestMakesRow' /\ PaidAfterAnswer'
  BY DEF RowsInv, rowsRead, RequestMakesRow, PaidAfterAnswer, Anchor
<1>2. GiftMatchesPayment' /\ FirstComesFirst'
  BY DEF RowsInv, rowsRead, GiftMatchesPayment, FirstComesFirst, Past, Anchor
<1>3. ToldIsBooked'
  BY DEF RowsInv, rowsRead, ToldIsBooked, Anchor
<1> QED  BY <1>1, <1>2, <1>3 DEF RowsInv

LEMMA GrowsFrame ==
  ASSUME UNCHANGED rowsRead, outrun \subseteq outrun', queued \subseteq queued'
  PROVE  Grows
BY DEF Grows, rowsRead, Past, Anchor

LEMMA KnownStays ==
  ASSUME GiftsTypeOK, Grows, NEW w \in Runs, JobKnows(w), job'[w] = job[w]
  PROVE  JobKnows(w)'
<1> SUFFICES ASSUME job[w] # Idle, job[w].event.type = "paid" PROVE JobKnows(w)'
  BY DEF JobKnows
<1> DEFINE c == job[w].event.charge
<1>1. c \in Charges /\ c[1] \in Gifts
  BY EventFacts, ChargeFacts DEF GiftsTypeOK, JobStates
<1>2. /\ c \in taken'
      /\ job[w].step = "apply" => c[1] \in Singles
      /\ job[w].step \in {"look", "claim", "child"} => c[1] \in Monthlies
  BY DEF JobKnows, Grows
<1>3. job[w].step = "child" => Past(c[1])'
  BY <1>1 DEF JobKnows, Grows
<1>4. /\ job[w].step = "payout" => c \in outrun' \/ told'[c] # "nothing"
      /\ job[w].step = "finish" => c \in outrun' \/ (told'[c] # "nothing" /\ c \in queued')
  BY <1>1 DEF JobKnows, Grows, Booked
<1> QED  BY <1>2, <1>3, <1>4 DEF JobKnows, Booked

LEMMA EventsFrame ==
  ASSUME GiftsTypeOK, EventsInv, Grows, UNCHANGED <<hook, job>>
  PROVE  EventsInv'
<1>1. SentWhenTaken'
  BY DEF EventsInv, SentWhenTaken, Grows
<1>2. ProcessedIsBooked'
  BY EventFacts DEF EventsInv, ProcessedIsBooked, Grows
<1>3. \A w \in Runs : JobKnows(w)'
  BY KnownStays DEF EventsInv
<1> QED  BY <1>1, <1>2, <1>3 DEF EventsInv

\* A step of a run that leaves the others and the events where they are.
LEMMA OneRunMoves ==
  ASSUME GiftsTypeOK, EventsInv, Grows, UNCHANGED hook, NEW w \in Runs,
         \A v \in Runs \ {w} : job'[v] = job[v], JobKnows(w)'
  PROVE  EventsInv'
<1>1. SentWhenTaken'
  BY DEF EventsInv, SentWhenTaken, Grows
<1>2. ProcessedIsBooked'
  BY EventFacts DEF EventsInv, ProcessedIsBooked, Grows
<1>3. \A v \in Runs : JobKnows(v)'
  BY KnownStays DEF EventsInv
<1> QED  BY <1>1, <1>2, <1>3 DEF EventsInv

\* What Move does.
LEMMA Moved ==
  ASSUME GiftsTypeOK, NEW w \in Runs, job[w] # Idle, NEW step \in Steps, Move(w, step)
  PROVE  /\ job' \in [Runs -> JobStates]
         /\ job'[w].step = step /\ job'[w].event = job[w].event /\ job'[w] # Idle
         /\ \A v \in Runs \ {w} : job'[v] = job[v]
<1>1. PICK s \in Steps, e \in Events : job[w] = [step |-> s, event |-> e]
  BY DEF GiftsTypeOK, JobStates
<1>2. job'[w] = [step |-> step, event |-> e]
  BY <1>1 DEF Move, GiftsTypeOK
<1>3. \A v \in Runs \ {w} : job'[v] = job[v]
  BY DEF Move, GiftsTypeOK
<1>4. job' \in [Runs -> JobStates]
  <2>1. job'[w] \in JobStates
    BY <1>2 DEF JobStates
  <2>2. \A v \in Runs : job'[v] \in JobStates
    BY <1>3, <2>1 DEF GiftsTypeOK
  <2> QED  BY <2>2 DEF Move, GiftsTypeOK
<1>5. job'[w] # Idle
  BY <1>2 DEF Idle, Steps
<1> QED  BY <1>1, <1>2, <1>3, <1>4, <1>5

\* Who is at a step holds an event.
LEMMA AtWork ==
  ASSUME GiftsTypeOK, NEW w \in Runs, NEW step \in Steps, job[w].step = step
  PROVE  job[w] # Idle /\ job[w].event \in Events /\ job[w] \in [step : Steps, event : Events]
BY DEF GiftsTypeOK, JobStates, Idle, Steps

-----------------------------------------------------------------------------
(* The request.                                                            *)

LEMMA InitKeeps == DonationsInit => DonationsInv
<1> SUFFICES ASSUME DonationsInit PROVE DonationsInv
  OBVIOUS
<1>1. GiftsTypeOK
  BY GiftFacts DEF DonationsInit, GiftsTypeOK, Requests, Statuses, Payments, HookStates,
     JobStates, News
<1>2. RequestMakesRow /\ PaidAfterAnswer /\ GiftMatchesPayment
  BY RowFacts DEF DonationsInit, RequestMakesRow, PaidAfterAnswer, GiftMatchesPayment
<1>3. FirstComesFirst
  BY RowFacts, GiftFacts DEF DonationsInit, FirstComesFirst, Kept
<1>4. ToldIsBooked
  BY RowFacts, ChargeFacts, GiftFacts DEF DonationsInit, ToldIsBooked, Kept
<1>5. SentWhenTaken /\ ProcessedIsBooked
  BY DEF DonationsInit, SentWhenTaken, ProcessedIsBooked
<1>6. \A w \in Runs : JobKnows(w)
  BY DEF DonationsInit, JobKnows
<1> QED  BY <1>1, <1>2, <1>3, <1>4, <1>5, <1>6 DEF DonationsInv, RowsInv, EventsInv

\* A step of the request after the row is made touches no row.
LEMMA RequestMoves ==
  ASSUME GiftsTypeOK, RowsInv, NEW g \in Gifts, NEW x \in Requests \ {"idle"},
         request[g] \notin {"idle", "answered"}, Goto(g, x),
         linked \subseteq linked', x = "answered" /\ g \in Monthlies => g \in linked',
         UNCHANGED <<status, payment, first, taken, told>>
  PROVE  RowsInv' /\ request' \in [Gifts -> Requests]
<1>1. request' \in [Gifts -> Requests] /\ request'[g] = x
      /\ \A h \in Gifts \ {g} : request'[h] = request[h]
  BY DEF Goto, GiftsTypeOK
<1>2. RequestMakesRow'
  BY <1>1 DEF RequestMakesRow, RowsInv, Anchor
<1>3. PaidAfterAnswer'
  BY <1>1, ChargeFacts DEF PaidAfterAnswer, RowsInv, GiftsTypeOK
<1>4. GiftMatchesPayment' /\ FirstComesFirst'
  BY DEF RowsInv, GiftMatchesPayment, FirstComesFirst, Past, Anchor
<1>5. ToldIsBooked'
  BY DEF RowsInv, ToldIsBooked, Anchor
<1> QED  BY <1>1, <1>2, <1>3, <1>4, <1>5 DEF RowsInv

LEMMA RequestKeeps ==
  ASSUME DonationsInv, NEW g \in Gifts,
         \/ createCharge(g) \/ attachProviderId(g) \/ attachPixCharge(g)
         \/ attachSubscriptionRef(g) \/ requestThrows(g) \/ requestCrash(g)
  PROVE  DonationsInv'
<1>0. GiftsTypeOK /\ RowsInv /\ EventsInv
  BY DEF DonationsInv
<1> USE DEF createCharge, attachProviderId, attachPixCharge, attachSubscriptionRef,
            requestThrows, requestCrash
<1>1. /\ UNCHANGED <<status, payment, first, taken, told, hook, job, queued, outrun>>
      /\ linked \subseteq linked'
      /\ request[g] \notin {"idle", "answered"}
  <2>1. UNCHANGED <<status, payment, first, taken, told>>
    BY DEF rowVars, moneyVars, providerVars
  <2>2. UNCHANGED <<hook, job, queued, outrun>>
    BY DEF hookVars, moneyVars
  <2>3. linked \subseteq linked'
    BY DEF rowVars
  <2>4. request[g] \notin {"idle", "answered"}
    OBVIOUS
  <2> QED  BY <2>1, <2>2, <2>3, <2>4
<1>2. \E x \in Requests \ {"idle"} :
        Goto(g, x) /\ (x = "answered" /\ g \in Monthlies => g \in linked')
  BY GiftsAssumption DEF Requests
<1> HIDE DEF createCharge, attachProviderId, attachPixCharge, attachSubscriptionRef,
             requestThrows, requestCrash
<1>3. RowsInv' /\ request' \in [Gifts -> Requests]
  BY <1>0, <1>1, <1>2, RequestMoves
<1>4. GiftsTypeOK'
  BY <1>0, <1>1, <1>3 DEF GiftsTypeOK
<1>5. Grows
  BY <1>1 DEF Grows, Past, Anchor
<1> QED  BY <1>0, <1>1, <1>3, <1>4, <1>5, EventsFrame DEF DonationsInv

LEMMA CreateKeeps ==
  ASSUME DonationsInv, NEW g \in Gifts, createPendingDonation(g)
  PROVE  DonationsInv' /\ Past(g) = FALSE /\ payment[Anchor(g)] = "none"
<1>0. GiftsTypeOK /\ RowsInv /\ EventsInv
  BY DEF DonationsInv
<1>1. /\ UNCHANGED <<first, linked, taken, told, hook, job, queued, outrun>>
      /\ request[g] = "idle" /\ Goto(g, "charging")
      /\ status' = [status EXCEPT ![Anchor(g)] = "pending_payment"]
      /\ payment' = [payment EXCEPT ![Anchor(g)] = "pending"]
  BY DEF createPendingDonation, providerVars, hookVars, moneyVars
<1>2. status[Anchor(g)] = "none" /\ payment[Anchor(g)] = "none"
  BY <1>0, <1>1, RowFacts DEF RowsInv, RequestMakesRow, GiftMatchesPayment
<1>3. /\ request' \in [Gifts -> Requests] /\ request'[g] = "charging"
      /\ \A h \in Gifts \ {g} : request'[h] = request[h]
  BY <1>0, <1>1 DEF Goto, GiftsTypeOK, Requests
<1>4. /\ status' \in [Rows -> Statuses] /\ status'[Anchor(g)] = "pending_payment"
      /\ payment' \in [Rows -> Payments] /\ payment'[Anchor(g)] = "pending"
      /\ \A r \in Rows : r # Anchor(g) => status'[r] = status[r] /\ payment'[r] = payment[r]
  BY <1>0, <1>1, RowFacts DEF GiftsTypeOK, Statuses, Payments
<1>5. GiftsTypeOK'
  BY <1>0, <1>1, <1>3, <1>4 DEF GiftsTypeOK
<1>6. RequestMakesRow'
  <2>1. \A h \in Gifts \ {g} : status'[Anchor(h)] = status[Anchor(h)]
    BY <1>4, RowFacts
  <2>2. \A h \in Gifts :
          /\ request'[h] = "idle" => status'[Anchor(h)] = "none"
          /\ status'[Anchor(h)] = "none" => request'[h] = "idle"
          /\ request'[h] = "answered" /\ h \in Monthlies => h \in linked
    BY <1>0, <1>3, <1>4, <2>1 DEF RowsInv, RequestMakesRow
  <2> QED  BY <1>1, <2>2 DEF RequestMakesRow, Anchor
<1>7. PaidAfterAnswer'
  BY <1>0, <1>1, <1>3, ChargeFacts DEF RowsInv, PaidAfterAnswer, GiftsTypeOK
<1>8. GiftMatchesPayment'
  BY <1>0, <1>4 DEF RowsInv, GiftMatchesPayment
<1>9. \A h \in Gifts : Past(h) => Past(h)'
  BY <1>2, <1>4, RowFacts DEF Past
<1>10. FirstComesFirst'
  <2> SUFFICES ASSUME NEW h \in Monthlies
               PROVE  /\ first[h] # 0 => Past(h)'
                      /\ payment'[Anchor(h)] \in Kept => first[h] # 0
                      /\ \A i \in Cycles : status'[<<h, i>>] # "none" => Past(h)' /\ first[h] # i
    BY <1>1 DEF FirstComesFirst, Anchor
  <2>1. h \in Gifts /\ Anchor(h) \in Rows
    BY GiftFacts, RowFacts
  <2>2. first[h] # 0 => Past(h)'
    BY <1>0, <1>9, <2>1 DEF RowsInv, FirstComesFirst
  <2>3. payment'[Anchor(h)] \in Kept => first[h] # 0
    BY <1>0, <1>4, <2>1 DEF RowsInv, FirstComesFirst, Kept
  <2>4. \A i \in Cycles : status'[<<h, i>>] = status[<<h, i>>]
    BY <1>4, RowFacts
  <2>5. \A i \in Cycles : status'[<<h, i>>] # "none" => Past(h)' /\ first[h] # i
    BY <1>0, <1>9, <2>1, <2>4 DEF RowsInv, FirstComesFirst
  <2> QED  BY <2>2, <2>3, <2>5
<1>11. ToldIsBooked'
  <2>1. \A h \in Singles : /\ Anchor(h) \in Rows
                           /\ payment'[Anchor(h)] \in Kept <=> payment[Anchor(h)] \in Kept
    BY <1>2, <1>4, RowFacts, GiftFacts DEF Kept
  <2>2. \A h \in Monthlies, i \in Cycles : status'[<<h, i>>] = status[<<h, i>>]
    BY <1>4, RowFacts
  <2> QED  BY <1>0, <1>1, <2>1, <2>2 DEF RowsInv, ToldIsBooked, Anchor
<1>12. EventsInv'
  BY <1>0, <1>1, <1>9, EventsFrame DEF Grows
<1> QED  BY <1>2, <1>5, <1>6, <1>7, <1>8, <1>10, <1>11, <1>12 DEF DonationsInv, RowsInv, Past

\* Closing a gift that waits loses nothing: no money was announced for it.
LEMMA ClosingKeeps ==
  ASSUME GiftsTypeOK, RowsInv, NEW g \in Gifts, NEW closed \in {"failed", "expired"},
         CancelPending(g, closed), UNCHANGED <<first, linked, taken, told, queued, outrun>>,
         request' \in [Gifts -> Requests], UNCHANGED hook, job' \in [Runs -> JobStates],
         \A h \in Gifts : request'[h] = "idle" <=> request[h] = "idle",
         \A h \in Gifts : request'[h] = "answered" <=> request[h] = "answered"
  PROVE  GiftsTypeOK' /\ RowsInv' /\ Grows
         /\ \A r \in Rows : payment[r] \in Kept <=> payment'[r] \in Kept
<1>1. /\ status[Anchor(g)] = "pending_payment" /\ payment[Anchor(g)] = "pending"
      /\ status' = [status EXCEPT ![Anchor(g)] = "cancelled"]
      /\ payment' = [payment EXCEPT ![Anchor(g)] = closed]
  BY RowFacts DEF CancelPending, RowsInv, GiftMatchesPayment, GiftsTypeOK
<1>2. /\ status' \in [Rows -> Statuses] /\ status'[Anchor(g)] = "cancelled"
      /\ payment' \in [Rows -> Payments] /\ payment'[Anchor(g)] = closed
      /\ \A r \in Rows : r # Anchor(g) => status'[r] = status[r] /\ payment'[r] = payment[r]
  BY <1>1, RowFacts DEF GiftsTypeOK, Statuses, Payments
<1>3. \A h \in Gifts : Anchor(h) \in Rows /\ (Past(h) => status'[Anchor(h)] \notin {"none", "pending_payment"})
  BY <1>1, <1>2, RowFacts DEF Past
<1>4. \A r \in Rows : status[r] = "none" <=> status'[r] = "none"
  BY <1>1, <1>2
<1>5. \A r \in Rows : payment[r] \in Kept <=> payment'[r] \in Kept
  BY <1>1, <1>2 DEF Kept
<1>6. RequestMakesRow'
  BY <1>3, <1>4 DEF RowsInv, RequestMakesRow, Anchor
<1>7. PaidAfterAnswer'
  BY ChargeFacts DEF RowsInv, PaidAfterAnswer, GiftsTypeOK
<1>8. GiftMatchesPayment'
  BY <1>2 DEF RowsInv, GiftMatchesPayment
<1>9. FirstComesFirst'
  <2>1. \A h \in Monthlies :
          /\ h \in Gifts /\ (payment[Anchor(h)] \in Kept <=> payment'[Anchor(h)] \in Kept)
          /\ \A i \in Cycles : status[<<h, i>>] = "none" <=> status'[<<h, i>>] = "none"
    BY <1>3, <1>4, <1>5, RowFacts, GiftFacts
  <2>2. \A h \in Monthlies :
          /\ first[h] # 0 => status'[Anchor(h)] \notin {"none", "pending_payment"}
          /\ payment'[Anchor(h)] \in Kept => first[h] # 0
          /\ \A i \in Cycles : status'[<<h, i>>] # "none" =>
               status'[Anchor(h)] \notin {"none", "pending_payment"} /\ first[h] # i
    BY <1>3, <2>1 DEF RowsInv, FirstComesFirst
  <2> QED  BY <2>2 DEF FirstComesFirst, Past, Anchor
<1>10. ToldIsBooked'
  <2>1. \A h \in Singles : payment[Anchor(h)] \in Kept <=> payment'[Anchor(h)] \in Kept
    BY <1>5, RowFacts, GiftFacts
  <2>2. \A h \in Monthlies, i \in Cycles : status[<<h, i>>] = "none" <=> status'[<<h, i>>] = "none"
    BY <1>4, RowFacts
  <2> QED  BY <2>1, <2>2 DEF RowsInv, ToldIsBooked, Anchor
<1>11. Grows
  BY <1>3 DEF Grows, Past, Anchor
<1>12. GiftsTypeOK'
  BY <1>2 DEF GiftsTypeOK
<1> QED  BY <1>2, <1>5, <1>6, <1>7, <1>8, <1>9, <1>10, <1>11, <1>12 DEF RowsInv

LEMMA ExpiryKeeps ==
  ASSUME DonationsInv, NEW g \in Gifts, expireDonation(g)
  PROVE  DonationsInv' /\ \A r \in Rows : payment[r] \in Kept <=> payment'[r] \in Kept
<1>0. GiftsTypeOK /\ RowsInv /\ EventsInv
  BY DEF DonationsInv
<1>1. /\ CancelPending(g, "expired")
      /\ UNCHANGED <<request, first, linked, taken, told, queued, outrun, hook, job>>
  BY DEF expireDonation, providerVars, hookVars, moneyVars
<1>2. /\ GiftsTypeOK' /\ RowsInv' /\ Grows
      /\ \A r \in Rows : payment[r] \in Kept <=> payment'[r] \in Kept
  BY <1>0, <1>1, ClosingKeeps DEF GiftsTypeOK
<1> QED  BY <1>0, <1>1, <1>2, EventsFrame DEF DonationsInv

LEMMA CompensationKeeps ==
  ASSUME DonationsInv, NEW g \in Gifts, compensateFailedDonation(g)
  PROVE  DonationsInv' /\ \A r \in Rows : payment[r] \in Kept <=> payment'[r] \in Kept
<1>0. GiftsTypeOK /\ RowsInv /\ EventsInv
  BY DEF DonationsInv
<1>1. /\ request[g] = "failing" /\ Goto(g, "over")
      /\ UNCHANGED <<first, linked, taken, told, queued, outrun, hook, job>>
  BY DEF compensateFailedDonation, providerVars, hookVars, moneyVars
<1>2. /\ request' \in [Gifts -> Requests]
      /\ \A h \in Gifts : request'[h] = "idle" <=> request[h] = "idle"
      /\ \A h \in Gifts : request'[h] = "answered" <=> request[h] = "answered"
  BY <1>0, <1>1 DEF Goto, GiftsTypeOK, Requests
<1>3. CASE CancelPending(g, "failed")
  <2>1. /\ GiftsTypeOK' /\ RowsInv' /\ Grows
        /\ \A r \in Rows : payment[r] \in Kept <=> payment'[r] \in Kept
    BY <1>0, <1>1, <1>2, <1>3, ClosingKeeps DEF GiftsTypeOK
  <2> QED  BY <1>0, <1>1, <2>1, EventsFrame DEF DonationsInv
<1>4. CASE UNCHANGED <<status, payment>>
  <2>1. RowsInv'
    BY <1>0, <1>1, <1>4, RequestMoves DEF Requests
  <2>2. GiftsTypeOK' /\ Grows
    BY <1>0, <1>1, <1>2, <1>4 DEF GiftsTypeOK, Grows, Past, Anchor
  <2> QED  BY <1>0, <1>1, <1>4, <2>1, <2>2, EventsFrame DEF DonationsInv
<1> QED  BY <1>3, <1>4 DEF compensateFailedDonation

-----------------------------------------------------------------------------
(* The donor and the provider.                                             *)

\* More money taken from a gift that was answered.
LEMMA TakingKeeps ==
  ASSUME DonationsInv, NEW c \in Charges, request[c[1]] = "answered",
         taken' = taken \cup {c},
         UNCHANGED <<request, status, payment, first, linked, hook, job, told, queued, outrun>>
  PROVE  DonationsInv'
<1>0. GiftsTypeOK /\ RowsInv /\ EventsInv
  BY DEF DonationsInv
<1>1. GiftsTypeOK' /\ Grows
  BY <1>0 DEF GiftsTypeOK, Grows, Past, Anchor
<1>2. RequestMakesRow' /\ PaidAfterAnswer'
  BY <1>0 DEF RowsInv, RequestMakesRow, PaidAfterAnswer, Anchor
<1>3. GiftMatchesPayment' /\ FirstComesFirst'
  BY <1>0 DEF RowsInv, GiftMatchesPayment, FirstComesFirst, Past, Anchor
<1>4. ToldIsBooked'
  BY <1>0 DEF RowsInv, ToldIsBooked, Anchor
<1> QED  BY <1>0, <1>1, <1>2, <1>3, <1>4, EventsFrame DEF DonationsInv, RowsInv

LEMMA PayKeeps ==
  ASSUME DonationsInv, NEW g \in Gifts, pay(g)
  PROVE  DonationsInv' /\ <<g, 0>> \in Charges /\ taken' = taken \cup {<<g, 0>>}
<1>1. <<g, 0>> \in Charges
  BY GiftFacts, ChargeFacts DEF pay
<1>2. /\ request[g] = "answered" /\ taken' = taken \cup {<<g, 0>>}
      /\ UNCHANGED <<request, status, payment, first, linked, hook, job, told, queued, outrun>>
  BY DEF pay, rowVars, hookVars, moneyVars
<1> QED  BY <1>1, <1>2, TakingKeeps

LEMMA PayInvoiceKeeps ==
  ASSUME DonationsInv, NEW g \in Gifts, NEW i \in Cycles, payInvoice(g, i)
  PROVE  DonationsInv' /\ <<g, i>> \in Charges /\ taken' = taken \cup {<<g, i>>}
<1>1. <<g, i>> \in Charges
  BY ChargeFacts DEF payInvoice
<1>2. /\ request[g] = "answered" /\ taken' = taken \cup {<<g, i>>}
      /\ UNCHANGED <<request, status, payment, first, linked, hook, job, told, queued, outrun>>
  BY DEF payInvoice, rowVars, hookVars, moneyVars
<1> QED  BY <1>1, <1>2, TakingKeeps

LEMMA ReceiveKeeps ==
  ASSUME DonationsInv, NEW e \in Events, receiveEvent(e)
  PROVE  DonationsInv'
<1>0. GiftsTypeOK /\ RowsInv /\ EventsInv
  BY DEF DonationsInv
<1>1. /\ UNCHANGED rowsRead /\ UNCHANGED <<job, queued, outrun>>
      /\ hook' = [hook EXCEPT ![e] = "received"]
      /\ e.type = "paid" => e.charge \in taken
  BY DEF receiveEvent, rowsRead, rowVars, providerVars, moneyVars, Happened
<1>2. RowsInv' /\ Grows
  BY <1>0, <1>1, RowsFrame, GrowsFrame
<1>3. GiftsTypeOK'
  BY <1>0, <1>1 DEF GiftsTypeOK, HookStates, rowsRead
<1>4. \A f \in Events : f # e => hook'[f] = hook[f]
  BY <1>0, <1>1 DEF GiftsTypeOK
<1>5. hook'[e] = "received"
  BY <1>0, <1>1 DEF GiftsTypeOK
<1>6. SentWhenTaken'
  BY <1>0, <1>1, <1>4 DEF EventsInv, SentWhenTaken, rowsRead
<1>7. ProcessedIsBooked'
  BY <1>0, <1>1, <1>4, <1>5 DEF EventsInv, ProcessedIsBooked, rowsRead
<1>8. \A w \in Runs : JobKnows(w)'
  BY <1>0, <1>1, <1>2, KnownStays DEF EventsInv
<1> QED  BY <1>2, <1>3, <1>6, <1>7, <1>8 DEF DonationsInv, EventsInv

-----------------------------------------------------------------------------
(* The runs.                                                               *)

\* An invoice that was paid is known to be one of a donation.
LEMMA PaidIsLinked ==
  ASSUME GiftsTypeOK, RowsInv, NEW e \in Events, e.type = "paid", e.charge \in taken
  PROVE  /\ GiftOf(e) \in Gifts /\ e.charge[1] = GiftOf(e) /\ request[GiftOf(e)] = "answered"
         /\ GiftOf(e) \in Monthlies => GiftOf(e) \in linked
         /\ GiftOf(e) \notin Monthlies => GiftOf(e) \in Singles
<1>1. GiftOf(e) \in Gifts /\ e.charge[1] = GiftOf(e)
  BY EventFacts DEF GiftOf
<1>2. request[GiftOf(e)] = "answered"
  BY <1>1 DEF RowsInv, PaidAfterAnswer
<1> QED  BY <1>1, <1>2, GiftFacts DEF RowsInv, RequestMakesRow

LEMMA PickKeeps ==
  ASSUME DonationsInv, NEW w \in Runs, NEW e \in Events, pickEvent(w, e)
  PROVE  DonationsInv'
<1>0. GiftsTypeOK /\ RowsInv /\ EventsInv
  BY DEF DonationsInv
<1>1. /\ UNCHANGED rowsRead /\ UNCHANGED <<hook, queued, outrun>>
      /\ job' = [job EXCEPT ![w] = [step |-> FirstStep(e), event |-> e]]
      /\ hook[e] = "received"
  BY DEF pickEvent, rowsRead, rowVars, providerVars, moneyVars
<1>2. RowsInv' /\ Grows
  BY <1>0, <1>1, RowsFrame, GrowsFrame
<1>3. FirstStep(e) \in {"finish", "look", "apply"}
  BY DEF FirstStep
<1>4. /\ job'[w].step = FirstStep(e) /\ job'[w].event = e
      /\ \A v \in Runs \ {w} : job'[v] = job[v]
  BY <1>0, <1>1 DEF GiftsTypeOK
<1>5. GiftsTypeOK'
  <2>1. [step |-> FirstStep(e), event |-> e] \in JobStates
    BY <1>3 DEF JobStates, Steps
  <2>2. job' \in [Runs -> JobStates]
    BY <1>0, <1>1, <2>1 DEF GiftsTypeOK
  <2> QED  BY <1>0, <1>1, <2>2 DEF GiftsTypeOK, rowsRead
<1>6. JobKnows(w)'
  <2> SUFFICES ASSUME e.type = "paid"
               PROVE  /\ e.charge \in taken'
                      /\ FirstStep(e) = "apply" => e.charge[1] \in Singles
                      /\ FirstStep(e) = "look" => e.charge[1] \in Monthlies
                      /\ FirstStep(e) # "finish"
    BY <1>3, <1>4 DEF JobKnows
  <2>1. e.charge \in taken /\ taken' = taken
    BY <1>0, <1>1 DEF EventsInv, SentWhenTaken, rowsRead
  <2>2. /\ e.charge[1] = GiftOf(e)
        /\ GiftOf(e) \in Monthlies => GiftOf(e) \in linked
        /\ GiftOf(e) \notin Monthlies => GiftOf(e) \in Singles
    BY <1>0, <2>1, PaidIsLinked
  <2>3. FirstStep(e) = IF GiftOf(e) \in Monthlies THEN "look" ELSE "apply"
    BY <2>2 DEF FirstStep, isDonationSubscription
  <2> QED  BY <2>1, <2>2, <2>3
<1> QED  BY <1>0, <1>1, <1>2, <1>4, <1>5, <1>6, OneRunMoves DEF DonationsInv

\* A run that stops leaves what it knew in the events.
LEMMA StopKeeps ==
  ASSUME DonationsInv, NEW w \in Runs, job[w] # Idle,
         UNCHANGED rowsRead, UNCHANGED <<queued, outrun>>, job' = [job EXCEPT ![w] = Idle],
         \/ UNCHANGED hook
         \/ hook' = [hook EXCEPT ![job[w].event] = "failed"]
         \/ job[w].step = "finish" /\ hook' = [hook EXCEPT ![job[w].event] = "processed"]
  PROVE  DonationsInv'
<1> DEFINE e == job[w].event
<1>0. GiftsTypeOK /\ RowsInv /\ EventsInv
  BY DEF DonationsInv
<1>1. RowsInv' /\ Grows
  BY <1>0, RowsFrame, GrowsFrame
<1>2. e \in Events
  BY <1>0 DEF GiftsTypeOK, JobStates
<1>3. job' \in [Runs -> JobStates] /\ job'[w] = Idle
      /\ \A v \in Runs \ {w} : job'[v] = job[v]
  BY <1>0 DEF GiftsTypeOK, JobStates
<1>4. /\ hook' \in [Events -> HookStates]
      /\ \A f \in Events : f # e => hook'[f] = hook[f]
      /\ hook'[e] = hook[e] \/ hook'[e] = "failed"
           \/ (hook'[e] = "processed" /\ job[w].step = "finish")
  BY <1>0, <1>2 DEF GiftsTypeOK, HookStates
<1>5. GiftsTypeOK'
  BY <1>0, <1>3, <1>4 DEF GiftsTypeOK, rowsRead
<1>6. e.type = "paid" => e.charge \in taken
  BY <1>0 DEF EventsInv, JobKnows
<1>7. SentWhenTaken'
  BY <1>0, <1>4, <1>6 DEF EventsInv, SentWhenTaken, rowsRead
<1>8. e.type = "paid" /\ job[w].step = "finish" => Booked(e.charge)
  BY <1>0 DEF EventsInv, JobKnows
<1>9. ProcessedIsBooked'
  BY <1>0, <1>4, <1>8 DEF EventsInv, ProcessedIsBooked, Booked, rowsRead
<1>10. \A v \in Runs : JobKnows(v)'
  <2>1. JobKnows(w)'
    BY <1>3 DEF JobKnows
  <2> QED  BY <1>0, <1>1, <1>3, <2>1, KnownStays DEF EventsInv
<1> QED  BY <1>1, <1>5, <1>7, <1>9, <1>10 DEF DonationsInv, EventsInv

LEMMA EndKeeps ==
  ASSUME DonationsInv, NEW w \in Runs, finishEvent(w) \/ eventFails(w) \/ runDies(w)
  PROVE  DonationsInv' /\ UNCHANGED rowsRead
<1>0. GiftsTypeOK
  BY DEF DonationsInv
<1>1. job[w] # Idle
  BY <1>0, AtWork DEF finishEvent, eventFails, runDies, Steps
<1>2. UNCHANGED rowsRead /\ UNCHANGED <<queued, outrun>> /\ job' = [job EXCEPT ![w] = Idle]
  <2>1. CASE finishEvent(w)
    BY <2>1 DEF finishEvent, rowsRead, rowVars, providerVars, moneyVars
  <2>2. CASE eventFails(w)
    BY <2>2 DEF eventFails, rowsRead, rowVars, providerVars, moneyVars
  <2>3. CASE runDies(w)
    BY <2>3 DEF runDies, rowsRead, rowVars, providerVars, moneyVars
  <2> QED  BY <2>1, <2>2, <2>3
<1>3. \/ UNCHANGED hook
      \/ hook' = [hook EXCEPT ![job[w].event] = "failed"]
      \/ job[w].step = "finish" /\ hook' = [hook EXCEPT ![job[w].event] = "processed"]
  BY DEF finishEvent, eventFails, runDies
<1> QED  BY <1>1, <1>2, <1>3, StopKeeps

\* The event of a run at a payment step, and its gift.
LEMMA AtPaid ==
  ASSUME DonationsInv, NEW w \in Runs, NEW step \in Steps, At(w, step, "paid")
  PROVE  /\ job[w] # Idle /\ job[w].event \in Events /\ job[w].event.type = "paid"
         /\ job[w].event.charge \in Charges /\ job[w].event.charge \in taken
         /\ GiftOf(job[w].event) \in Gifts /\ job[w].event.charge[1] = GiftOf(job[w].event)
         /\ status[Anchor(GiftOf(job[w].event))] # "none"
         /\ \A c : job[w].event.charge = c => /\ c[1] = GiftOf(job[w].event)
                                             /\ c[2] = CycleOf(job[w].event)
<1>0. GiftsTypeOK /\ RowsInv /\ EventsInv
  BY DEF DonationsInv
<1>1. job[w] # Idle /\ job[w].event \in Events /\ job[w].event.type = "paid"
  BY <1>0, AtWork DEF At
<1>2. job[w].event.charge \in taken
  BY <1>0, <1>1 DEF EventsInv, JobKnows
<1>3. status[Anchor(GiftOf(job[w].event))] # "none"
  BY <1>0, <1>1, <1>2, PaidIsLinked DEF RowsInv, RequestMakesRow
<1>4. \A c : job[w].event.charge = c => /\ c[1] = GiftOf(job[w].event)
                                       /\ c[2] = CycleOf(job[w].event)
  BY DEF GiftOf, CycleOf
<1> QED  BY <1>0, <1>1, <1>2, <1>3, <1>4, PaidIsLinked, EventFacts

\* The gift of a run that looks at, claims or adds to an anchor is a monthly one.
LEMMA AtInvoice ==
  ASSUME DonationsInv, NEW w \in Runs, NEW step \in {"look", "claim", "child"},
         At(w, step, "paid")
  PROVE  /\ GiftOf(job[w].event) \in Monthlies /\ CycleOf(job[w].event) \in Cycles
         /\ job[w].event.charge = <<GiftOf(job[w].event), CycleOf(job[w].event)>>
<1>1. /\ job[w] # Idle /\ job[w].event.type = "paid" /\ job[w].event.charge \in Charges
      /\ job[w].event.charge[1] = GiftOf(job[w].event)
  BY AtPaid DEF Steps
<1>2. GiftOf(job[w].event) \in Monthlies
  BY <1>1 DEF At, DonationsInv, EventsInv, JobKnows
<1>3. \E g \in Monthlies, i \in Cycles : job[w].event.charge = <<g, i>>
  BY <1>1, <1>2, ChargeFacts, GiftFacts
<1> QED  BY <1>2, <1>3 DEF GiftOf, CycleOf

\* An invoice is booked where it was told.
LEMMA BookedIsTold ==
  ASSUME RowsInv, NEW g \in Monthlies, NEW i \in Cycles
  PROVE  /\ BookedOn(g, i) # {} <=> (first[g] = i \/ status[<<g, i>>] # "none")
         /\ BookedOn(g, i) # {} => told[<<g, i>>] # "nothing"
         /\ BookedOn(g, i) = {} => told[<<g, i>>] = "nothing"
<1>1. BookedOn(g, i) # {} <=> (first[g] = i \/ status[<<g, i>>] # "none")
  <2>1. CASE first[g] = i
    <3>1. Anchor(g) \in Rows /\ Anchor(g)[1] = g
      BY RowFacts, GiftFacts DEF Anchor
    <3>2. Anchor(g) \in BookedOn(g, i)
      BY <2>1, <3>1 DEF BookedOn
    <3> QED  BY <2>1, <3>2
  <2>2. CASE status[<<g, i>>] # "none"
    <3>1. <<g, i>> \in BookedOn(g, i)
      BY <2>2, RowFacts DEF BookedOn
    <3> QED  BY <2>2, <3>1
  <2>3. CASE first[g] # i /\ status[<<g, i>>] = "none"
    BY <2>3 DEF BookedOn
  <2> QED  BY <2>1, <2>2, <2>3
<1> QED  BY <1>1 DEF RowsInv, ToldIsBooked

LEMMA LookKeeps ==
  ASSUME DonationsInv, NEW w \in Runs, lookAtAnchor(w)
  PROVE  DonationsInv' /\ UNCHANGED rowsRead
<1> DEFINE e == job[w].event
           g == GiftOf(e)
           i == CycleOf(e)
           next == IF BookedOn(g, i) # {} THEN "payout"
                   ELSE IF status[Anchor(g)] = "pending_payment" THEN "claim" ELSE "child"
<1>0. GiftsTypeOK /\ RowsInv /\ EventsInv
  BY DEF DonationsInv
<1>1. /\ At(w, "look", "paid") /\ Move(w, next)
      /\ UNCHANGED rowsRead /\ UNCHANGED <<hook, queued, outrun>>
  BY DEF lookAtAnchor, rowsRead, rowVars, providerVars, moneyVars
<1>2. /\ job[w] # Idle /\ e \in Events /\ e.type = "paid" /\ e.charge \in taken
      /\ g \in Gifts /\ status[Anchor(g)] # "none"
  BY <1>1, AtPaid DEF Steps
<1>3. g \in Monthlies /\ i \in Cycles /\ e.charge = <<g, i>> /\ e.charge[1] = g
  BY <1>1, AtInvoice
<1> HIDE DEF e, g, i
<1>4. next \in Steps
  BY DEF Steps
<1>5. /\ job' \in [Runs -> JobStates]
      /\ job'[w].step = next /\ job'[w].event = e
      /\ \A v \in Runs \ {w} : job'[v] = job[v]
  BY <1>0, <1>1, <1>2, <1>4, Moved DEF e
<1>6. RowsInv' /\ Grows
  BY <1>0, <1>1, RowsFrame, GrowsFrame
<1>7. GiftsTypeOK'
  BY <1>0, <1>1, <1>5 DEF GiftsTypeOK, rowsRead
<1>8. next = "payout" => told[e.charge] # "nothing"
  BY <1>0, <1>3, BookedIsTold
<1>9. next = "child" => Past(g)
  BY <1>2 DEF Past
<1>10. JobKnows(w)'
  <2>1. /\ e.charge \in taken' /\ e.charge[1] \in Monthlies
        /\ next = "payout" => told'[e.charge] # "nothing"
        /\ next \notin {"apply", "finish"}
    BY <1>1, <1>2, <1>3, <1>8 DEF rowsRead
  <2>2. next = "child" => status'[Anchor(g)] \notin {"none", "pending_payment"}
    BY <1>1, <1>9 DEF rowsRead, Past
  <2> HIDE DEF next
  <2> QED  BY <1>3, <1>5, <2>1, <2>2 DEF JobKnows, Past, Anchor
<1> QED  BY <1>0, <1>1, <1>5, <1>6, <1>7, <1>10, OneRunMoves DEF DonationsInv

\* What an announcement may do.
Announced(c) ==
  /\ c \in Charges /\ c \in taken /\ told[c] = "nothing"
  /\ \E news \in {"received", "orphaned"} : told' = [told EXCEPT ![c] = news]

LEMMA AnnouncedGrows ==
  ASSUME GiftsTypeOK, NEW c \in Charges, Announced(c)
  PROVE  /\ told' \in [Charges -> News] /\ told'[c] # "nothing"
         /\ \A d \in Charges : d # c => told'[d] = told[d]
         /\ \A d \in Charges : told[d] # "nothing" => told'[d] # "nothing"
BY DEF Announced, GiftsTypeOK, News

\* The payment of a single gift is claimed once.
LEMMA MarkPaidKeeps ==
  ASSUME DonationsInv, NEW g \in Singles, <<g, 0>> \in taken,
         payment[Anchor(g)] \in {"pending", "expired", "failed"}, markPaid(g),
         UNCHANGED <<request, first, linked, taken, hook, queued, outrun>>,
         job' \in [Runs -> JobStates]
  PROVE  /\ GiftsTypeOK' /\ RowsInv' /\ Grows /\ told'[<<g, 0>>] # "nothing"
         /\ Announced(<<g, 0>>)
         /\ \A r \in Rows : payment[r] = "refunded" <=> payment'[r] = "refunded"
<1>0. GiftsTypeOK /\ RowsInv
  BY DEF DonationsInv
<1> DEFINE c == <<g, 0>>
<1>1. c \in Charges /\ g \in Gifts /\ g \notin Monthlies /\ Anchor(g) \in Rows
  BY ChargeFacts, GiftFacts, RowFacts
<1>2. told[c] = "nothing"
  BY <1>0 DEF RowsInv, ToldIsBooked, Kept
<1>3. /\ payment' = [payment EXCEPT ![Anchor(g)] = "succeeded"]
      /\ \/ status[Anchor(g)] = "pending_payment"
            /\ status' = [status EXCEPT ![Anchor(g)] = "paid"]
         \/ status[Anchor(g)] # "pending_payment" /\ UNCHANGED status
  BY DEF markPaid
<1>4. Announced(c)
  BY <1>1, <1>2 DEF markPaid, Announced, Tell
<1>5. /\ told' \in [Charges -> News] /\ told'[c] # "nothing"
      /\ \A d \in Charges : d # c => told'[d] = told[d]
      /\ \A d \in Charges : told[d] # "nothing" => told'[d] # "nothing"
  BY <1>0, <1>1, <1>4, AnnouncedGrows
<1>6. /\ payment' \in [Rows -> Payments] /\ payment'[Anchor(g)] = "succeeded"
      /\ \A r \in Rows : r # Anchor(g) => payment'[r] = payment[r]
  BY <1>0, <1>1, <1>3 DEF GiftsTypeOK, Payments
<1>7. /\ status' \in [Rows -> Statuses]
      /\ \A r \in Rows : r # Anchor(g) => status'[r] = status[r]
      /\ status'[Anchor(g)] \notin {"none", "pending_payment"}
  <2>1. status[Anchor(g)] # "none"
    BY <1>0, <1>1 DEF RowsInv, GiftMatchesPayment
  <2>2. CASE status' = [status EXCEPT ![Anchor(g)] = "paid"]
    BY <1>0, <1>1, <2>2 DEF GiftsTypeOK, Statuses
  <2>3. CASE status[Anchor(g)] # "pending_payment" /\ UNCHANGED status
    BY <1>0, <2>1, <2>3 DEF GiftsTypeOK
  <2> QED  BY <1>3, <2>2, <2>3
<1>8. GiftsTypeOK'
  BY <1>0, <1>5, <1>6, <1>7 DEF GiftsTypeOK
<1>9. \A h \in Monthlies : /\ h # g /\ h \in Gifts /\ Anchor(h) \in Rows /\ Anchor(h) # Anchor(g)
                           /\ \A i \in Cycles : /\ <<h, i>> \in Rows /\ <<h, i>> \in Charges
                                                /\ <<h, i>> # c /\ <<h, i>> # Anchor(g)
  BY <1>1, RowFacts, ChargeFacts, GiftFacts DEF Anchor
<1>10. \A h \in Gifts : Past(h) => status'[Anchor(h)] \notin {"none", "pending_payment"}
  BY <1>7, RowFacts DEF Past
<1>11. Grows
  BY <1>5, <1>10 DEF Grows, Past, Anchor
<1>12. RequestMakesRow'
  <2>1. \A h \in Gifts : /\ request[h] = "idle" => status'[Anchor(h)] = "none"
                         /\ status'[Anchor(h)] = "none" => request[h] = "idle"
    <3>1. status[Anchor(g)] # "none"
      BY <1>0, <1>1 DEF RowsInv, GiftMatchesPayment
    <3> QED  BY <1>0, <1>7, <3>1, RowFacts DEF RowsInv, RequestMakesRow
  <2> QED  BY <1>0, <2>1 DEF RowsInv, RequestMakesRow, Anchor
<1>13. PaidAfterAnswer'
  BY <1>0 DEF RowsInv, PaidAfterAnswer
<1>14. GiftMatchesPayment'
  <2>1. \A r \in Rows : r # Anchor(g) => status'[r] = status[r] /\ payment'[r] = payment[r]
    BY <1>6, <1>7
  <2> QED  BY <1>0, <1>6, <1>7, <2>1 DEF RowsInv, GiftMatchesPayment
<1>15. FirstComesFirst'
  <2>1. \A h \in Monthlies :
          /\ status'[Anchor(h)] = status[Anchor(h)] /\ payment'[Anchor(h)] = payment[Anchor(h)]
          /\ \A i \in Cycles : status'[<<h, i>>] = status[<<h, i>>]
    BY <1>6, <1>7, <1>9
  <2>2. \A h \in Monthlies :
          /\ first[h] # 0 => status'[Anchor(h)] \notin {"none", "pending_payment"}
          /\ payment'[Anchor(h)] \in Kept => first[h] # 0
          /\ \A i \in Cycles : status'[<<h, i>>] # "none" =>
               status'[Anchor(h)] \notin {"none", "pending_payment"} /\ first[h] # i
    BY <1>0, <2>1 DEF RowsInv, FirstComesFirst, Past
  <2> QED  BY <2>2 DEF FirstComesFirst, Past, Anchor
<1>16. ToldIsBooked'
  <2>1. \A h \in Singles : h # g => /\ told'[<<h, 0>>] = told[<<h, 0>>]
                                    /\ payment'[Anchor(h)] = payment[Anchor(h)]
    BY <1>5, <1>6, RowFacts, GiftFacts, ChargeFacts
  <2>2. \A h \in Singles :
          /\ told'[<<h, 0>>] # "nothing" => payment'[Anchor(h)] \in Kept
          /\ payment'[Anchor(h)] \in Kept => told'[<<h, 0>>] # "nothing"
    BY <1>0, <1>5, <1>6, <2>1 DEF RowsInv, ToldIsBooked, Kept
  <2>3. \A h \in Monthlies, i \in Cycles : /\ told'[<<h, i>>] = told[<<h, i>>]
                                           /\ status'[<<h, i>>] = status[<<h, i>>]
    BY <1>5, <1>7, <1>9
  <2>4. \A d \in Charges : told'[d] # "nothing" => d \in taken
    BY <1>0, <1>5 DEF RowsInv, ToldIsBooked
  <2>5. \A h \in Monthlies, i \in Cycles :
          /\ told'[<<h, i>>] # "nothing" => first[h] = i \/ status'[<<h, i>>] # "none"
          /\ first[h] = i \/ status'[<<h, i>>] # "none" => told'[<<h, i>>] # "nothing"
    BY <1>0, <2>3 DEF RowsInv, ToldIsBooked
  <2> QED  BY <2>2, <2>4, <2>5 DEF ToldIsBooked, Anchor
<1>17. \A r \in Rows : payment[r] = "refunded" <=> payment'[r] = "refunded"
  BY <1>6
<1> QED  BY <1>4, <1>5, <1>8, <1>11, <1>12, <1>13, <1>14, <1>15, <1>16, <1>17 DEF RowsInv

LEMMA ApplyPaidKeeps ==
  ASSUME DonationsInv, NEW w \in Runs, applyPaid(w)
  PROVE  /\ DonationsInv' /\ UNCHANGED <<taken, first>>
         /\ UNCHANGED told \/ \E c \in Charges : Announced(c)
         /\ \A r \in Rows : payment[r] = "refunded" <=> payment'[r] = "refunded"
<1> DEFINE e == job[w].event
           g == GiftOf(e)
<1>0. GiftsTypeOK /\ RowsInv /\ EventsInv
  BY DEF DonationsInv
<1>1. /\ At(w, "apply", "paid") /\ Move(w, "payout") /\ markPaid(g)
      /\ UNCHANGED <<request, first, linked, taken, hook, queued, outrun>>
  BY DEF applyPaid, providerVars
<1>2. /\ job[w] # Idle /\ e \in Events /\ e.type = "paid" /\ e.charge \in taken
      /\ e.charge \in Charges /\ e.charge[1] = g /\ status[Anchor(g)] # "none"
  BY <1>1, AtPaid DEF Steps
<1>3. g \in Singles
  BY <1>0, <1>1, <1>2 DEF EventsInv, JobKnows, At
<1>4. e.charge = <<g, 0>>
  BY <1>2, <1>3, ChargeFacts, GiftFacts
<1> HIDE DEF e, g
<1>5. /\ job' \in [Runs -> JobStates] /\ job'[w].step = "payout" /\ job'[w].event = e
      /\ \A v \in Runs \ {w} : job'[v] = job[v]
  BY <1>0, <1>1, <1>2, Moved DEF e, Steps
<1>6. /\ GiftsTypeOK' /\ RowsInv' /\ Grows /\ told'[<<g, 0>>] # "nothing"
      /\ UNCHANGED told \/ \E c \in Charges : Announced(c)
      /\ \A r \in Rows : payment[r] = "refunded" <=> payment'[r] = "refunded"
  <2>1. CASE payment[Anchor(g)] \in {"pending", "expired", "failed"}
    BY <1>1, <1>2, <1>3, <1>4, <1>5, <2>1, MarkPaidKeeps, ChargeFacts
  <2>2. CASE payment[Anchor(g)] \notin {"pending", "expired", "failed"}
    <3>1. UNCHANGED <<status, payment, told>>
      BY <1>1, <2>2 DEF markPaid
    <3>2. payment[Anchor(g)] \in Kept
      BY <1>0, <1>2, <1>3, <2>2, RowFacts, GiftFacts
      DEF RowsInv, GiftMatchesPayment, GiftsTypeOK, Payments, Kept
    <3>3. told[<<g, 0>>] # "nothing"
      BY <1>0, <1>3, <3>2 DEF RowsInv, ToldIsBooked
    <3>4. UNCHANGED rowsRead
      BY <1>1, <3>1 DEF rowsRead
    <3>5. RowsInv' /\ Grows
      BY <1>0, <1>1, <3>4, RowsFrame, GrowsFrame
    <3>6. GiftsTypeOK'
      BY <1>0, <1>1, <1>5, <3>1 DEF GiftsTypeOK
    <3> QED  BY <3>1, <3>3, <3>5, <3>6
  <2> QED  BY <2>1, <2>2
<1>7. JobKnows(w)'
  BY <1>1, <1>2, <1>4, <1>5, <1>6 DEF JobKnows
<1> QED  BY <1>0, <1>1, <1>5, <1>6, <1>7, OneRunMoves DEF DonationsInv

\* An anchor that waits is claimed for one invoice, before any other is booked.
LEMMA ClaimKeepsRows ==
  ASSUME DonationsInv, NEW g \in Monthlies, NEW i \in Cycles, <<g, i>> \in taken,
         status[Anchor(g)] = "pending_payment",
         status' = [status EXCEPT ![Anchor(g)] = "paid"],
         first' = [first EXCEPT ![g] = i],
         payment' = [payment EXCEPT ![Anchor(g)] =
                       IF @ \in {"pending", "failed", "expired"} THEN "succeeded" ELSE @],
         Tell(<<g, i>>, "received"),
         UNCHANGED <<request, linked, taken, hook, queued>>, outrun' = outrun,
         job' \in [Runs -> JobStates]
  PROVE  /\ GiftsTypeOK' /\ RowsInv' /\ Grows /\ told'[<<g, i>>] # "nothing"
         /\ Announced(<<g, i>>)
         /\ \A r \in Rows : payment[r] = "refunded" <=> payment'[r] = "refunded"
         /\ payment[Anchor(g)] = "pending" /\ first[g] = 0
<1> DEFINE c == <<g, i>>
<1>0. GiftsTypeOK /\ RowsInv
  BY DEF DonationsInv
<1>1. /\ c \in Charges /\ g \in Gifts /\ g \notin Singles /\ Anchor(g) \in Rows
      /\ i # 0 /\ i \in 0..MaxCycles
  BY ChargeFacts, GiftFacts, RowFacts
<1>2. /\ ~Past(g) /\ first[g] = 0 /\ payment[Anchor(g)] = "pending"
      /\ \A j \in Cycles : status[<<g, j>>] = "none" /\ told[<<g, j>>] = "nothing"
  <2>1. ~Past(g) /\ first[g] = 0 /\ payment[Anchor(g)] = "pending"
    BY <1>0, <1>1 DEF RowsInv, FirstComesFirst, GiftMatchesPayment, Past
  <2>2. \A j \in Cycles : status[<<g, j>>] = "none"
    BY <1>0, <2>1 DEF RowsInv, FirstComesFirst
  <2>3. \A j \in Cycles : told[<<g, j>>] = "nothing"
    BY <1>0, <2>1, <2>2, GiftFacts DEF RowsInv, ToldIsBooked
  <2> QED  BY <2>1, <2>2, <2>3
<1>3. Announced(c)
  BY <1>1, <1>2 DEF Announced, Tell
<1>4. /\ told' \in [Charges -> News] /\ told'[c] # "nothing"
      /\ \A d \in Charges : d # c => told'[d] = told[d]
      /\ \A d \in Charges : told[d] # "nothing" => told'[d] # "nothing"
  BY <1>0, <1>1, <1>3, AnnouncedGrows
<1>5. /\ payment' \in [Rows -> Payments] /\ payment'[Anchor(g)] = "succeeded"
      /\ \A r \in Rows : r # Anchor(g) => payment'[r] = payment[r]
  BY <1>0, <1>1, <1>2 DEF GiftsTypeOK, Payments
<1>6. /\ status' \in [Rows -> Statuses] /\ status'[Anchor(g)] = "paid"
      /\ \A r \in Rows : r # Anchor(g) => status'[r] = status[r]
  BY <1>0, <1>1 DEF GiftsTypeOK, Statuses
<1>7. /\ first' \in [Gifts -> 0..MaxCycles] /\ first'[g] = i
      /\ \A h \in Gifts : h # g => first'[h] = first[h]
  BY <1>0, <1>1 DEF GiftsTypeOK
<1>8. GiftsTypeOK'
  BY <1>0, <1>4, <1>5, <1>6, <1>7 DEF GiftsTypeOK
<1>9. \A h \in Gifts : h # g => /\ Anchor(h) \in Rows /\ Anchor(h) # Anchor(g)
                               /\ status'[Anchor(h)] = status[Anchor(h)]
                               /\ payment'[Anchor(h)] = payment[Anchor(h)]
  BY <1>5, <1>6, RowFacts
<1>10. \A h \in Monthlies, j \in Cycles :
         h \in Gifts /\ <<h, j>> \in Charges /\ status'[<<h, j>>] = status[<<h, j>>]
  <2> SUFFICES ASSUME NEW h \in Monthlies, NEW j \in Cycles
               PROVE  /\ h \in Gifts /\ <<h, j>> \in Charges
                      /\ status'[<<h, j>>] = status[<<h, j>>]
    OBVIOUS
  <2>1. h \in Gifts /\ <<h, j>> \in Charges
    BY ChargeFacts, GiftFacts
  <2>2. <<h, j>> \in Rows /\ Anchor(g) # <<h, j>>
    BY RowFacts
  <2> QED  BY <1>6, <2>1, <2>2
<1>11. Grows
  <2>1. \A h \in Gifts : Past(h) => status'[Anchor(h)] \notin {"none", "pending_payment"}
    BY <1>2, <1>9 DEF Past
  <2> QED  BY <1>4, <2>1 DEF Grows, Past, Anchor
<1>12. RequestMakesRow'
  <2>1. \A h \in Gifts : /\ request[h] = "idle" => status'[Anchor(h)] = "none"
                         /\ status'[Anchor(h)] = "none" => request[h] = "idle"
    BY <1>0, <1>6, <1>9 DEF RowsInv, RequestMakesRow
  <2> QED  BY <1>0, <2>1 DEF RowsInv, RequestMakesRow, Anchor
<1>13. PaidAfterAnswer'
  BY <1>0 DEF RowsInv, PaidAfterAnswer
<1>14. GiftMatchesPayment'
  <2>1. \A r \in Rows : r # Anchor(g) => status'[r] = status[r] /\ payment'[r] = payment[r]
    BY <1>5, <1>6
  <2> QED  BY <1>0, <1>5, <1>6, <2>1 DEF RowsInv, GiftMatchesPayment
<1>15. FirstComesFirst'
  <2> SUFFICES ASSUME NEW h \in Monthlies
               PROVE  /\ first'[h] # 0 => status'[Anchor(h)] \notin {"none", "pending_payment"}
                      /\ payment'[Anchor(h)] \in Kept => first'[h] # 0
                      /\ \A j \in Cycles : status'[<<h, j>>] # "none" =>
                           /\ status'[Anchor(h)] \notin {"none", "pending_payment"}
                           /\ first'[h] # j
    BY DEF FirstComesFirst, Past, Anchor
  <2>1. CASE h = g
    <3>1. \A j \in Cycles : status'[<<g, j>>] = "none"
      BY <1>2, <1>10
    <3>2. first'[g] # 0 /\ status'[Anchor(g)] = "paid"
      BY <1>1, <1>6, <1>7
    <3> QED  BY <2>1, <3>1, <3>2
  <2>2. CASE h # g
    <3>1. /\ h \in Gifts /\ first'[h] = first[h]
          /\ status'[Anchor(h)] = status[Anchor(h)] /\ payment'[Anchor(h)] = payment[Anchor(h)]
      BY <1>7, <1>9, <2>2, GiftFacts
    <3>2. \A j \in Cycles : status'[<<h, j>>] = status[<<h, j>>]
      BY <1>10
    <3> QED  BY <1>0, <3>1, <3>2 DEF RowsInv, FirstComesFirst, Past
  <2> QED  BY <2>1, <2>2
<1>16. ToldIsBooked'
  <2>1. \A h \in Singles : /\ <<h, 0>> \in Charges /\ <<h, 0>> # c /\ h \in Gifts /\ h # g
                           /\ told'[<<h, 0>>] = told[<<h, 0>>]
    BY <1>1, <1>4, ChargeFacts, GiftFacts
  <2>2. \A h \in Singles :
          /\ told'[<<h, 0>>] # "nothing" => payment'[Anchor(h)] \in Kept
          /\ payment'[Anchor(h)] \in Kept => told'[<<h, 0>>] # "nothing"
    BY <1>0, <1>9, <2>1 DEF RowsInv, ToldIsBooked
  <2>3. \A d \in Charges : told'[d] # "nothing" => d \in taken
    BY <1>0, <1>4 DEF RowsInv, ToldIsBooked
  <2>4. \A j \in Cycles :
          /\ told'[<<g, j>>] # "nothing" => first'[g] = j \/ status'[<<g, j>>] # "none"
          /\ first'[g] = j \/ status'[<<g, j>>] # "none" => told'[<<g, j>>] # "nothing"
    <3> SUFFICES ASSUME NEW j \in Cycles
                 PROVE  /\ told'[<<g, j>>] # "nothing" => first'[g] = j
                        /\ first'[g] = j => told'[<<g, j>>] # "nothing"
                        /\ status'[<<g, j>>] = "none"
      OBVIOUS
    <3>1. status'[<<g, j>>] = "none"
      BY <1>2, <1>10
    <3>2. CASE j = i
      BY <1>4, <1>7, <3>1, <3>2
    <3>3. CASE j # i
      BY <1>2, <1>4, <1>7, <1>10, <3>1, <3>3
    <3> QED  BY <3>2, <3>3
  <2>5. \A h \in Monthlies, j \in Cycles : h # g =>
          told'[<<h, j>>] = told[<<h, j>>] /\ first'[h] = first[h]
    BY <1>4, <1>7, <1>10
  <2>6. \A h \in Monthlies, j \in Cycles :
          /\ told'[<<h, j>>] # "nothing" => first'[h] = j \/ status'[<<h, j>>] # "none"
          /\ first'[h] = j \/ status'[<<h, j>>] # "none" => told'[<<h, j>>] # "nothing"
    <3> SUFFICES ASSUME NEW h \in Monthlies, NEW j \in Cycles
                 PROVE  /\ told'[<<h, j>>] # "nothing" => first'[h] = j \/ status'[<<h, j>>] # "none"
                        /\ first'[h] = j \/ status'[<<h, j>>] # "none" => told'[<<h, j>>] # "nothing"
      OBVIOUS
    <3>1. CASE h = g
      BY <2>4, <3>1
    <3>2. CASE h # g
      <4>1. /\ told'[<<h, j>>] = told[<<h, j>>] /\ first'[h] = first[h]
            /\ status'[<<h, j>>] = status[<<h, j>>]
        BY <1>10, <2>5, <3>2
      <4> QED  BY <1>0, <4>1 DEF RowsInv, ToldIsBooked
    <3> QED  BY <3>1, <3>2
  <2> QED  BY <2>2, <2>3, <2>6 DEF ToldIsBooked, Anchor
<1>17. \A r \in Rows : payment[r] = "refunded" <=> payment'[r] = "refunded"
  BY <1>2, <1>5
<1> QED  BY <1>2, <1>3, <1>4, <1>8, <1>11, <1>12, <1>13, <1>14, <1>15, <1>16, <1>17 DEF RowsInv

\* A later invoice gets a row of its own, once.
LEMMA ChildKeepsRows ==
  ASSUME DonationsInv, NEW g \in Monthlies, NEW i \in Cycles, <<g, i>> \in taken, Past(g),
         BookedOn(g, i) = {},
         status' = [status EXCEPT ![<<g, i>>] = "paid"],
         payment' = [payment EXCEPT ![<<g, i>>] = "succeeded"],
         Tell(<<g, i>>, "received"),
         UNCHANGED <<request, first, linked, taken, hook, queued, outrun>>,
         job' \in [Runs -> JobStates]
  PROVE  /\ GiftsTypeOK' /\ RowsInv' /\ Grows /\ told'[<<g, i>>] # "nothing"
         /\ Announced(<<g, i>>)
         /\ \A r \in Rows : payment[r] = "refunded" <=> payment'[r] = "refunded"
<1> DEFINE c == <<g, i>>
<1>0. GiftsTypeOK /\ RowsInv
  BY DEF DonationsInv
<1>1. c \in Charges /\ c \in Rows /\ \A h : Anchor(h) # c
  BY ChargeFacts, RowFacts
<1>2. first[g] # i /\ status[c] = "none" /\ payment[c] = "none" /\ told[c] = "nothing"
  BY <1>0, <1>1, BookedIsTold DEF RowsInv, GiftMatchesPayment
<1>3. Announced(c)
  BY <1>1, <1>2 DEF Announced, Tell
<1>4. /\ told' \in [Charges -> News] /\ told'[c] # "nothing"
      /\ \A d \in Charges : d # c => told'[d] = told[d]
      /\ \A d \in Charges : told[d] # "nothing" => told'[d] # "nothing"
  BY <1>0, <1>1, <1>3, AnnouncedGrows
<1>5. /\ payment' \in [Rows -> Payments] /\ payment'[c] = "succeeded"
      /\ \A r \in Rows : r # c => payment'[r] = payment[r]
  BY <1>0, <1>1 DEF GiftsTypeOK, Payments
<1>6. /\ status' \in [Rows -> Statuses] /\ status'[c] = "paid"
      /\ \A r \in Rows : r # c => status'[r] = status[r]
  BY <1>0, <1>1 DEF GiftsTypeOK, Statuses
<1>7. GiftsTypeOK'
  BY <1>0, <1>4, <1>5, <1>6 DEF GiftsTypeOK
<1>8. \A h \in Gifts : /\ status'[Anchor(h)] = status[Anchor(h)]
                       /\ payment'[Anchor(h)] = payment[Anchor(h)]
  BY <1>1, <1>5, <1>6, RowFacts
<1>9. Grows
  BY <1>4, <1>8 DEF Grows, Past, Anchor
<1>10. RequestMakesRow' /\ PaidAfterAnswer'
  BY <1>0, <1>8 DEF RowsInv, RequestMakesRow, PaidAfterAnswer, Anchor
<1>11. GiftMatchesPayment'
  <2>1. \A r \in Rows : r # c => status'[r] = status[r] /\ payment'[r] = payment[r]
    BY <1>5, <1>6
  <2> QED  BY <1>0, <1>5, <1>6, <2>1 DEF RowsInv, GiftMatchesPayment
<1>12. FirstComesFirst'
  <2>1. \A h \in Monthlies, j \in Cycles :
          /\ h \in Gifts /\ <<h, j>> \in Rows
          /\ h # g \/ j # i => status'[<<h, j>>] = status[<<h, j>>]
    BY <1>6, RowFacts, GiftFacts
  <2>2. \A h \in Monthlies :
          /\ first[h] # 0 => Past(h)
          /\ payment'[Anchor(h)] \in Kept => first[h] # 0
    BY <1>0, <1>8, <2>1, GiftFacts DEF RowsInv, FirstComesFirst
  <2>3. \A h \in Monthlies, j \in Cycles : status'[<<h, j>>] # "none" => Past(h) /\ first[h] # j
    BY <1>0, <1>2, <2>1 DEF RowsInv, FirstComesFirst
  <2>4. \A h \in Monthlies : Past(h) => status'[Anchor(h)] \notin {"none", "pending_payment"}
    BY <1>8, GiftFacts DEF Past
  <2> QED  BY <2>2, <2>3, <2>4 DEF FirstComesFirst, Past, Anchor
<1>13. ToldIsBooked'
  <2>1. \A h \in Singles : /\ <<h, 0>> \in Charges /\ <<h, 0>> # c /\ h \in Gifts
                           /\ told'[<<h, 0>>] = told[<<h, 0>>]
    BY <1>4, ChargeFacts, GiftFacts
  <2>2. \A h \in Singles :
          /\ told'[<<h, 0>>] # "nothing" => payment'[Anchor(h)] \in Kept
          /\ payment'[Anchor(h)] \in Kept => told'[<<h, 0>>] # "nothing"
    BY <1>0, <1>8, <2>1 DEF RowsInv, ToldIsBooked
  <2>3. \A d \in Charges : told'[d] # "nothing" => d \in taken
    BY <1>0, <1>4 DEF RowsInv, ToldIsBooked
  <2>4. \A h \in Monthlies, j \in Cycles : h # g \/ j # i =>
          told'[<<h, j>>] = told[<<h, j>>] /\ status'[<<h, j>>] = status[<<h, j>>]
    BY <1>4, <1>6, RowFacts, ChargeFacts
  <2>5. \A h \in Monthlies, j \in Cycles :
          /\ told'[<<h, j>>] # "nothing" => first[h] = j \/ status'[<<h, j>>] # "none"
          /\ first[h] = j \/ status'[<<h, j>>] # "none" => told'[<<h, j>>] # "nothing"
    <3> SUFFICES ASSUME NEW h \in Monthlies, NEW j \in Cycles
                 PROVE  /\ told'[<<h, j>>] # "nothing" => first[h] = j \/ status'[<<h, j>>] # "none"
                        /\ first[h] = j \/ status'[<<h, j>>] # "none" => told'[<<h, j>>] # "nothing"
      OBVIOUS
    <3>1. CASE h = g /\ j = i
      BY <1>4, <1>6, <3>1
    <3>2. CASE h # g \/ j # i
      BY <1>0, <2>4, <3>2 DEF RowsInv, ToldIsBooked
    <3> QED  BY <3>1, <3>2
  <2> QED  BY <2>2, <2>3, <2>5 DEF ToldIsBooked, Anchor
<1>14. \A r \in Rows : payment[r] = "refunded" <=> payment'[r] = "refunded"
  BY <1>2, <1>5
<1> QED  BY <1>3, <1>4, <1>7, <1>9, <1>10, <1>11, <1>12, <1>13, <1>14 DEF RowsInv

\* What a step that returns no money leaves alone.
ReturnsStay ==
  /\ \A r \in Rows : payment[r] = "refunded" <=> payment'[r] = "refunded"
  /\ \A h \in Gifts : payment[Anchor(h)] = "refunded" => first'[h] = first[h]

LEMMA ClaimKeeps ==
  ASSUME DonationsInv, NEW w \in Runs, claimAnchor(w)
  PROVE  /\ DonationsInv' /\ UNCHANGED taken /\ ReturnsStay
         /\ UNCHANGED told \/ \E c \in Charges : Announced(c)
<1> DEFINE e == job[w].event
           g == GiftOf(e)
           i == CycleOf(e)
<1>0. GiftsTypeOK /\ RowsInv /\ EventsInv
  BY DEF DonationsInv
<1>1. /\ At(w, "claim", "paid") /\ Move(w, "payout")
      /\ UNCHANGED <<request, linked, taken, hook, queued>>
  BY DEF claimAnchor, providerVars
<1>2. /\ job[w] # Idle /\ e \in Events /\ e.type = "paid" /\ e.charge \in taken
      /\ g \in Gifts /\ status[Anchor(g)] # "none"
  BY <1>1, AtPaid DEF Steps
<1>3. g \in Monthlies /\ i \in Cycles /\ e.charge = <<g, i>> /\ <<g, i>> \in Charges
  BY <1>1, AtInvoice, ChargeFacts
<1>4. \/ /\ status[Anchor(g)] = "pending_payment"
         /\ status' = [status EXCEPT ![Anchor(g)] = "paid"]
         /\ first' = [first EXCEPT ![g] = i]
         /\ payment' = [payment EXCEPT ![Anchor(g)] =
                          IF @ \in {"pending", "failed", "expired"} THEN "succeeded" ELSE @]
         /\ Tell(<<g, i>>, "received") /\ outrun' = outrun
      \/ /\ outrun' = IF first[g] = i THEN outrun ELSE outrun \cup {<<g, i>>}
         /\ UNCHANGED <<status, first, payment, told>>
  BY DEF claimAnchor
<1> HIDE DEF e, g, i
<1>5. /\ job' \in [Runs -> JobStates] /\ job'[w].step = "payout" /\ job'[w].event = e
      /\ \A v \in Runs \ {w} : job'[v] = job[v]
  BY <1>0, <1>1, <1>2, Moved DEF e, Steps
<1>6. /\ GiftsTypeOK' /\ RowsInv' /\ Grows /\ ReturnsStay
      /\ <<g, i>> \in outrun' \/ told'[<<g, i>>] # "nothing"
      /\ UNCHANGED told \/ \E c \in Charges : Announced(c)
  <2>1. CASE /\ status[Anchor(g)] = "pending_payment"
             /\ status' = [status EXCEPT ![Anchor(g)] = "paid"]
             /\ first' = [first EXCEPT ![g] = i]
             /\ payment' = [payment EXCEPT ![Anchor(g)] =
                              IF @ \in {"pending", "failed", "expired"} THEN "succeeded" ELSE @]
             /\ Tell(<<g, i>>, "received") /\ outrun' = outrun
    <3>1. /\ GiftsTypeOK' /\ RowsInv' /\ Grows /\ told'[<<g, i>>] # "nothing"
          /\ Announced(<<g, i>>)
          /\ \A r \in Rows : payment[r] = "refunded" <=> payment'[r] = "refunded"
          /\ payment[Anchor(g)] = "pending"
      BY <1>1, <1>2, <1>3, <1>5, <2>1, ClaimKeepsRows
    <3>2. \A h \in Gifts : payment[Anchor(h)] = "refunded" => first'[h] = first[h]
      BY <1>0, <2>1, <3>1 DEF GiftsTypeOK
    <3> QED  BY <1>3, <3>1, <3>2 DEF ReturnsStay
  <2>2. CASE /\ outrun' = IF first[g] = i THEN outrun ELSE outrun \cup {<<g, i>>}
             /\ UNCHANGED <<status, first, payment, told>>
    <3>1. UNCHANGED rowsRead
      BY <1>1, <2>2 DEF rowsRead
    <3>2. outrun \subseteq outrun' /\ queued \subseteq queued'
      BY <1>1, <2>2
    <3>3. RowsInv' /\ Grows
      BY <1>0, <3>1, <3>2, RowsFrame, GrowsFrame
    <3>4. GiftsTypeOK'
      BY <1>0, <1>1, <1>5, <2>2 DEF GiftsTypeOK
    <3>5. first[g] = i => told[<<g, i>>] # "nothing"
      BY <1>0, <1>3 DEF RowsInv, ToldIsBooked
    <3> QED  BY <2>2, <3>3, <3>4, <3>5 DEF ReturnsStay
  <2> QED  BY <1>4, <2>1, <2>2
<1>7. JobKnows(w)'
  BY <1>1, <1>2, <1>3, <1>5, <1>6 DEF JobKnows
<1> QED  BY <1>0, <1>1, <1>5, <1>6, <1>7, OneRunMoves DEF DonationsInv

LEMMA ChildKeeps ==
  ASSUME DonationsInv, NEW w \in Runs, createChild(w)
  PROVE  /\ DonationsInv' /\ UNCHANGED taken /\ ReturnsStay
         /\ UNCHANGED told \/ \E c \in Charges : Announced(c)
<1> DEFINE e == job[w].event
           g == GiftOf(e)
           i == CycleOf(e)
<1>0. GiftsTypeOK /\ RowsInv /\ EventsInv
  BY DEF DonationsInv
<1>1. /\ At(w, "child", "paid") /\ Move(w, "payout")
      /\ UNCHANGED <<request, first, linked, taken, hook, queued, outrun>>
  BY DEF createChild, providerVars
<1>2. /\ job[w] # Idle /\ e \in Events /\ e.type = "paid" /\ e.charge \in taken
  BY <1>1, AtPaid DEF Steps
<1>3. /\ g \in Monthlies /\ i \in Cycles /\ e.charge = <<g, i>> /\ e.charge[1] = g
      /\ <<g, i>> \in Charges
  BY <1>1, AtInvoice, ChargeFacts
<1>4. \/ /\ BookedOn(g, i) = {}
         /\ status' = [status EXCEPT ![<<g, i>>] = "paid"]
         /\ payment' = [payment EXCEPT ![<<g, i>>] = "succeeded"]
         /\ Tell(<<g, i>>, "received")
      \/ BookedOn(g, i) # {} /\ UNCHANGED <<status, payment, told>>
  BY DEF createChild
<1>5. Past(g)
  BY <1>0, <1>1, <1>2, <1>3 DEF EventsInv, JobKnows, At
<1> HIDE DEF e, g, i
<1>6. /\ job' \in [Runs -> JobStates] /\ job'[w].step = "payout" /\ job'[w].event = e
      /\ \A v \in Runs \ {w} : job'[v] = job[v]
  BY <1>0, <1>1, <1>2, Moved DEF e, Steps
<1>7. /\ GiftsTypeOK' /\ RowsInv' /\ Grows /\ ReturnsStay
      /\ told'[<<g, i>>] # "nothing"
      /\ UNCHANGED told \/ \E c \in Charges : Announced(c)
  <2>1. CASE /\ BookedOn(g, i) = {}
             /\ status' = [status EXCEPT ![<<g, i>>] = "paid"]
             /\ payment' = [payment EXCEPT ![<<g, i>>] = "succeeded"]
             /\ Tell(<<g, i>>, "received")
    BY <1>1, <1>2, <1>3, <1>5, <1>6, <2>1, ChildKeepsRows DEF ReturnsStay
  <2>2. CASE BookedOn(g, i) # {} /\ UNCHANGED <<status, payment, told>>
    <3>1. UNCHANGED rowsRead
      BY <1>1, <2>2 DEF rowsRead
    <3>2. RowsInv' /\ Grows
      BY <1>0, <1>1, <3>1, RowsFrame, GrowsFrame
    <3>3. GiftsTypeOK'
      BY <1>0, <1>1, <1>6, <2>2 DEF GiftsTypeOK
    <3>4. told[<<g, i>>] # "nothing"
      BY <1>0, <1>3, <2>2, BookedIsTold
    <3> QED  BY <1>1, <2>2, <3>2, <3>3, <3>4 DEF ReturnsStay
  <2> QED  BY <1>4, <2>1, <2>2
<1>8. JobKnows(w)'
  BY <1>1, <1>2, <1>3, <1>6, <1>7 DEF JobKnows
<1> QED  BY <1>0, <1>1, <1>6, <1>7, <1>8, OneRunMoves DEF DonationsInv

LEMMA EnqueueKeeps ==
  ASSUME DonationsInv, NEW w \in Runs, enqueueTransfer(w)
  PROVE  DonationsInv' /\ UNCHANGED rowsRead
<1> DEFINE e == job[w].event
           g == GiftOf(e)
           i == CycleOf(e)
<1>0. GiftsTypeOK /\ RowsInv /\ EventsInv
  BY DEF DonationsInv
<1>1. /\ At(w, "payout", "paid") /\ Move(w, "finish")
      /\ UNCHANGED rowsRead /\ UNCHANGED <<hook, outrun>> /\ queued \subseteq queued'
      /\ (g \in Monthlies /\ BookedOn(g, i) = {}) \/ e.charge \in queued'
  BY DEF enqueueTransfer, rowsRead, rowVars, providerVars
<1>2. /\ job[w] # Idle /\ e \in Events /\ e.type = "paid" /\ e.charge \in taken
      /\ e.charge \in Charges /\ e.charge[1] = g
  BY <1>1, AtPaid DEF Steps
<1>3. e.charge \in outrun \/ told[e.charge] # "nothing"
  BY <1>0, <1>1, <1>2 DEF EventsInv, JobKnows, At
<1>4. g \in Monthlies => i \in Cycles /\ e.charge = <<g, i>>
  <2>1. g \in Monthlies => \E h \in Monthlies, j \in Cycles : e.charge = <<h, j>>
    BY <1>2, ChargeFacts, GiftFacts
  <2> QED  BY <2>1 DEF GiftOf, CycleOf
<1>5. e.charge \in outrun \/ (told[e.charge] # "nothing" /\ e.charge \in queued')
  BY <1>0, <1>1, <1>3, <1>4, BookedIsTold
<1> HIDE DEF e, g, i
<1>6. /\ job' \in [Runs -> JobStates] /\ job'[w].step = "finish" /\ job'[w].event = e
      /\ \A v \in Runs \ {w} : job'[v] = job[v]
  BY <1>0, <1>1, <1>2, Moved DEF e, Steps
<1>7. RowsInv' /\ Grows
  BY <1>0, <1>1, RowsFrame, GrowsFrame
<1>8. GiftsTypeOK'
  BY <1>0, <1>1, <1>6 DEF GiftsTypeOK, rowsRead
<1>9. JobKnows(w)'
  BY <1>1, <1>2, <1>5, <1>6 DEF JobKnows, Booked, rowsRead
<1> QED  BY <1>0, <1>1, <1>6, <1>7, <1>8, <1>9, OneRunMoves DEF DonationsInv

\* An event that is not of a payment says nothing a run would have to know.
LEMMA OtherEventMoves ==
  ASSUME GiftsTypeOK, EventsInv, Grows, UNCHANGED hook, NEW w \in Runs, job[w] # Idle,
         job[w].event.type # "paid", Move(w, "finish")
  PROVE  EventsInv'
<1>1. /\ job'[w].event = job[w].event
      /\ \A v \in Runs \ {w} : job'[v] = job[v]
  BY Moved DEF Steps
<1>2. JobKnows(w)'
  BY <1>1 DEF JobKnows
<1> QED  BY <1>1, <1>2, OneRunMoves

LEMMA ClosedKeeps ==
  ASSUME DonationsInv, NEW w \in Runs, applyClosed(w)
  PROVE  /\ DonationsInv' /\ UNCHANGED <<taken, told, first>>
         /\ \A r \in Rows : payment[r] \in Kept <=> payment'[r] \in Kept
         /\ \A r \in Rows : payment[r] = "refunded" <=> payment'[r] = "refunded"
<1> DEFINE e == job[w].event
           g == GiftOf(e)
<1>0. GiftsTypeOK /\ RowsInv /\ EventsInv
  BY DEF DonationsInv
<1>1. /\ At(w, "apply", "closed") /\ Move(w, "finish")
      /\ UNCHANGED <<request, first, linked, taken, hook, told, queued, outrun>>
      /\ \/ \E closed \in {"failed", "expired"} : CancelPending(g, closed)
         \/ UNCHANGED <<status, payment>>
  BY DEF applyClosed, providerVars, moneyVars
<1>2. job[w] # Idle /\ e \in Events /\ g \in Gifts /\ e.type # "paid"
  BY <1>0, <1>1, AtWork, EventFacts DEF At, Steps
<1>3. job' \in [Runs -> JobStates] /\ request' \in [Gifts -> Requests]
  BY <1>0, <1>1, <1>2, Moved DEF Steps, GiftsTypeOK
<1> HIDE DEF e, g
<1>4. CASE \E closed \in {"failed", "expired"} : CancelPending(g, closed)
  <2> PICK closed \in {"failed", "expired"} : CancelPending(g, closed)
    BY <1>4
  <2>1. /\ GiftsTypeOK' /\ RowsInv' /\ Grows
        /\ \A r \in Rows : payment[r] \in Kept <=> payment'[r] \in Kept
    BY <1>0, <1>1, <1>2, <1>3, ClosingKeeps
  <2>2. \A r \in Rows : payment[r] = "refunded" <=> payment'[r] = "refunded"
    <3>1. payment' = [payment EXCEPT ![Anchor(g)] = IF @ = "pending" THEN closed ELSE @]
      BY DEF CancelPending
    <3> QED  BY <1>0, <1>2, <3>1, RowFacts DEF GiftsTypeOK
  <2>3. EventsInv'
    BY <1>0, <1>1, <1>2, <2>1, OtherEventMoves DEF e
  <2> QED  BY <1>1, <2>1, <2>2, <2>3 DEF DonationsInv
<1>5. CASE UNCHANGED <<status, payment>>
  <2>1. UNCHANGED rowsRead
    BY <1>1, <1>5 DEF rowsRead
  <2>2. RowsInv' /\ Grows
    BY <1>0, <1>1, <2>1, RowsFrame, GrowsFrame
  <2>3. GiftsTypeOK'
    BY <1>0, <1>1, <1>3, <1>5 DEF GiftsTypeOK
  <2>4. EventsInv'
    BY <1>0, <1>1, <1>2, <2>2, OtherEventMoves DEF e
  <2> QED  BY <1>1, <1>5, <2>2, <2>3, <2>4 DEF DonationsInv
<1> QED  BY <1>1, <1>4, <1>5

LEMMA DeletedKeeps ==
  ASSUME DonationsInv, NEW w \in Runs, applyDeleted(w)
  PROVE  DonationsInv' /\ UNCHANGED rowsRead
<1>0. GiftsTypeOK /\ RowsInv /\ EventsInv
  BY DEF DonationsInv
<1>1. /\ At(w, "apply", "deleted") /\ Move(w, "finish")
      /\ UNCHANGED rowsRead /\ UNCHANGED <<hook, queued, outrun>>
  BY DEF applyDeleted, rowsRead, providerVars, moneyVars
<1>2. job[w] # Idle /\ job[w].event.type # "paid"
  BY <1>0, <1>1, AtWork DEF At, Steps
<1>3. job' \in [Runs -> JobStates]
  BY <1>0, <1>1, <1>2, Moved DEF Steps
<1>4. RowsInv' /\ Grows
  BY <1>0, <1>1, RowsFrame, GrowsFrame
<1>5. GiftsTypeOK'
  BY <1>0, <1>1, <1>3 DEF GiftsTypeOK, rowsRead
<1>6. EventsInv'
  BY <1>0, <1>1, <1>2, <1>4, OtherEventMoves
<1> QED  BY <1>1, <1>4, <1>5, <1>6 DEF DonationsInv

\* The rows found for a charge that is given back are those it was booked on.
LEMMA PaidRowsAreItsOwn ==
  ASSUME GiftsTypeOK, RowsInv, NEW c \in Charges, NEW r \in PaidRows(c),
         payment[r] = "succeeded"
  PROVE  r \in Rows /\ ChargeOf(r) = c /\ told[c] \in {"received", "orphaned"}
<1>1. CASE \E g \in Singles : c = <<g, 0>>
  <2> PICK g \in Singles : c = <<g, 0>>
    BY <1>1
  <2>1. r = c /\ r = Anchor(g) /\ r[1] = g /\ g \in Gifts /\ g \notin Monthlies
    BY GiftFacts DEF PaidRows, Anchor
  <2>2. r \in Rows /\ ChargeOf(r) = c
    BY <2>1, RowFacts DEF ChargeOf
  <2>3. told[c] # "nothing"
    BY <2>1 DEF RowsInv, ToldIsBooked, Kept
  <2> QED  BY <2>2, <2>3 DEF GiftsTypeOK, News
<1>2. CASE \E g \in Monthlies, i \in Cycles : c = <<g, i>>
  <2> PICK g \in Monthlies, i \in Cycles : c = <<g, i>>
    BY <1>2
  <2>1. i # 0 /\ c[1] = g /\ c[2] = i
    BY GiftFacts
  <2>2. r \in BookedOn(g, i)
    BY <2>1 DEF PaidRows
  <2>3. r \in Rows /\ ((r = Anchor(g) /\ first[g] = i) \/ r = <<g, i>>)
    BY <2>2 DEF BookedOn
  <2>4. ChargeOf(r) = c
    BY <2>1, <2>3 DEF ChargeOf, Anchor
  <2>5. told[c] # "nothing"
    BY <2>2, BookedIsTold
  <2> QED  BY <2>3, <2>4, <2>5 DEF GiftsTypeOK, News
<1> QED  BY <1>1, <1>2, ChargeFacts

LEMMA RefundKeeps ==
  ASSUME DonationsInv, NEW w \in Runs, markRefunded(w)
  PROVE  /\ DonationsInv' /\ UNCHANGED <<taken, told, first>>
         /\ \E c \in Charges :
              \/ Returned' = Returned
              \/ /\ Returned' = Returned \cup {c} /\ told[c] \in {"received", "orphaned"}
                 /\ c \notin Returned
<1> DEFINE e == job[w].event
           c == e.charge
           R == {r \in PaidRows(c) : payment[r] = "succeeded"}
<1>0. GiftsTypeOK /\ RowsInv /\ EventsInv
  BY DEF DonationsInv
<1>1. /\ At(w, "apply", "refunded") /\ Move(w, "finish")
      /\ UNCHANGED <<request, first, linked, taken, hook, told, queued, outrun>>
      /\ payment' = [r \in Rows |-> IF r \in R THEN "refunded" ELSE payment[r]]
      /\ status' = [r \in Rows |-> IF r \in R /\ status[r] = "paid" THEN "refunded"
                                   ELSE status[r]]
  BY DEF markRefunded, providerVars, moneyVars
<1>2. job[w] # Idle /\ e \in Events /\ e.type # "paid" /\ c \in Charges
  BY <1>0, <1>1, AtWork, EventFacts DEF At, Steps
<1>3. job' \in [Runs -> JobStates]
  BY <1>0, <1>1, <1>2, Moved DEF Steps
<1>4. \A r \in R : /\ r \in Rows /\ payment[r] = "succeeded" /\ ChargeOf(r) = c
                   /\ told[c] \in {"received", "orphaned"}
  BY <1>0, <1>2, PaidRowsAreItsOwn
<1> HIDE DEF e, c, R
<1>5. \A r \in Rows :
        /\ payment'[r] = IF r \in R THEN "refunded" ELSE payment[r]
        /\ status'[r] = IF r \in R /\ status[r] = "paid" THEN "refunded" ELSE status[r]
  BY <1>1
<1>6. payment' \in [Rows -> Payments] /\ status' \in [Rows -> Statuses]
  BY <1>0, <1>1 DEF GiftsTypeOK, Payments, Statuses
<1>7. GiftsTypeOK'
  BY <1>0, <1>1, <1>3, <1>6 DEF GiftsTypeOK
<1>8. \A r \in Rows : /\ status[r] = "none" <=> status'[r] = "none"
                      /\ status[r] = "pending_payment" <=> status'[r] = "pending_payment"
                      /\ payment[r] \in Kept <=> payment'[r] \in Kept
  BY <1>4, <1>5 DEF Kept
<1>9. GiftMatchesPayment'
  <2>1. \A r \in Rows :
          /\ status'[r] = "none" => payment'[r] = "none"
          /\ payment'[r] = "none" => status'[r] = "none"
          /\ status'[r] = "pending_payment" => payment'[r] = "pending"
          /\ status'[r] = "paid" => payment'[r] = "succeeded"
    BY <1>0, <1>4, <1>5 DEF RowsInv, GiftMatchesPayment
  <2> QED  BY <2>1 DEF GiftMatchesPayment
<1>10. \A h \in Gifts :
         /\ Past(h) <=> status'[Anchor(h)] \notin {"none", "pending_payment"}
         /\ status[Anchor(h)] = "none" <=> status'[Anchor(h)] = "none"
         /\ payment[Anchor(h)] \in Kept <=> payment'[Anchor(h)] \in Kept
  BY <1>8, RowFacts DEF Past
<1>11. \A h \in Monthlies, j \in Cycles : status[<<h, j>>] = "none" <=> status'[<<h, j>>] = "none"
  BY <1>8, RowFacts
<1>12. RequestMakesRow' /\ PaidAfterAnswer'
  BY <1>0, <1>1, <1>10 DEF RowsInv, RequestMakesRow, PaidAfterAnswer, Anchor
<1>13. FirstComesFirst'
  <2>1. \A h \in Monthlies :
          /\ first[h] # 0 => status'[Anchor(h)] \notin {"none", "pending_payment"}
          /\ payment'[Anchor(h)] \in Kept => first[h] # 0
    BY <1>0, <1>10, GiftFacts DEF RowsInv, FirstComesFirst
  <2>2. \A h \in Monthlies, j \in Cycles : status'[<<h, j>>] # "none" =>
          status'[Anchor(h)] \notin {"none", "pending_payment"} /\ first[h] # j
    BY <1>0, <1>10, <1>11, GiftFacts DEF RowsInv, FirstComesFirst
  <2> QED  BY <1>1, <2>1, <2>2 DEF FirstComesFirst, Past, Anchor
<1>14. ToldIsBooked'
  BY <1>0, <1>1, <1>10, <1>11, GiftFacts DEF RowsInv, ToldIsBooked, Anchor
<1>15. Grows
  BY <1>1, <1>10 DEF Grows, Past, Anchor
<1>16. EventsInv'
  BY <1>0, <1>1, <1>2, <1>15, OtherEventMoves DEF e
<1>17. \A r \in Rows : ChargeOf(r)' = ChargeOf(r)
  BY <1>1 DEF ChargeOf
<1>18. Returned' = Returned \cup {d \in Charges : d = c /\ R # {}}
  <2>1. \A r \in Rows : payment'[r] = "refunded" <=> (r \in R \/ payment[r] = "refunded")
    BY <1>5
  <2> QED  BY <1>2, <1>4, <1>17, <2>1 DEF Returned
<1>19. \/ Returned' = Returned
       \/ /\ Returned' = Returned \cup {c} /\ told[c] \in {"received", "orphaned"}
          /\ c \notin Returned
  <2>1. CASE R = {}
    BY <1>18, <2>1
  <2>2. CASE R # {}
    <3>1. Returned' = Returned \cup {c} /\ told[c] \in {"received", "orphaned"}
      BY <1>2, <1>4, <1>18, <2>2
    <3> QED  BY <3>1
  <2> QED  BY <2>1, <2>2
<1> QED  BY <1>1, <1>2, <1>7, <1>9, <1>12, <1>13, <1>14, <1>16, <1>19 DEF DonationsInv, RowsInv

-----------------------------------------------------------------------------
(* What a step is to the ledger.                                           *)

LedgerStep == L!Next \/ UNCHANGED L!vars

LEMMA ReturnedStays ==
  ASSUME ReturnsStay
  PROVE  Returned' = Returned
<1>1. \A r \in Rows : payment[r] = "refunded" => ChargeOf(r)' = ChargeOf(r)
  <2> SUFFICES ASSUME NEW r \in Rows, payment[r] = "refunded"
               PROVE  ChargeOf(r)' = ChargeOf(r)
    OBVIOUS
  <2>1. CASE \E h \in Gifts : r = Anchor(h)
    <3> PICK h \in Gifts : r = Anchor(h)
      BY <2>1
    <3>1. r[1] = h /\ first'[h] = first[h]
      BY DEF ReturnsStay, Anchor
    <3> QED  BY <3>1 DEF ChargeOf
  <2>2. CASE \E h \in Monthlies, i \in Cycles : r = <<h, i>>
    BY <2>2, GiftFacts DEF ChargeOf
  <2> QED  BY <2>1, <2>2, RowFacts
<1>2. \A r \in Rows : payment[r] = "refunded" <=> payment'[r] = "refunded"
  BY DEF ReturnsStay
<1> QED  BY <1>1, <1>2 DEF Returned

LEMMA NothingForTheLedger ==
  ASSUME UNCHANGED <<taken, told>>, ReturnsStay
  PROVE  LedgerStep
BY ReturnedStays DEF LedgerStep, L!vars

LEMMA NewsForTheLedger ==
  ASSUME UNCHANGED taken, ReturnsStay, UNCHANGED told \/ \E c \in Charges : Announced(c)
  PROVE  LedgerStep
<1>1. Returned' = Returned
  BY ReturnedStays
<1>2. ASSUME NEW c \in Charges, Announced(c) PROVE L!Announce(c)
  BY <1>1, <1>2 DEF L!Announce, Announced
<1> QED  BY <1>1, <1>2 DEF LedgerStep, L!Next, L!vars

LEMMA MoneyForTheLedger ==
  ASSUME NEW c \in Charges, taken' = taken \cup {c}, UNCHANGED <<payment, first, told>>
  PROVE  LedgerStep
<1>1. Returned' = Returned
  BY ReturnedStays DEF ReturnsStay
<1>2. CASE c \in taken
  BY <1>1, <1>2 DEF LedgerStep, L!vars
<1>3. CASE c \notin taken
  <2>1. L!Capture(c)
    BY <1>1, <1>3 DEF L!Capture
  <2> QED  BY <2>1 DEF LedgerStep, L!Next
<1> QED  BY <1>2, <1>3

LEMMA ReturnForTheLedger ==
  ASSUME NEW c \in Charges, UNCHANGED <<taken, told>>,
         \/ Returned' = Returned
         \/ /\ Returned' = Returned \cup {c} /\ told[c] \in {"received", "orphaned"}
            /\ c \notin Returned
  PROVE  LedgerStep
<1>1. CASE Returned' = Returned
  BY <1>1 DEF LedgerStep, L!vars
<1>2. CASE /\ Returned' = Returned \cup {c} /\ told[c] \in {"received", "orphaned"}
           /\ c \notin Returned
  <2>1. L!Return(c)
    BY <1>2 DEF L!Return
  <2> QED  BY <2>1 DEF LedgerStep, L!Next
<1> QED  BY <1>1, <1>2

\* A step that touches none of what the argument reads.
LEMMA ElseKeeps ==
  ASSUME DonationsInv, UNCHANGED rowsRead, UNCHANGED <<hook, job, queued, outrun>>
  PROVE  DonationsInv'
<1>0. GiftsTypeOK /\ RowsInv /\ EventsInv
  BY DEF DonationsInv
<1>1. RowsInv' /\ Grows
  BY <1>0, RowsFrame, GrowsFrame
<1>2. GiftsTypeOK'
  BY <1>0 DEF GiftsTypeOK, rowsRead
<1> QED  BY <1>0, <1>1, <1>2, EventsFrame DEF DonationsInv

LEMMA RestForTheLedger ==
  ASSUME UNCHANGED rowsRead
  PROVE  LedgerStep
<1>1. ReturnsStay
  BY DEF ReturnsStay, rowsRead
<1> QED  BY <1>1, NothingForTheLedger DEF rowsRead

-----------------------------------------------------------------------------
(* All steps.                                                              *)

LEMMA GiftSteps ==
  ASSUME DonationsInv, NEW g \in Gifts,
         \/ createPendingDonation(g) \/ createCharge(g) \/ attachProviderId(g)
         \/ attachPixCharge(g) \/ attachSubscriptionRef(g) \/ requestThrows(g)
         \/ compensateFailedDonation(g) \/ requestCrash(g) \/ expireDonation(g)
         \/ pay(g) \/ providerCloses(g)
         \/ \E i \in Cycles : payInvoice(g, i)
  PROVE  DonationsInv' /\ LedgerStep
<1>1. CASE createPendingDonation(g)
  <2>1. DonationsInv' /\ payment[Anchor(g)] = "none"
    BY <1>1, CreateKeeps
  <2>2. /\ payment' = [payment EXCEPT ![Anchor(g)] = "pending"]
        /\ UNCHANGED <<taken, told, first>>
    BY <1>1 DEF createPendingDonation, providerVars, moneyVars
  <2>3. \A r \in Rows : payment[r] = "refunded" <=> payment'[r] = "refunded"
    BY <2>1, <2>2, RowFacts DEF DonationsInv, GiftsTypeOK
  <2>4. LedgerStep
    BY <2>2, <2>3, NothingForTheLedger DEF ReturnsStay
  <2> QED  BY <2>1, <2>4
<1>2. CASE \/ createCharge(g) \/ attachProviderId(g) \/ attachPixCharge(g)
           \/ attachSubscriptionRef(g) \/ requestThrows(g) \/ requestCrash(g)
  <2>1. UNCHANGED <<taken, told, payment, first>>
    BY <1>2 DEF createCharge, attachProviderId, attachPixCharge, attachSubscriptionRef,
       requestThrows, requestCrash, rowVars, moneyVars, providerVars
  <2>2. LedgerStep
    BY <2>1, NothingForTheLedger DEF ReturnsStay
  <2> QED  BY <1>2, <2>2, RequestKeeps
<1>3. CASE compensateFailedDonation(g)
  <2>1. /\ UNCHANGED <<taken, told, first>>
        /\ CancelPending(g, "failed") \/ UNCHANGED payment
    BY <1>3 DEF compensateFailedDonation, providerVars, moneyVars
  <2>2. \A r \in Rows : payment[r] = "refunded" <=> payment'[r] = "refunded"
    BY <2>1, RowFacts DEF DonationsInv, GiftsTypeOK, CancelPending
  <2>3. LedgerStep
    BY <2>1, <2>2, NothingForTheLedger DEF ReturnsStay
  <2> QED  BY <1>3, <2>3, CompensationKeeps
<1>4. CASE expireDonation(g)
  <2>1. UNCHANGED <<taken, told, first>> /\ CancelPending(g, "expired")
    BY <1>4 DEF expireDonation, providerVars, moneyVars
  <2>2. \A r \in Rows : payment[r] = "refunded" <=> payment'[r] = "refunded"
    BY <2>1, RowFacts DEF DonationsInv, GiftsTypeOK, CancelPending
  <2>3. LedgerStep
    BY <2>1, <2>2, NothingForTheLedger DEF ReturnsStay
  <2> QED  BY <1>4, <2>3, ExpiryKeeps
<1>5. CASE pay(g)
  <2>1. UNCHANGED <<payment, first, told>>
    BY <1>5 DEF pay, rowVars, moneyVars
  <2> QED  BY <1>5, <2>1, PayKeeps, MoneyForTheLedger
<1>6. CASE providerCloses(g)
  <2>1. UNCHANGED rowsRead /\ UNCHANGED <<hook, job, queued, outrun>>
    BY <1>6 DEF providerCloses, rowsRead, rowVars, hookVars, moneyVars
  <2> QED  BY <2>1, ElseKeeps, RestForTheLedger
<1>7. ASSUME NEW i \in Cycles, payInvoice(g, i) PROVE DonationsInv' /\ LedgerStep
  <2>1. UNCHANGED <<payment, first, told>>
    BY <1>7 DEF payInvoice, rowVars, moneyVars
  <2> QED  BY <1>7, <2>1, PayInvoiceKeeps, MoneyForTheLedger
<1> QED  BY <1>1, <1>2, <1>3, <1>4, <1>5, <1>6, <1>7

LEMMA RunSteps ==
  ASSUME DonationsInv, NEW w \in Runs, RunStep(w) \/ eventFails(w) \/ runDies(w)
  PROVE  DonationsInv' /\ LedgerStep
<1>1. CASE applyPaid(w)
  BY <1>1, ApplyPaidKeeps, NewsForTheLedger DEF ReturnsStay
<1>2. CASE claimAnchor(w)
  BY <1>2, ClaimKeeps, NewsForTheLedger
<1>3. CASE createChild(w)
  BY <1>3, ChildKeeps, NewsForTheLedger
<1>4. CASE lookAtAnchor(w) \/ enqueueTransfer(w) \/ applyDeleted(w)
  BY <1>4, LookKeeps, EnqueueKeeps, DeletedKeeps, RestForTheLedger
<1>5. CASE applyClosed(w)
  BY <1>5, ClosedKeeps, NothingForTheLedger DEF ReturnsStay
<1>6. CASE markRefunded(w)
  BY <1>6, RefundKeeps, ReturnForTheLedger
<1>7. CASE finishEvent(w) \/ eventFails(w) \/ runDies(w)
  BY <1>7, EndKeeps, RestForTheLedger
<1> QED  BY <1>1, <1>2, <1>3, <1>4, <1>5, <1>6, <1>7 DEF RunStep

LEMMA NextKeeps == DonationsInv /\ [DonationsNext]_vars => DonationsInv' /\ [L!Next]_(L!vars)
<1> SUFFICES ASSUME DonationsInv, [DonationsNext]_vars PROVE DonationsInv' /\ LedgerStep
  BY DEF LedgerStep
<1>1. ASSUME NEW g \in Gifts,
             \/ createPendingDonation(g) \/ createCharge(g) \/ attachProviderId(g)
             \/ attachPixCharge(g) \/ attachSubscriptionRef(g) \/ requestThrows(g)
             \/ compensateFailedDonation(g) \/ requestCrash(g) \/ expireDonation(g)
             \/ pay(g) \/ providerCloses(g)
             \/ \E i \in Cycles : payInvoice(g, i)
      PROVE  DonationsInv' /\ LedgerStep
  BY <1>1, GiftSteps
<1>2. ASSUME NEW w \in Runs, RunStep(w) \/ eventFails(w) \/ runDies(w)
      PROVE  DonationsInv' /\ LedgerStep
  BY <1>2, RunSteps
<1>3. ASSUME NEW e \in Events, receiveEvent(e) PROVE DonationsInv' /\ LedgerStep
  <2>1. UNCHANGED rowsRead
    BY <1>3 DEF receiveEvent, rowsRead, rowVars, providerVars, moneyVars
  <2> QED  BY <1>3, <2>1, ReceiveKeeps, RestForTheLedger
<1>4. ASSUME NEW e \in Events, NEW w \in Runs, pickEvent(w, e)
      PROVE  DonationsInv' /\ LedgerStep
  <2>1. UNCHANGED rowsRead
    BY <1>4 DEF pickEvent, rowsRead, rowVars, providerVars, moneyVars
  <2> QED  BY <1>4, <2>1, PickKeeps, RestForTheLedger
<1>5. ASSUME \/ \E c \in Charges : providerRefunds(c)
             \/ \E k \in Cancellers : \E g \in Monthlies : cancelRead(k, g)
             \/ \E k \in Cancellers : cancelAtProvider(k) \/ cancelFails(k)
      PROVE  UNCHANGED rowsRead /\ UNCHANGED <<hook, job, queued, outrun>>
  <2>1. CASE \E c \in Charges : providerRefunds(c)
    BY <2>1 DEF providerRefunds, rowsRead, rowVars, hookVars, moneyVars
  <2>2. CASE \E k \in Cancellers : \E g \in Monthlies : cancelRead(k, g)
    BY <2>2 DEF cancelRead, rowsRead, rowVars, providerVars, hookVars, moneyVars
  <2>3. CASE \E k \in Cancellers : cancelAtProvider(k)
    BY <2>3 DEF cancelAtProvider, rowsRead, rowVars, hookVars, moneyVars
  <2>4. CASE \E k \in Cancellers : cancelFails(k)
    BY <2>4 DEF cancelFails, rowsRead, rowVars, providerVars, hookVars, moneyVars
  <2> QED  BY <1>5, <2>1, <2>2, <2>3, <2>4
<1>6. ASSUME NEW k \in Cancellers, cancelMark(k)
      PROVE  UNCHANGED rowsRead /\ UNCHANGED <<hook, job, queued, outrun>>
  BY <1>6 DEF cancelMark, rowsRead, providerVars, hookVars, moneyVars
<1>7. CASE UNCHANGED vars
  <2>1. UNCHANGED rowsRead /\ UNCHANGED <<hook, job, queued, outrun>>
    BY <1>7 DEF vars, rowsRead
  <2> QED  BY <2>1, ElseKeeps, RestForTheLedger
<1>8. CASE \/ \E c \in Charges : providerRefunds(c)
           \/ \E k \in Cancellers : \E g \in Monthlies : cancelRead(k, g)
           \/ \E k \in Cancellers : cancelAtProvider(k) \/ cancelMark(k) \/ cancelFails(k)
  BY <1>5, <1>6, <1>8, ElseKeeps, RestForTheLedger
<1>9. CASE DonationsNext
  BY <1>1, <1>2, <1>3, <1>4, <1>8, <1>9 DEF DonationsNext
<1> QED  BY <1>7, <1>9

-----------------------------------------------------------------------------
(* Invariants and the refinement: the rows say what was announced, at      *)
(* every step of every run (donations.repository.ts, webhook-events.ts).   *)
THEOREM DonationsInductive == DonationsSpec => []DonationsInv
<1>1. DonationsInit => DonationsInv
  BY InitKeeps
<1>2. DonationsInv /\ [DonationsNext]_vars => DonationsInv'
  BY NextKeeps
<1> QED  BY <1>1, <1>2, PTL DEF DonationsSpec

(* Donations implement the ledger: no money is announced that was not      *)
(* taken, none twice, and none is given back twice or unannounced.         *)
THEOREM DonationsImplementLedger == DonationsSpec => LedgerKept
<1>1. DonationsInit => L!Init
  <2> SUFFICES ASSUME DonationsInit PROVE L!Init
    OBVIOUS
  <2>1. taken = {} /\ told = [c \in Charges |-> "nothing"]
    BY DEF DonationsInit
  <2>2. Returned = {}
    BY DEF DonationsInit, Returned
  <2> QED  BY <2>1, <2>2 DEF L!Init
<1>2. DonationsInv /\ [DonationsNext]_vars => [L!Next]_(L!vars)
  BY NextKeeps
<1> QED  BY <1>1, <1>2, DonationsInductive, PTL DEF DonationsSpec, LedgerKept, L!Spec

(* What a campaign says it raised was taken, is held and counts once.      *)
THEOREM CampaignsCountHeldMoney == DonationsSpec => []CountedIsHeld
<1>1. DonationsInv => CountedIsHeld
  <2> SUFFICES ASSUME DonationsInv PROVE CountedIsHeld
    OBVIOUS
  <2>0. GiftsTypeOK /\ RowsInv
    BY DEF DonationsInv
  <2>1. ASSUME NEW g \in Gifts, status[Anchor(g)] = "paid"
        PROVE  /\ payment[Anchor(g)] = "succeeded"
               /\ g \in Singles => ChargeOf(Anchor(g)) = <<g, 0>>
               /\ g \in Monthlies => /\ first[g] \in Cycles
                                     /\ ChargeOf(Anchor(g)) = <<g, first[g]>>
               /\ ChargeOf(Anchor(g)) \in taken
    <3>1. payment[Anchor(g)] = "succeeded"
      BY <2>0, <2>1, RowFacts DEF RowsInv, GiftMatchesPayment
    <3>2. g \in Singles => ChargeOf(Anchor(g)) = <<g, 0>>
      BY GiftFacts DEF ChargeOf, Anchor
    <3>3. g \in Monthlies => first[g] \in Cycles
      BY <2>0, <3>1, GiftFacts DEF RowsInv, FirstComesFirst, Kept, GiftsTypeOK, Cycles
    <3>4. g \in Monthlies => ChargeOf(Anchor(g)) = <<g, first[g]>>
      BY DEF ChargeOf, Anchor
    <3>5. CASE g \in Singles
      <4>1. told[<<g, 0>>] # "nothing"
        BY <2>0, <3>1, <3>5 DEF RowsInv, ToldIsBooked, Kept
      <4> QED  BY <2>0, <3>1, <3>2, <3>5, <4>1, ChargeFacts, GiftFacts DEF RowsInv, ToldIsBooked
    <3>6. CASE g \in Monthlies
      <4>1. told[<<g, first[g]>>] # "nothing"
        BY <2>0, <3>3, <3>6 DEF RowsInv, ToldIsBooked
      <4>2. <<g, first[g]>> \in taken
        BY <2>0, <3>3, <3>6, <4>1, ChargeFacts DEF RowsInv, ToldIsBooked
      <4> QED  BY <3>1, <3>2, <3>3, <3>4, <3>6, <4>2, GiftFacts
    <3> QED  BY <3>5, <3>6, GiftFacts
  <2>2. ASSUME NEW g \in Monthlies, NEW i \in Cycles, status[<<g, i>>] = "paid"
        PROVE  /\ payment[<<g, i>>] = "succeeded" /\ ChargeOf(<<g, i>>) = <<g, i>>
               /\ <<g, i>> \in taken /\ first[g] # i
    <3>1. payment[<<g, i>>] = "succeeded"
      BY <2>0, <2>2, RowFacts DEF RowsInv, GiftMatchesPayment
    <3>2. ChargeOf(<<g, i>>) = <<g, i>>
      BY GiftFacts DEF ChargeOf
    <3>3. told[<<g, i>>] # "nothing" /\ first[g] # i
      BY <2>0, <2>2 DEF RowsInv, ToldIsBooked, FirstComesFirst
    <3>4. <<g, i>> \in taken
      BY <2>0, <3>3, ChargeFacts DEF RowsInv, ToldIsBooked
    <3> QED  BY <3>1, <3>2, <3>3, <3>4
  <2>3. \A r \in progressFor : payment[r] = "succeeded" /\ ChargeOf(r) \in taken
    BY <2>1, <2>2, RowFacts DEF progressFor
  <2>4. ASSUME NEW r \in progressFor, NEW s \in progressFor, ChargeOf(r) = ChargeOf(s)
        PROVE  r = s
    <3>1. r \in Rows /\ s \in Rows /\ status[r] = "paid" /\ status[s] = "paid"
      BY DEF progressFor
    <3>2. ASSUME NEW g \in Gifts, NEW h \in Gifts, r = Anchor(g), s = Anchor(h) PROVE r = s
      BY <2>1, <2>4, <3>1, <3>2, GiftFacts
    <3>3. ASSUME NEW g \in Gifts, NEW h \in Monthlies, NEW i \in Cycles, r = Anchor(g), s = <<h, i>>
          PROVE  FALSE
      <4>1. ChargeOf(Anchor(g)) = <<h, i>> /\ first[h] # i
        BY <2>2, <2>4, <3>1, <3>3
      <4> QED  BY <2>1, <3>1, <3>3, <4>1, GiftFacts
    <3>4. ASSUME NEW g \in Gifts, NEW h \in Monthlies, NEW i \in Cycles, s = Anchor(g), r = <<h, i>>
          PROVE  FALSE
      <4>1. ChargeOf(Anchor(g)) = <<h, i>> /\ first[h] # i
        BY <2>2, <2>4, <3>1, <3>4
      <4> QED  BY <2>1, <3>1, <3>4, <4>1, GiftFacts
    <3>5. ASSUME NEW g \in Monthlies, NEW i \in Cycles, NEW h \in Monthlies, NEW j \in Cycles,
                 r = <<g, i>>, s = <<h, j>>
          PROVE  r = s
      BY <2>2, <2>4, <3>1, <3>5
    <3> QED  BY <3>1, <3>2, <3>3, <3>4, <3>5, RowFacts
  <2> QED  BY <2>3, <2>4 DEF CountedIsHeld
<1> QED  BY <1>1, DonationsInductive, PTL

(* A payment event that is marked processed is booked and its payout       *)
(* queued, unless another invoice of the subscription outran it.           *)
THEOREM ProcessedEventsAreBooked == DonationsSpec => []ProcessedIsBooked
<1>1. DonationsInv => ProcessedIsBooked
  BY DEF DonationsInv, EventsInv
<1> QED  BY <1>1, DonationsInductive, PTL

=============================================================================
