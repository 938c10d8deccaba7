-------------------------------- MODULE Agenda --------------------------------
(***************************************************************************)
(* One event of a store's agenda, its batches of seats, the forms the      *)
(* organisers save and the people who buy a seat                           *)
(* (src/src/http/api/events, and the part of the checkout that picks the   *)
(* batch).                                                                 *)
(*                                                                         *)
(* A form is what an organiser had on the screen: the batches it knew, in  *)
(* the order they were dragged to, and new ones without an id.  Saving it  *)
(* is a read of the current batches with the check that those left out     *)
(* were never sold, then the writes of one transaction (which wait for the *)
(* locks of another form's writes, so they are one step), then the update  *)
(* of the event itself, which is not part of that transaction.             *)
(***************************************************************************)
EXTENDS Integers, FiniteSets, Sequences, SequencesExt

CONSTANTS
  BatchIds,    \* ids of event_batches, none is used twice
  Organisers,  \* requests to save a form, at most one each at a time
  Buyers,      \* orders with one seat of the event
  FormSeats,   \* values of the seats field
  Windows,     \* pairs of opens_at and closes_at
  MaxForms,    \* forms saved
  LastHour     \* the last tick of the clock

ASSUME AgendaAssumption ==
  /\ IsFiniteSet(BatchIds)
  /\ FormSeats \subseteq Nat
  /\ \A w \in Windows : w.opens \in Nat /\ w.closes \in Nat
  /\ MaxForms \in Nat /\ LastHour \in Nat

VARIABLES
  hour,
  event,     \* [made, active, seats, ends]
  batches,   \* the rows of event_batches: id -> [pos, seats, window]
  usedIds,   \* ids given so far
  form,      \* what each organiser is saving
  formCount, \* forms opened so far
  seat       \* each buyer's order item

agendaVars == <<hour, event, batches, usedIds, form, formCount, seat>>

Own == "own"   \* event_batch_id is null: the seat came from the event itself
NewBatch == "new"   \* a batch of the form without an id

NoForm == [step |-> "idle", rows |-> <<>>, before |-> {}, seats |-> 0]
NoSeat == [step |-> "none", from |-> Own, present |-> FALSE]

AgendaTypeOK ==
  /\ hour \in 0..LastHour
  /\ event \in [made : BOOLEAN, active : BOOLEAN, seats : Nat, ends : 0..LastHour]
  /\ DOMAIN batches \subseteq usedIds /\ usedIds \subseteq BatchIds
  /\ \A b \in DOMAIN batches : batches[b].pos \in Nat /\ batches[b].seats \in Nat
  /\ \A o \in Buyers : seat[o].step \in {"none", "offered", "held", "returned", "refused"}

AgendaInit ==
  /\ hour = 0
  /\ event = [made |-> FALSE, active |-> TRUE, seats |-> 0, ends |-> 0]
  /\ batches = <<>>
  /\ usedIds = {}
  /\ form = [a \in Organisers |-> NoForm]
  /\ formCount = 0
  /\ seat = [o \in Buyers |-> NoSeat]

-----------------------------------------------------------------------------
(* Reading the offer.                                                      *)

eventFinished == event.ends < hour

Open(b) == /\ batches[b].seats > 0
           /\ batches[b].window.opens <= hour
           /\ batches[b].window.closes > hour

\* The first batch in the order of sale that has a seat and is within its window.
activeOffer ==
  IF DOMAIN batches = {} THEN {Own}
  ELSE {b \in DOMAIN batches :
          Open(b) /\ \A c \in DOMAIN batches : Open(c) => batches[b].pos <= batches[c].pos}

-----------------------------------------------------------------------------
(* The organisers.                                                         *)

Entry == [id : DOMAIN batches \union {NewBatch}, seats : FormSeats, window : Windows]

\* What a screen that shows the current batches can send: each known batch once at most.
BatchForms == {rows \in BoundedSeq(Entry, 2) :
            \A i, j \in 1..Len(rows) : i # j /\ rows[i].id = rows[j].id => rows[i].id = NewBatch}

createEvent ==
  /\ ~event.made
  /\ \E rows \in BoundedSeq([id : {NewBatch}, seats : FormSeats, window : Windows], 2),
        seats \in FormSeats, ends \in 0..LastHour :
       \E ids \in [1..Len(rows) -> BatchIds] :
         /\ IsInjective(ids)
         /\ event' = [made |-> TRUE, active |-> TRUE, seats |-> seats, ends |-> ends]
         /\ batches' = [b \in Range(ids) |->
                          LET i == CHOOSE k \in 1..Len(rows) : ids[k] = b
                          IN  [pos |-> i - 1, seats |-> rows[i].seats, window |-> rows[i].window]]
         /\ usedIds' = Range(ids)
  /\ UNCHANGED <<hour, form, formCount, seat>>

archiveEvent == /\ event.made /\ event.active
                /\ event' = [event EXCEPT !.active = FALSE]
                /\ UNCHANGED <<hour, batches, usedIds, form, formCount, seat>>

restoreEvent == /\ event.made /\ ~event.active
                /\ event' = [event EXCEPT !.active = TRUE]
                /\ UNCHANGED <<hour, batches, usedIds, form, formCount, seat>>

OpenForm(a) ==
  /\ event.made /\ form[a].step = "idle" /\ formCount < MaxForms
  /\ \E rows \in BatchForms, seats \in FormSeats :
       form' = [form EXCEPT ![a] = [step |-> "open", rows |-> rows, before |-> {}, seats |-> seats]]
  /\ formCount' = formCount + 1
  /\ UNCHANGED <<hour, event, batches, usedIds, seat>>

Kept(a)    == {form[a].rows[i].id : i \in 1..Len(form[a].rows)} \ {NewBatch}
Removed(a) == form[a].before \ Kept(a)
SoldFrom   == {seat[o].from : o \in {p \in Buyers : seat[p].step \in {"held", "returned"}}}

\* The batches there are, and no sale from those the form leaves out: else event_batch_has_sales.
replaceCheck(a) ==
  /\ form[a].step = "open"
  /\ form' = [form EXCEPT ![a] =
       IF (DOMAIN batches \ Kept(a)) \cap SoldFrom # {} THEN NoForm
       ELSE [@ EXCEPT !.step = "checked", !.before = DOMAIN batches]]
  /\ UNCHANGED <<hour, event, batches, usedIds, formCount, seat>>

\* A fault: the foreign key does not restrict, so only the check above looks at the sales.
Faulty_Refused(a) == ~(Kept(a) \subseteq DOMAIN batches)

\* Deleting a row an order item refers to fails (the foreign key is ON DELETE RESTRICT), and so
\* does updating a row that is gone.
Refused(a) == \/ Removed(a) \cap DOMAIN batches \cap SoldFrom # {}
              \/ ~(Kept(a) \subseteq DOMAIN batches)

\* Rows this form did not know keep a position of their own and come first, the highest of them
\* before the others.
Leftovers(a) == DOMAIN batches \ (Kept(a) \union Removed(a))
LeftoverOrders(a) ==
  {left \in SetToSeqs(Leftovers(a)) :
     \A i, j \in 1..Len(left) : i < j => batches[left[i]].pos > batches[left[j]].pos}

\* The pass that numbers the rows from 0 hits the unique index if it gives a number another row
\* still has.
Collides(left) == \E i, j \in 1..Len(left) : i < j /\ batches[left[j]].pos = i - 1

\* What the form says of the rows ids, and the rows it says nothing of.
Rewritten(ids, rows) ==
  [b \in DOMAIN batches \union Range(ids) |->
     IF b \in Range(ids)
     THEN LET i == CHOOSE k \in 1..Len(rows) : ids[k] = b
          IN  [pos |-> 0, seats |-> rows[i].seats, window |-> rows[i].window]
     ELSE batches[b]]

\* A fault: rows that were there keep the position they had.
Faulty_Renumbered(order, rows) ==
  [b \in Range(order) |->
     [rows[b] EXCEPT !.pos =
        IF b \in DOMAIN batches THEN batches[b].pos
        ELSE (CHOOSE k \in 1..Len(order) : order[k] = b) - 1]]

Renumbered(order, rows) ==
  [b \in Range(order) |->
     [rows[b] EXCEPT !.pos = (CHOOSE k \in 1..Len(order) : order[k] = b) - 1]]

replaceBatches(a) ==
  /\ form[a].step = "checked"
  /\ \E left \in LeftoverOrders(a) :
       IF Refused(a) \/ Collides(left)
       THEN /\ form' = [form EXCEPT ![a] = NoForm]
            /\ UNCHANGED <<batches, usedIds>>
       ELSE \E ids \in [1..Len(form[a].rows) -> BatchIds] :
              LET rows == form[a].rows
                  news == {i \in 1..Len(rows) : rows[i].id = NewBatch}
              IN  /\ IsInjective(ids)
                  /\ \A i \in 1..Len(rows) : IF i \in news THEN ids[i] \notin usedIds
                                                           ELSE ids[i] = rows[i].id
                  /\ batches' = Renumbered(left \o ids, Rewritten(ids, rows))
                  /\ usedIds' = usedIds \union Range(ids)
                  /\ form' = [form EXCEPT ![a].step = "replaced"]
  /\ UNCHANGED <<hour, event, formCount, seat>>

updateEvent(a) ==
  /\ form[a].step = "replaced"
  /\ event' = [event EXCEPT !.seats = form[a].seats]
  /\ form' = [form EXCEPT ![a] = NoForm]
  /\ UNCHANGED <<hour, batches, usedIds, formCount, seat>>

-----------------------------------------------------------------------------
(* The buyers.                                                             *)

\* The checkout reads the event and chooses the batch; the client never names one.
ChooseOffer(o) ==
  /\ event.made /\ event.active /\ ~eventFinished
  /\ seat[o].step = "none"
  /\ \E b \in activeOffer : seat' = [seat EXCEPT ![o].step = "offered", ![o].from = b]
  /\ UNCHANGED <<hour, event, batches, usedIds, form, formCount>>

SeatsIn(b) == IF b = Own THEN event.seats
              ELSE IF b \in DOMAIN batches THEN batches[b].seats ELSE 0

\* createPendingOrder takes the seat where the offer said, if it is still there.
TakeSeat(o) ==
  LET b == seat[o].from IN
  /\ seat[o].step = "offered"
  /\ \/ /\ SeatsIn(b) > 0
        /\ IF b = Own THEN event' = [event EXCEPT !.seats = @ - 1] /\ UNCHANGED batches
           ELSE batches' = [batches EXCEPT ![b].seats = @ - 1] /\ UNCHANGED event
        /\ seat' = [seat EXCEPT ![o].step = "held"]
     \/ /\ SeatsIn(b) = 0
        /\ seat' = [seat EXCEPT ![o].step = "refused"]
        /\ UNCHANGED <<event, batches>>
  /\ UNCHANGED <<hour, usedIds, form, formCount>>

\* Cancelling or refunding the order gives the seat back to where it came from.
restockItems(o) ==
  LET b == seat[o].from IN
  /\ seat[o].step = "held"
  /\ IF b = Own THEN event' = [event EXCEPT !.seats = @ + 1] /\ UNCHANGED batches
     ELSE batches' = [batches EXCEPT ![b].seats = @ + 1] /\ UNCHANGED event
  /\ seat' = [seat EXCEPT ![o].step = "returned"]
  /\ UNCHANGED <<hour, usedIds, form, formCount>>

\* At the door: any item of the event, whatever became of its order.
checkIn(o) ==
  /\ seat[o].step \in {"held", "returned"}
  /\ seat' = [seat EXCEPT ![o].present = ~@]
  /\ UNCHANGED <<hour, event, batches, usedIds, form, formCount>>

HourPasses == /\ hour < LastHour /\ hour' = hour + 1
              /\ UNCHANGED <<event, batches, usedIds, form, formCount, seat>>

AgendaNext ==
  \/ createEvent \/ archiveEvent \/ restoreEvent \/ HourPasses
  \/ \E a \in Organisers : OpenForm(a) \/ replaceCheck(a) \/ replaceBatches(a) \/ updateEvent(a)
  \/ \E o \in Buyers : ChooseOffer(o) \/ TakeSeat(o) \/ restockItems(o) \/ checkIn(o)

AgendaSpec == AgendaInit /\ [][AgendaNext]_agendaVars

-----------------------------------------------------------------------------
(* A seat someone bought always points at the batch it came from: two      *)
(* forms, or a form and a sale between its check and its delete, never     *)
(* take the batch away (EventsRepository.replaceBatches, "lote com vaga    *)
(* já vendida é recusado").                                                *)
SoldBatchStays ==
  \A o \in Buyers : seat[o].step \in {"held", "returned"} /\ seat[o].from # Own
                      => seat[o].from \in DOMAIN batches

(* Whatever forms were saved at once, the batches are numbered from 0      *)
(* without a gap: the next one to sell after a batch is found by its       *)
(* position (nextBatchPrice, and the order of sale of ADR-029).            *)
OrderOfSale ==
  {batches[b].pos : b \in DOMAIN batches} = 0..(Cardinality(DOMAIN batches) - 1)

=============================================================================
