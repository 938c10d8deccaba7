---------------------------- MODULE OutboxRelay ----------------------------
(***************************************************************************)
(* relayOutbox of src/src/workers/outbox-relay.ts: each process of the API *)
(* runs one tick at a time (workers/index.ts), several processes run at    *)
(* once.  A tick gives abandoned rows back, reads the oldest pending rows, *)
(* claims them with its token, reads again what it got, and takes the      *)
(* effect of each (an email, a transfer, the numbers of a raffle) before   *)
(* it writes how that went.  It is cut at every await.                     *)
(***************************************************************************)
EXTENDS Naturals, FiniteSets, Functions

CONSTANTS
  Rows,         \* the rows of outbox_events
  CreatedAt,    \* when each was created: ties are possible
  Ticks,        \* one per process, and its token
  Nobody,       \* claimed_by is null
  Batch,        \* rows a tick reads at once (50)
  MaxAttempts,  \* MAX_ATTEMPTS (5)
  MaxFaults,    \* bound on the crashes and database errors of a behaviour
  MaxSlow       \* bound on the claims that age while a tick is at work on their row

ASSUME RowsAssumption == IsFiniteSet(Rows) /\ CreatedAt \in [Rows -> Nat]
ASSUME TicksAssumption == IsFiniteSet(Ticks) /\ Nobody \notin Ticks
ASSUME LimitsAssumption ==
  /\ Batch \in Nat \ {0} /\ MaxAttempts \in Nat \ {0}
  /\ MaxFaults \in Nat /\ MaxSlow \in Nat

VARIABLES
  status,      \* outbox_events.status, "none" before the row exists
  claimedBy,   \* outbox_events.claimed_by
  stale,       \* outbox_events.claimed_at is older than STALE_CLAIM_MS
  attempts,    \* outbox_events.attempts
  effects,     \* times the effect of the row was taken
  phase,       \* where each tick stands
  ids,         \* the candidates a tick has read
  work,        \* where a tick stands on each row it read back
  seen,        \* the attempts it read there
  faults,
  slow         \* times the claim of a row aged while a tick was at work on it

rowVars == <<status, claimedBy, stale, attempts>>
relayVars == <<rowVars, effects, phase, ids, work, seen, faults, slow>>

Status == {"none", "pending", "processing", "processed", "failed"}

Phase == {"idle", "reading", "claiming", "rereading", "working"}

Work == {"none", "todo", "done", "failing"}

RelayTypeOK ==
  /\ status \in [Rows -> Status]
  /\ claimedBy \in [Rows -> Ticks \cup {Nobody}]
  /\ stale \in [Rows -> BOOLEAN]
  /\ attempts \in [Rows -> 0..MaxAttempts]
  /\ effects \in [Rows -> Nat]
  /\ phase \in [Ticks -> Phase]
  /\ ids \in [Ticks -> SUBSET Rows]
  /\ work \in [Ticks -> [Rows -> Work]]
  /\ seen \in [Ticks -> [Rows -> 0..MaxAttempts]]
  /\ faults \in 0..MaxFaults
  /\ slow \in [Rows -> Nat]

NoWork == [e \in Rows |-> "none"]

RelayInit ==
  /\ status = [e \in Rows |-> "none"]
  /\ claimedBy = [e \in Rows |-> Nobody]
  /\ stale = [e \in Rows |-> FALSE]
  /\ attempts = [e \in Rows |-> 0]
  /\ effects = [e \in Rows |-> 0]
  /\ phase = [t \in Ticks |-> "idle"]
  /\ ids = [t \in Ticks |-> {}]
  /\ work = [t \in Ticks |-> NoWork]
  /\ seen = [t \in Ticks |-> [e \in Rows |-> 0]]
  /\ faults = 0
  /\ slow = [e \in Rows |-> 0]

-----------------------------------------------------------------------------
\* A transaction of the orders, the donations or the raffles writes a row.
CreateRow(e) ==
  /\ status[e] = "none"
  /\ status' = [status EXCEPT ![e] = "pending"]
  /\ UNCHANGED <<claimedBy, stale, attempts, effects, phase, ids, work, seen,
                 faults, slow>>

\* Nothing is ever given back.
Faulty_Abandoned(e) == FALSE

Abandoned(e) == status[e] = "processing" /\ stale[e]

\* Gives the rows of abandoned claims back.
Reap(t) ==
  /\ phase[t] = "idle"
  /\ status' = [e \in Rows |-> IF Abandoned(e) THEN "pending" ELSE status[e]]
  /\ claimedBy' = [e \in Rows |-> IF Abandoned(e) THEN Nobody ELSE claimedBy[e]]
  /\ stale' = [e \in Rows |-> IF Abandoned(e) THEN FALSE ELSE stale[e]]
  /\ phase' = [phase EXCEPT ![t] = "reading"]
  /\ UNCHANGED <<attempts, effects, ids, work, seen, faults, slow>>

Pending == {e \in Rows : status[e] = "pending"}

\* The oldest pending rows; of rows created at the same instant, any.
Oldest(S) ==
  /\ S \subseteq Pending
  /\ \/ Cardinality(S) = Batch
     \/ Cardinality(S) < Batch /\ S = Pending
  /\ \A e \in S, f \in Pending \ S : CreatedAt[e] <= CreatedAt[f]

ReadCandidates(t) ==
  /\ phase[t] = "reading"
  /\ \E S \in SUBSET Rows :
       /\ Oldest(S)
       /\ ids' = [ids EXCEPT ![t] = S]
       /\ phase' = [phase EXCEPT ![t] = IF S = {} THEN "idle" ELSE "claiming"]
  /\ UNCHANGED <<rowVars, effects, work, seen, faults, slow>>

Free(e) == status[e] = "pending"

\* updateMany ... where status is still "pending": one of two ticks gets a row.
Claim(t) ==
  /\ phase[t] = "claiming"
  /\ LET got(e) == e \in ids[t] /\ Free(e)
     IN  /\ status' = [e \in Rows |-> IF got(e) THEN "processing" ELSE status[e]]
         /\ claimedBy' = [e \in Rows |-> IF got(e) THEN t ELSE claimedBy[e]]
         /\ stale' = [e \in Rows |-> IF got(e) THEN FALSE ELSE stale[e]]
  /\ phase' = [phase EXCEPT ![t] = "rereading"]
  /\ UNCHANGED <<attempts, effects, ids, work, seen, faults, slow>>

Mine(t, e) == e \in ids[t] /\ status[e] = "processing" /\ claimedBy[e] = t

Reread(t) ==
  /\ phase[t] = "rereading"
  /\ work' = [work EXCEPT ![t] = [e \in Rows |-> IF Mine(t, e) THEN "todo" ELSE "none"]]
  /\ seen' = [seen EXCEPT ![t] = [e \in Rows |-> IF Mine(t, e) THEN attempts[e] ELSE 0]]
  /\ ids' = [ids EXCEPT ![t] = {}]
  /\ phase' = [phase EXCEPT ![t] = "working"]
  /\ UNCHANGED <<rowVars, effects, faults, slow>>

-----------------------------------------------------------------------------
(* The loop over the rows of a tick, oldest first, one at a time.          *)

Turn(t, e) ==
  /\ work[t][e] = "todo"
  /\ \A f \in Rows : /\ work[t][f] \notin {"done", "failing"}
                     /\ work[t][f] = "todo" => CreatedAt[e] <= CreatedAt[f]

WorkGoes(t, e, state) == work' = [work EXCEPT ![t][e] = state]

Deliver(t, e) ==
  /\ Turn(t, e)
  /\ effects' = [effects EXCEPT ![e] = @ + 1]
  /\ WorkGoes(t, e, "done")
  /\ UNCHANGED <<rowVars, phase, ids, seen, faults, slow>>

\* The error of the email gateway is logged and forgotten.
Faulty_DeliverFails(t, e) ==
  /\ Turn(t, e)
  /\ WorkGoes(t, e, "done")
  /\ UNCHANGED <<rowVars, effects, phase, ids, seen, faults, slow>>

\* The call throws; it may have taken effect nonetheless.
DeliverFails(t, e) ==
  /\ Turn(t, e)
  /\ \/ UNCHANGED effects
     \/ effects' = [effects EXCEPT ![e] = @ + 1]
  /\ WorkGoes(t, e, "failing")
  /\ UNCHANGED <<rowVars, phase, ids, seen, faults, slow>>

Release(t, e) ==
  /\ WorkGoes(t, e, "none")
  /\ seen' = [seen EXCEPT ![t][e] = 0]

\* By id alone: whatever the row has become meanwhile.
MarkProcessed(t, e) ==
  /\ work[t][e] = "done"
  /\ status' = [status EXCEPT ![e] = "processed"]
  /\ claimedBy' = [claimedBy EXCEPT ![e] = Nobody]
  /\ stale' = [stale EXCEPT ![e] = FALSE]
  /\ Release(t, e)
  /\ UNCHANGED <<attempts, effects, phase, ids, faults, slow>>

\* That update throws, and the effect counts as a failure.
MarkThrows(t, e) ==
  /\ work[t][e] = "done"
  /\ faults < MaxFaults /\ faults' = faults + 1
  /\ WorkGoes(t, e, "failing")
  /\ UNCHANGED <<rowVars, effects, phase, ids, seen, slow>>

\* The failed attempt is not counted.
Faulty_Attempt(t, e) == seen[t][e]

Attempt(t, e) == seen[t][e] + 1

LastAttempt(n) == n >= MaxAttempts

\* By id alone too.  A row that is given back keeps the name of its last tick.
MarkFailed(t, e) ==
  /\ work[t][e] = "failing"
  /\ attempts' = [attempts EXCEPT ![e] = Attempt(t, e)]
  /\ LET terminal == LastAttempt(Attempt(t, e))
     IN  /\ status' = [status EXCEPT ![e] = IF terminal THEN "failed" ELSE "pending"]
         /\ claimedBy' = [claimedBy EXCEPT ![e] = IF terminal THEN Nobody ELSE t]
  /\ stale' = [stale EXCEPT ![e] = FALSE]
  /\ Release(t, e)
  /\ UNCHANGED <<effects, phase, ids, faults, slow>>

TickEnds(t) ==
  /\ phase[t] = "working" /\ work[t] = NoWork
  /\ phase' = [phase EXCEPT ![t] = "idle"]
  /\ UNCHANGED <<rowVars, effects, ids, work, seen, faults, slow>>

\* The process dies, or a query outside the try throws: the tick is gone and
\* its rows stay "processing".
Crash(t) ==
  /\ phase[t] # "idle"
  /\ faults < MaxFaults /\ faults' = faults + 1
  /\ phase' = [phase EXCEPT ![t] = "idle"]
  /\ ids' = [ids EXCEPT ![t] = {}]
  /\ work' = [work EXCEPT ![t] = NoWork]
  /\ seen' = [seen EXCEPT ![t] = [e \in Rows |-> 0]]
  /\ UNCHANGED <<rowVars, effects, slow>>

\* A tick that is still to work on a row, or at work on it.
Busy(e) ==
  \E t \in Ticks : \/ work[t][e] # "none"
                   \/ phase[t] = "rereading" /\ e \in ids[t] /\ claimedBy[e] = t

\* Five minutes pass since the row was claimed: by a tick that is gone, or, a
\* bounded number of times, by one that is slow.
ClaimAges(e) ==
  /\ status[e] = "processing" /\ ~stale[e]
  /\ \/ ~Busy(e) /\ UNCHANGED slow
     \/ Busy(e) /\ SumFunction(slow) < MaxSlow /\ slow' = [slow EXCEPT ![e] = @ + 1]
  /\ stale' = [stale EXCEPT ![e] = TRUE]
  /\ UNCHANGED <<status, claimedBy, attempts, effects, phase, ids, work, seen, faults>>

-----------------------------------------------------------------------------
TickStep(t) ==
  \/ Reap(t) \/ ReadCandidates(t) \/ Claim(t) \/ Reread(t) \/ TickEnds(t)
  \/ \E e \in Rows : \/ Deliver(t, e) \/ DeliverFails(t, e)
                     \/ MarkProcessed(t, e) \/ MarkFailed(t, e)

RelayNext ==
  \/ \E e \in Rows : CreateRow(e) \/ ClaimAges(e)
  \/ \E t \in Ticks : TickStep(t) \/ Crash(t) \/ \E e \in Rows : MarkThrows(t, e)

RelaySpec == RelayInit /\ [][RelayNext]_relayVars

\* setInterval fires again and again, every call ends one way or another, and
\* time passes.
FairRelaySpec ==
  /\ RelaySpec
  /\ \A t \in Ticks : WF_relayVars(TickStep(t))
  /\ \A e \in Rows : WF_relayVars(ClaimAges(e))

-----------------------------------------------------------------------------
(* Properties.                                                             *)

\* "So we only ever process rows this tick itself claimed" (outbox-relay.ts:60):
\* a row at work is held by the tick that works on it, hence by no other, as long
\* as no claim of that row has aged under a tick at work.
OnlyOwnClaims ==
  \A t \in Ticks, e \in Rows :
    work[t][e] # "none" /\ slow[e] = 0 => status[e] = "processing" /\ claimedBy[e] = t

\* At least once: a row is closed only after its effect was taken.
DeliveredWhenProcessed ==
  \A e \in Rows : status[e] = "processed" => effects[e] > 0

\* Nearly once: an effect is repeated only after an attempt that failed, a fault,
\* or a tick slower than its claim, however many processes relay at the same time
\* (the claim "evita duplo envio de email", docs/ARCHITECTURE.md:661).  A slow
\* tick costs as many as MaxAttempts: it writes the number it had read, plus one,
\* over the attempts the others have counted since.
RepeatsAreCounted ==
  \A e \in Rows : effects[e] <= attempts[e] + faults + MaxAttempts * slow[e] + 1

\* What is closed stays closed: no tick that comes late takes a processed row, or
\* one given up, back into the queue, unless a claim of it aged under its tick.
ClosedStaysClosed ==
  [][\A e \in Rows :
       status[e] \in {"processed", "failed"} /\ slow[e] = 0
         => status'[e] = status[e]]_relayVars

\* Every row is closed in the end, though the tick that held it died.
EveryRowCloses ==
  \A e \in Rows : status[e] = "pending" ~> status[e] \in {"processed", "failed"}
=============================================================================
