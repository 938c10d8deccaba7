----------------------------- MODULE RelayProofs -----------------------------
(***************************************************************************)
(* What relayOutbox guarantees for any number of processes and rows, with  *)
(* ticks that outlive their claims as well, and on top of it payouts and   *)
(* refunds for any number of payments and admins: a step of                *)
(* StripeSettlement is a step of the relay or leaves the relay alone.      *)
(***************************************************************************)
EXTENDS StripeSettlement, FiniteSetTheorems, TLAPS

\* A tick works only inside its loop, on rows that had an attempt left.
WorkInLoop ==
  \A t \in Ticks, e \in Rows :
    work[t][e] # "none" => phase[t] = "working" /\ seen[t][e] < MaxAttempts

\* A tick about to claim does not hold its candidates yet.
CandidatesNotHeld ==
  \A t \in Ticks : \A e \in ids[t] :
    phase[t] = "claiming" /\ status[e] = "processing" => claimedBy[e] # t

\* Only the claim of a row that is held ages.
StaleIsHeld == \A e \in Rows : stale[e] => status[e] = "processing"

LoopInv == WorkInLoop /\ CandidatesNotHeld /\ StaleIsHeld

\* A row in the queue has an attempt left.
AttemptsLeft ==
  \A e \in Rows : status[e] \in {"none", "pending", "processing"} => attempts[e] < MaxAttempts

\* What holds whatever else closes the rows of the queue.
CoreInv == RelayTypeOK /\ LoopInv /\ AttemptsLeft

\* Whoever works on the row holds it, and its claim does not age meanwhile.
Held(e) ==
  /\ \A t \in Ticks : work[t][e] # "none" => status[e] = "processing" /\ claimedBy[e] = t
  /\ stale[e] => ~Busy(e)

ClaimInv == \A e \in Rows : slow[e] = 0 => Held(e)

DoneWasDelivered ==
  \A t \in Ticks, e \in Rows : work[t][e] = "done" => effects[e] > 0

Delivered == DoneWasDelivered /\ DeliveredWhenProcessed

\* The effect a tick has taken without a word to the database yet.
Gave(t, e) == IF work[t][e] \in {"done", "failing"} THEN 1 ELSE 0

\* A tick that has claimed the row and is about to read it back.
Waiting(t, e) ==
  /\ phase[t] = "rereading" /\ e \in ids[t]
  /\ status[e] = "processing" /\ claimedBy[e] = t

\* The attempts a tick may still hide by writing the number it has read, plus one.
Hides(t, e, n) ==
  \/ work[t][e] # "none" /\ n > seen[t][e] + Gave(t, e)
  \/ Waiting(t, e) /\ stale[e]

\* Those of every tick but h, whose number is the row's own.
Hidden(e, h) ==
  {p \in Ticks \X (1..MaxAttempts) : p[1] # h /\ Hides(p[1], e, p[2])}

\* h, if anyone, speaks for the row: what it has read is still what is written.
Speaks(e, h) ==
  /\ h # Nobody => h \in Ticks /\ work[h][e] # "none" /\ seen[h][e] = attempts[e]
  /\ status[e] \in {"none", "pending"} => h = Nobody
  /\ status[e] = "processing" => h \in {Nobody, claimedBy[e]} /\ (stale[e] => h = Nobody)

\* x is the effect no attempt is counted for: the one of h, or of a closed row.
Uncounted(e, h, x) ==
  \/ x = 0
  \/ x = 1 /\ h # Nobody /\ Gave(h, e) = 1
  \/ x = 1 /\ h = Nobody /\ status[e] = "processed" /\ attempts[e] < MaxAttempts

Balanced(e, h, x) ==
  effects[e] + Cardinality(Hidden(e, h)) <= attempts[e] + faults + MaxAttempts * slow[e] + x

\* Each effect is an attempt on the row, a fault, or comes out of the MaxAttempts
\* that every slow claim is worth, of which a tick at work keeps what it may hide.
Account(e) ==
  \E h \in Ticks \cup {Nobody}, x \in {0, 1} :
    Speaks(e, h) /\ Uncounted(e, h, x) /\ Balanced(e, h, x)

RelayInv == CoreInv /\ ClaimInv /\ Delivered /\ \A e \in Rows : Account(e)

-----------------------------------------------------------------------------
LEMMA CoreInit == RelayInit => CoreInv
BY TicksAssumption, LimitsAssumption
   DEF RelayInit, CoreInv, RelayTypeOK, LoopInv, WorkInLoop, CandidatesNotHeld, StaleIsHeld,
       AttemptsLeft, NoWork, Status, Phase, Work

\* Every step keeps the types.
LEMMA RelayStepTypes ==
  ASSUME CoreInv, RelayNext
  PROVE  RelayTypeOK'
<1>. USE DEF CoreInv, RelayTypeOK, Status, Phase, Work, rowVars
<1>1. ASSUME NEW e \in Rows, CreateRow(e)
      PROVE  RelayTypeOK'
  BY <1>1 DEF CreateRow
<1>2. ASSUME NEW e \in Rows, ClaimAges(e)
      PROVE  RelayTypeOK'
  <2>1. slow' \in [Rows -> Nat]
    BY <1>2 DEF ClaimAges
  <2>. QED BY <1>2, <2>1 DEF ClaimAges
<1>3. ASSUME NEW t \in Ticks, Reap(t) \/ TickEnds(t)
      PROVE  RelayTypeOK'
  <2>1. CASE Reap(t)
    BY <2>1 DEF Reap
  <2>2. CASE TickEnds(t)
    BY <2>2 DEF TickEnds
  <2>. QED BY <1>3, <2>1, <2>2
<1>4. ASSUME NEW t \in Ticks, ReadCandidates(t)
      PROVE  RelayTypeOK'
  <2>1. PICK S \in SUBSET Rows :
          /\ ids' = [ids EXCEPT ![t] = S]
          /\ phase' = [phase EXCEPT ![t] = IF S = {} THEN "idle" ELSE "claiming"]
    BY <1>4 DEF ReadCandidates
  <2>. QED BY <1>4, <2>1 DEF ReadCandidates
<1>5. ASSUME NEW t \in Ticks, Claim(t)
      PROVE  RelayTypeOK'
  BY <1>5 DEF Claim
<1>6. ASSUME NEW t \in Ticks, Reread(t)
      PROVE  RelayTypeOK'
  <2>1. [e \in Rows |-> IF Mine(t, e) THEN "todo" ELSE "none"] \in [Rows -> Work]
    OBVIOUS
  <2>2. [e \in Rows |-> IF Mine(t, e) THEN attempts[e] ELSE 0] \in [Rows -> 0..MaxAttempts]
    BY LimitsAssumption
  <2>. QED BY <1>6, <2>1, <2>2 DEF Reread
<1>7. ASSUME NEW t \in Ticks, NEW e \in Rows, Deliver(t, e) \/ DeliverFails(t, e)
      PROVE  RelayTypeOK'
  <2>1. CASE Deliver(t, e)
    BY <2>1 DEF Deliver, WorkGoes
  <2>2. CASE DeliverFails(t, e)
    <3>1. effects' = effects \/ effects' = [effects EXCEPT ![e] = @ + 1]
      BY <2>2 DEF DeliverFails
    <3>2. effects' \in [Rows -> Nat]
      BY <3>1
    <3>. QED BY <2>2, <3>2 DEF DeliverFails, WorkGoes
  <2>. QED BY <1>7, <2>1, <2>2
<1>8. ASSUME NEW t \in Ticks, NEW e \in Rows, MarkThrows(t, e)
      PROVE  RelayTypeOK'
  <2>1. faults' \in 0..MaxFaults
    BY <1>8, LimitsAssumption DEF MarkThrows
  <2>2. work' \in [Ticks -> [Rows -> Work]]
    BY <1>8 DEF MarkThrows, WorkGoes
  <2>. QED BY <1>8, <2>1, <2>2 DEF MarkThrows
<1>9. ASSUME NEW t \in Ticks, NEW e \in Rows, MarkProcessed(t, e)
      PROVE  RelayTypeOK'
  BY <1>9, LimitsAssumption DEF MarkProcessed, Release, WorkGoes
<1>10. ASSUME NEW t \in Ticks, NEW e \in Rows, MarkFailed(t, e)
      PROVE  RelayTypeOK'
  <2>1. seen[t][e] < MaxAttempts
    BY <1>10 DEF MarkFailed, LoopInv, WorkInLoop
  <2>2. Attempt(t, e) \in 0..MaxAttempts
    BY <2>1, LimitsAssumption DEF Attempt
  <2>. QED BY <1>10, <2>2, LimitsAssumption DEF MarkFailed, LastAttempt, Release, WorkGoes
<1>11. ASSUME NEW t \in Ticks, Crash(t)
      PROVE  RelayTypeOK'
  <2>1. NoWork \in [Rows -> Work] /\ [e \in Rows |-> 0] \in [Rows -> 0..MaxAttempts]
    BY LimitsAssumption DEF NoWork
  <2>. QED BY <1>11, <2>1, LimitsAssumption DEF Crash
<1>. QED BY <1>1, <1>2, <1>3, <1>4, <1>5, <1>6, <1>7, <1>8, <1>9, <1>10, <1>11
         DEF RelayNext, TickStep

\* Every step keeps the loops: a tick works in its loop, on rows it has claimed.
LEMMA RelayStepLoop ==
  ASSUME CoreInv, RelayNext
  PROVE  LoopInv'
<1>. USE DEF CoreInv, RelayTypeOK, LoopInv, WorkInLoop, CandidatesNotHeld, StaleIsHeld, rowVars
<1>1. ASSUME NEW e \in Rows, CreateRow(e) \/ ClaimAges(e)
      PROVE  LoopInv'
  <2>1. CASE CreateRow(e)
    BY <2>1 DEF CreateRow
  <2>2. CASE ClaimAges(e)
    BY <2>2 DEF ClaimAges
  <2>. QED BY <1>1, <2>1, <2>2
<1>2. ASSUME NEW t \in Ticks, Reap(t)
      PROVE  LoopInv'
  BY <1>2 DEF Reap, Abandoned
<1>3. ASSUME NEW t \in Ticks, ReadCandidates(t)
      PROVE  LoopInv'
  <2>1. PICK S \in SUBSET Rows :
          /\ S \subseteq Pending
          /\ ids' = [ids EXCEPT ![t] = S]
          /\ phase' = [phase EXCEPT ![t] = IF S = {} THEN "idle" ELSE "claiming"]
    BY <1>3 DEF ReadCandidates, Oldest
  <2>2. phase[t] = "reading" /\ UNCHANGED <<rowVars, work, seen>>
    BY <1>3 DEF ReadCandidates
  <2>. QED BY <2>1, <2>2 DEF Pending
<1>4. ASSUME NEW t \in Ticks, Claim(t)
      PROVE  LoopInv'
  <2>1. /\ \A e \in Rows : e \in ids[t] /\ status[e] = "pending" =>
               status'[e] = "processing" /\ claimedBy'[e] = t /\ ~stale'[e]
        /\ \A e \in Rows : ~(e \in ids[t] /\ status[e] = "pending") =>
               /\ status'[e] = status[e]
               /\ claimedBy'[e] = claimedBy[e]
               /\ stale'[e] = stale[e]
        /\ phase[t] = "claiming" /\ phase' = [phase EXCEPT ![t] = "rereading"]
        /\ UNCHANGED <<attempts, ids, work, seen>>
    BY <1>4 DEF Claim, Free
  <2>2. WorkInLoop' /\ StaleIsHeld'
    BY <2>1
  <2>3. CandidatesNotHeld'
    BY <2>1
  <2>. QED BY <2>2, <2>3
<1>5. ASSUME NEW t \in Ticks, Reread(t)
      PROVE  LoopInv'
  <2>1. /\ \A e \in Rows : work'[t][e] # "none" =>
               status[e] = "processing" /\ seen'[t][e] = attempts[e]
        /\ \A u \in Ticks : u # t => work'[u] = work[u] /\ seen'[u] = seen[u] /\ ids'[u] = ids[u]
        /\ ids'[t] = {}
        /\ phase[t] = "rereading" /\ phase' = [phase EXCEPT ![t] = "working"]
        /\ UNCHANGED rowVars
    BY <1>5 DEF Reread, Mine
  <2>2. WorkInLoop'
    BY <2>1 DEF AttemptsLeft
  <2>. QED BY <2>1, <2>2
<1>6. ASSUME NEW t \in Ticks, NEW e \in Rows,
             Deliver(t, e) \/ DeliverFails(t, e) \/ MarkThrows(t, e)
      PROVE  LoopInv'
  <2>1. work[t][e] # "none" /\ UNCHANGED <<rowVars, phase, ids, seen>>
    BY <1>6 DEF Deliver, DeliverFails, MarkThrows, Turn
  <2>2. PICK state : WorkGoes(t, e, state)
    BY <1>6 DEF Deliver, DeliverFails, MarkThrows
  <2>3. \A u \in Ticks, f \in Rows : ~(u = t /\ f = e) => work'[u][f] = work[u][f]
    BY <2>2 DEF WorkGoes
  <2>4. WorkInLoop'
    BY <2>1, <2>3
  <2>. QED BY <2>1, <2>4
<1>7. ASSUME NEW t \in Ticks, NEW e \in Rows, MarkProcessed(t, e) \/ MarkFailed(t, e)
      PROVE  LoopInv'
  <2>1. /\ work[t][e] # "none" /\ work' = [work EXCEPT ![t][e] = "none"]
        /\ seen' = [seen EXCEPT ![t][e] = 0]
        /\ status'[e] # "processing" /\ ~stale'[e]
        /\ \A f \in Rows \ {e} : /\ status'[f] = status[f] /\ claimedBy'[f] = claimedBy[f]
                                 /\ stale'[f] = stale[f]
        /\ UNCHANGED <<phase, ids>>
    BY <1>7 DEF MarkProcessed, MarkFailed, LastAttempt, Release, WorkGoes
  <2>2. WorkInLoop'
    <3>1. \A u \in Ticks, f \in Rows :
            work'[u][f] # "none" => work[u][f] # "none" /\ seen'[u][f] = seen[u][f]
      BY <2>1
    <3>. QED BY <2>1, <3>1
  <2>3. CandidatesNotHeld'
    <3>. SUFFICES ASSUME NEW u \in Ticks, NEW f \in ids'[u],
                         phase'[u] = "claiming", status'[f] = "processing"
                  PROVE  claimedBy'[f] # u
      BY DEF CandidatesNotHeld
    <3>1. f \in Rows /\ f \in ids[u] /\ phase[u] = "claiming" /\ f # e
      BY <2>1
    <3>2. status[f] = "processing" /\ claimedBy'[f] = claimedBy[f]
      BY <2>1, <3>1
    <3>. QED BY <3>1, <3>2 DEF CandidatesNotHeld
  <2>4. StaleIsHeld'
    BY <2>1
  <2>. QED BY <2>2, <2>3, <2>4
<1>8. ASSUME NEW t \in Ticks, TickEnds(t)
      PROVE  LoopInv'
  BY <1>8 DEF TickEnds, NoWork
<1>9. ASSUME NEW t \in Ticks, Crash(t)
      PROVE  LoopInv'
  <2>1. /\ \A u \in Ticks, e \in Rows :
             work'[u][e] # "none" => u # t /\ work[u][e] # "none" /\ seen'[u][e] = seen[u][e]
        /\ ids' = [ids EXCEPT ![t] = {}] /\ phase' = [phase EXCEPT ![t] = "idle"]
        /\ UNCHANGED rowVars
    BY <1>9 DEF Crash, NoWork
  <2>. QED BY <2>1
<1>. QED BY <1>1, <1>2, <1>3, <1>4, <1>5, <1>6, <1>7, <1>8, <1>9
         DEF RelayNext, TickStep

\* Every step leaves the rows of the queue an attempt.
LEMMA RelayStepAttempts ==
  ASSUME CoreInv, RelayNext
  PROVE  AttemptsLeft'
<1>. USE DEF CoreInv, RelayTypeOK, AttemptsLeft, rowVars
<1>1. ASSUME NEW e \in Rows, CreateRow(e) \/ ClaimAges(e)
      PROVE  AttemptsLeft'
  BY <1>1 DEF CreateRow, ClaimAges
<1>2. ASSUME NEW t \in Ticks, Reap(t) \/ Claim(t)
      PROVE  AttemptsLeft'
  BY <1>2 DEF Reap, Abandoned, Claim, Free
<1>3. ASSUME NEW t \in Ticks, NEW e \in Rows, MarkProcessed(t, e)
      PROVE  AttemptsLeft'
  BY <1>3 DEF MarkProcessed
<1>4. ASSUME NEW t \in Ticks, NEW e \in Rows, MarkFailed(t, e)
      PROVE  AttemptsLeft'
  <2>1. /\ attempts' = [attempts EXCEPT ![e] = Attempt(t, e)]
        /\ status' = [status EXCEPT ![e] = IF Attempt(t, e) >= MaxAttempts
                                            THEN "failed" ELSE "pending"]
    BY <1>4 DEF MarkFailed, LastAttempt
  <2>2. Attempt(t, e) \in Nat
    BY LimitsAssumption DEF Attempt
  <2>. QED BY <2>1, <2>2, LimitsAssumption
<1>5. ASSUME NEW t \in Ticks,
             \/ ReadCandidates(t) \/ Reread(t) \/ TickEnds(t) \/ Crash(t)
             \/ \E e \in Rows : Deliver(t, e) \/ DeliverFails(t, e) \/ MarkThrows(t, e)
      PROVE  AttemptsLeft'
  BY <1>5 DEF ReadCandidates, Reread, TickEnds, Crash, Deliver, DeliverFails, MarkThrows
<1>. QED BY <1>1, <1>2, <1>3, <1>4, <1>5 DEF RelayNext, TickStep

-----------------------------------------------------------------------------
LEMMA RelayStepCore ==
  ASSUME CoreInv, RelayNext
  PROVE  CoreInv'
BY RelayStepTypes, RelayStepLoop, RelayStepAttempts DEF CoreInv

\* The faults are counted, and nothing else of the relay reads them.
LEMMA CoreUntouched ==
  ASSUME CoreInv, UNCHANGED <<rowVars, effects, phase, ids, work, seen, slow>>,
         faults' \in 0..MaxFaults
  PROVE  CoreInv'
<1>. USE DEF rowVars, CoreInv
<1>1. RelayTypeOK'
  BY DEF RelayTypeOK
<1>2. LoopInv'
  BY DEF LoopInv, WorkInLoop, CandidatesNotHeld, StaleIsHeld
<1>3. AttemptsLeft'
  BY DEF AttemptsLeft
<1>. QED BY <1>1, <1>2, <1>3

LEMMA CoreInductive == RelaySpec => []CoreInv
<1>1. CoreInv /\ [RelayNext]_relayVars => CoreInv'
  <2>1. ASSUME CoreInv, UNCHANGED relayVars PROVE CoreInv'
    BY <2>1, CoreUntouched DEF relayVars, CoreInv, RelayTypeOK
  <2>. QED BY <2>1, RelayStepCore
<1>. QED BY <1>1, CoreInit, PTL DEF RelaySpec

-----------------------------------------------------------------------------
\* A row whose claim has never aged under a tick is held by whoever works on it.
LEMMA RelayStepClaims ==
  ASSUME CoreInv, ClaimInv, RelayNext
  PROVE  ClaimInv'
<1>. USE DEF CoreInv, RelayTypeOK, LoopInv, Busy, rowVars
<1>0. ASSUME NEW f \in Rows, Held(f), UNCHANGED <<status, claimedBy, stale, ids>>,
             \A u \in Ticks : work'[u][f] # "none" => work[u][f] # "none",
             \A u \in Ticks : phase'[u] = "rereading" => phase[u] = "rereading"
      PROVE  Held(f)'
  BY <1>0 DEF Held
<1>1. ASSUME NEW e \in Rows, CreateRow(e) \/ ClaimAges(e)
      PROVE  ClaimInv'
  <2>. SUFFICES ASSUME NEW f \in Rows, slow'[f] = 0
                PROVE  Held(f)'
    BY DEF ClaimInv
  <2>1. slow[f] = 0
    BY <1>1 DEF CreateRow, ClaimAges
  <2>2. Held(f)
    BY <2>1 DEF ClaimInv
  <2>3. CASE CreateRow(e)
    BY <2>2, <2>3 DEF CreateRow, Held
  <2>4. CASE ClaimAges(e) /\ f # e
    <3>1. UNCHANGED <<status, claimedBy, phase, ids, work>> /\ stale'[f] = stale[f]
      BY <2>4 DEF ClaimAges
    <3>. QED BY <2>2, <3>1 DEF Held
  <2>5. CASE ClaimAges(e) /\ f = e
    <3>1. ~Busy(f)
      <4>1. CASE Busy(e)
        <5>1. slow' = [slow EXCEPT ![e] = @ + 1]
          BY <2>5, <4>1 DEF ClaimAges
        <5>. QED BY <2>1, <2>5, <5>1
      <4>. QED BY <2>5, <4>1
    <3>2. UNCHANGED <<status, claimedBy, phase, ids, work>>
      BY <2>5 DEF ClaimAges
    <3>. QED BY <2>2, <3>1, <3>2 DEF Held
  <2>. QED BY <1>1, <2>3, <2>4, <2>5
<1>2. ASSUME NEW t \in Ticks, Reap(t)
      PROVE  ClaimInv'
  <2>. SUFFICES ASSUME NEW f \in Rows, slow[f] = 0
                PROVE  Held(f)'
    BY <1>2 DEF ClaimInv, Reap
  <2>1. Held(f) /\ UNCHANGED <<ids, work>>
    BY <1>2 DEF ClaimInv, Reap
  <2>2. \A u \in Ticks : phase'[u] = "rereading" => phase[u] = "rereading"
    BY <1>2 DEF Reap
  <2>3. CASE Abandoned(f)
    <3>1. ~Busy(f) /\ ~stale'[f]
      BY <1>2, <2>1, <2>3 DEF Held, Abandoned, Reap
    <3>. QED BY <2>1, <3>1 DEF Held
  <2>4. CASE ~Abandoned(f)
    <3>1. status'[f] = status[f] /\ claimedBy'[f] = claimedBy[f] /\ stale'[f] = stale[f]
      BY <1>2, <2>4 DEF Reap
    <3>. QED BY <2>1, <2>2, <3>1 DEF Held
  <2>. QED BY <2>3, <2>4
<1>3. ASSUME NEW t \in Ticks, ReadCandidates(t)
      PROVE  ClaimInv'
  <2>. SUFFICES ASSUME NEW f \in Rows, slow[f] = 0
                PROVE  Held(f)'
    BY <1>3 DEF ClaimInv, ReadCandidates
  <2>1. PICK S \in SUBSET Rows :
          /\ ids' = [ids EXCEPT ![t] = S]
          /\ phase' = [phase EXCEPT ![t] = IF S = {} THEN "idle" ELSE "claiming"]
    BY <1>3 DEF ReadCandidates
  <2>2. Held(f) /\ UNCHANGED <<rowVars, work>>
    BY <1>3 DEF ClaimInv, ReadCandidates
  <2>3. \A u \in Ticks : phase'[u] = "rereading" => phase[u] = "rereading" /\ ids'[u] = ids[u]
    BY <2>1
  <2>. QED BY <2>2, <2>3 DEF Held
<1>4. ASSUME NEW t \in Ticks, Claim(t)
      PROVE  ClaimInv'
  <2>. SUFFICES ASSUME NEW f \in Rows, slow[f] = 0
                PROVE  Held(f)'
    BY <1>4 DEF ClaimInv, Claim
  <2>1. Held(f) /\ UNCHANGED <<ids, work>> /\ phase[t] = "claiming"
    BY <1>4 DEF ClaimInv, Claim
  <2>2. \A u \in Ticks : phase'[u] = "rereading" => u = t \/ phase[u] = "rereading"
    BY <1>4 DEF Claim
  <2>3. CASE f \in ids[t] /\ Free(f)
    <3>1. ~stale'[f] /\ status[f] = "pending"
      BY <1>4, <2>3 DEF Claim, Free
    <3>. QED BY <2>1, <3>1 DEF Held
  <2>4. CASE ~(f \in ids[t] /\ Free(f))
    <3>1. status'[f] = status[f] /\ claimedBy'[f] = claimedBy[f] /\ stale'[f] = stale[f]
      BY <1>4, <2>4 DEF Claim
    <3>2. stale[f] => ~(f \in ids[t] /\ claimedBy[f] = t)
      BY <2>1 DEF CandidatesNotHeld, StaleIsHeld
    <3>. QED BY <2>1, <2>2, <3>1, <3>2 DEF Held
  <2>. QED BY <2>3, <2>4
<1>5. ASSUME NEW t \in Ticks, Reread(t)
      PROVE  ClaimInv'
  <2>. SUFFICES ASSUME NEW f \in Rows, slow[f] = 0
                PROVE  Held(f)'
    BY <1>5 DEF ClaimInv, Reread
  <2>1. Held(f) /\ UNCHANGED rowVars
    BY <1>5 DEF ClaimInv, Reread
  <2>2. /\ \A u \in Ticks \ {t} : work'[u] = work[u] /\ ids'[u] = ids[u]
        /\ \A u \in Ticks : phase'[u] = "rereading" => u # t /\ phase[u] = "rereading"
    BY <1>5 DEF Reread
  <2>3. work'[t][f] # "none" =>
          phase[t] = "rereading" /\ f \in ids[t] /\ status[f] = "processing" /\ claimedBy[f] = t
    BY <1>5 DEF Reread, Mine
  <2>4. \A u \in Ticks : work'[u][f] # "none" =>
          /\ status[f] = "processing" /\ claimedBy[f] = u
          /\ work[u][f] # "none" \/ (phase[u] = "rereading" /\ f \in ids[u])
    <3>. SUFFICES ASSUME NEW u \in Ticks, work'[u][f] # "none"
                  PROVE  /\ status[f] = "processing" /\ claimedBy[f] = u
                         /\ work[u][f] # "none" \/ (phase[u] = "rereading" /\ f \in ids[u])
      OBVIOUS
    <3>1. CASE u = t
      BY <2>3, <3>1
    <3>2. CASE u # t
      BY <2>1, <2>2, <3>2 DEF Held
    <3>. QED BY <3>1, <3>2
  <2>5. stale[f] => ~Busy(f)'
    <3>. SUFFICES ASSUME stale[f], NEW u \in Ticks,
                         \/ work'[u][f] # "none"
                         \/ phase'[u] = "rereading" /\ f \in ids'[u] /\ claimedBy'[f] = u
                  PROVE  FALSE
      OBVIOUS
    <3>1. Busy(f)
      BY <2>1, <2>2, <2>4
    <3>. QED BY <2>1, <3>1 DEF Held
  <2>. QED BY <2>1, <2>4, <2>5 DEF Held
<1>6. ASSUME NEW t \in Ticks, NEW e \in Rows,
             Deliver(t, e) \/ DeliverFails(t, e) \/ MarkThrows(t, e)
      PROVE  ClaimInv'
  <2>1. work[t][e] # "none" /\ UNCHANGED <<rowVars, phase, ids, seen, slow>>
    BY <1>6 DEF Deliver, DeliverFails, MarkThrows, Turn
  <2>2. PICK state : WorkGoes(t, e, state)
    BY <1>6 DEF Deliver, DeliverFails, MarkThrows
  <2>3. \A u \in Ticks, f \in Rows : ~(u = t /\ f = e) => work'[u][f] = work[u][f]
    BY <2>2 DEF WorkGoes
  <2>4. \A u \in Ticks, f \in Rows : work'[u][f] # "none" => work[u][f] # "none"
    BY <2>1, <2>3
  <2>. QED BY <1>0, <2>1, <2>4 DEF ClaimInv
<1>7. ASSUME NEW t \in Ticks, NEW e \in Rows, MarkProcessed(t, e) \/ MarkFailed(t, e)
      PROVE  ClaimInv'
  <2>1. /\ work[t][e] # "none" /\ work' = [work EXCEPT ![t][e] = "none"]
        /\ ~stale'[e]
        /\ \A f \in Rows \ {e} : /\ status'[f] = status[f] /\ claimedBy'[f] = claimedBy[f]
                                 /\ stale'[f] = stale[f]
        /\ UNCHANGED <<phase, ids, slow>>
    BY <1>7 DEF MarkProcessed, MarkFailed, LastAttempt, Release, WorkGoes
  <2>. SUFFICES ASSUME NEW f \in Rows, slow[f] = 0
                PROVE  Held(f)'
    BY <2>1 DEF ClaimInv
  <2>2. Held(f)
    BY DEF ClaimInv
  <2>3. CASE f = e
    <3>1. \A u \in Ticks : work'[u][f] = "none"
      BY <2>1, <2>2, <2>3 DEF Held
    <3>. QED BY <2>1, <2>3, <3>1 DEF Held
  <2>4. CASE f # e
    <3>1. /\ status'[f] = status[f] /\ claimedBy'[f] = claimedBy[f] /\ stale'[f] = stale[f]
          /\ \A u \in Ticks : work'[u][f] = work[u][f]
      BY <2>1, <2>4
    <3>. QED BY <2>1, <2>2, <3>1 DEF Held
  <2>. QED BY <2>3, <2>4
<1>8. ASSUME NEW t \in Ticks, TickEnds(t)
      PROVE  ClaimInv'
  <2>1. UNCHANGED <<rowVars, ids, work, slow>>
    BY <1>8 DEF TickEnds
  <2>2. \A u \in Ticks : phase'[u] = "rereading" => phase[u] = "rereading"
    BY <1>8 DEF TickEnds
  <2>. QED BY <1>0, <2>1, <2>2 DEF ClaimInv
<1>9. ASSUME NEW t \in Ticks, Crash(t)
      PROVE  ClaimInv'
  <2>1. /\ \A u \in Ticks, e \in Rows : work'[u][e] # "none" => work[u][e] # "none"
        /\ \A u \in Ticks : phase'[u] = "rereading" => phase[u] = "rereading" /\ ids'[u] = ids[u]
        /\ UNCHANGED <<rowVars, slow>>
    BY <1>9 DEF Crash, NoWork
  <2>. QED BY <2>1 DEF ClaimInv, Held
<1>. QED BY <1>1, <1>2, <1>3, <1>4, <1>5, <1>6, <1>7, <1>8, <1>9
         DEF RelayNext, TickStep

\* What is done was delivered, and what is closed was done.
LEMMA RelayStepDelivered ==
  ASSUME RelayTypeOK, Delivered, RelayNext
  PROVE  Delivered'
<1>. USE DEF RelayTypeOK, Delivered, DoneWasDelivered, DeliveredWhenProcessed, rowVars
<1>0. ASSUME UNCHANGED effects,
             \A e \in Rows : status'[e] = "processed" => status[e] = "processed",
             \A t \in Ticks, e \in Rows : work'[t][e] = "done" => work[t][e] = "done"
      PROVE  Delivered'
  BY <1>0
<1>1. ASSUME NEW e \in Rows, CreateRow(e) \/ ClaimAges(e)
      PROVE  Delivered'
  BY <1>0, <1>1 DEF CreateRow, ClaimAges
<1>2. ASSUME NEW t \in Ticks, Reap(t) \/ Claim(t)
      PROVE  Delivered'
  BY <1>0, <1>2 DEF Reap, Claim
<1>3. ASSUME NEW t \in Ticks, ReadCandidates(t) \/ TickEnds(t) \/ Reread(t) \/ Crash(t)
      PROVE  Delivered'
  <2>1. UNCHANGED <<status, effects>>
    BY <1>3 DEF ReadCandidates, TickEnds, Reread, Crash
  <2>2. \A u \in Ticks, e \in Rows : work'[u][e] = "done" => work[u][e] = "done"
    <3>1. CASE Reread(t)
      BY <3>1 DEF Reread
    <3>2. CASE Crash(t)
      BY <3>2 DEF Crash, NoWork
    <3>. QED BY <1>3, <3>1, <3>2 DEF ReadCandidates, TickEnds
  <2>. QED BY <1>0, <2>1, <2>2
<1>4. ASSUME NEW t \in Ticks, NEW e \in Rows, Deliver(t, e) \/ DeliverFails(t, e)
      PROVE  Delivered'
  <2>1. /\ UNCHANGED status
        /\ \A f \in Rows \ {e} : effects'[f] = effects[f]
        /\ effects'[e] \in {effects[e], effects[e] + 1}
        /\ \A u \in Ticks, f \in Rows : ~(u = t /\ f = e) => work'[u][f] = work[u][f]
        /\ work'[t][e] = "done" => effects'[e] = effects[e] + 1
    <3>1. CASE Deliver(t, e)
      BY <3>1 DEF Deliver, WorkGoes
    <3>2. CASE DeliverFails(t, e)
      <4>1. effects' = effects \/ effects' = [effects EXCEPT ![e] = @ + 1]
        BY <3>2 DEF DeliverFails
      <4>. QED BY <3>2, <4>1 DEF DeliverFails, WorkGoes
    <3>. QED BY <1>4, <3>1, <3>2
  <2>2. \A f \in Rows : effects[f] > 0 => effects'[f] > 0
    <3>. TAKE f \in Rows
    <3>1. effects[f] \in Nat
      OBVIOUS
    <3>2. effects'[f] \in {effects[f], effects[f] + 1}
      <4>1. CASE f = e
        BY <2>1, <4>1
      <4>2. CASE f # e
        BY <2>1, <4>2
      <4>. QED BY <4>1, <4>2
    <3>. QED BY <3>1, <3>2
  <2>3. DoneWasDelivered'
    <3>. SUFFICES ASSUME NEW u \in Ticks, NEW f \in Rows, work'[u][f] = "done"
                  PROVE  effects'[f] > 0
      BY DEF DoneWasDelivered
    <3>1. CASE u = t /\ f = e
      BY <2>1, <3>1
    <3>2. CASE ~(u = t /\ f = e)
      BY <2>1, <2>2, <3>2
    <3>. QED BY <3>1, <3>2
  <2>. QED BY <2>1, <2>2, <2>3
<1>5. ASSUME NEW t \in Ticks, NEW e \in Rows, MarkProcessed(t, e)
      PROVE  Delivered'
  <2>1. /\ work[t][e] = "done" /\ work' = [work EXCEPT ![t][e] = "none"]
        /\ status' = [status EXCEPT ![e] = "processed"]
        /\ UNCHANGED effects
    BY <1>5 DEF MarkProcessed, Release, WorkGoes
  <2>. QED BY <2>1
<1>6. ASSUME NEW t \in Ticks, NEW e \in Rows, MarkThrows(t, e)
      PROVE  Delivered'
  BY <1>0, <1>6 DEF MarkThrows, WorkGoes
<1>7. ASSUME NEW t \in Ticks, NEW e \in Rows, MarkFailed(t, e)
      PROVE  Delivered'
  <2>1. /\ work' = [work EXCEPT ![t][e] = "none"] /\ UNCHANGED effects
        /\ \A f \in Rows : status'[f] = "processed" => status[f] = "processed"
    BY <1>7 DEF MarkFailed, LastAttempt, Release, WorkGoes
  <2>. QED BY <1>0, <2>1
<1>. QED BY <1>1, <1>2, <1>3, <1>4, <1>5, <1>6, <1>7 DEF RelayNext, TickStep

-----------------------------------------------------------------------------
(* The account of a row.                                                   *)

Block(u, k) == {u} \X ((k + 1)..MaxAttempts)

LEMMA BlockSize ==
  ASSUME NEW u, NEW k \in 0..MaxAttempts
  PROVE  IsFiniteSet(Block(u, k)) /\ Cardinality(Block(u, k)) = MaxAttempts - k
<1>. DEFINE I == (k + 1)..MaxAttempts
<1>1. IsFiniteSet(I) /\ Cardinality(I) = MaxAttempts - k
  <2>1. k + 1 \in Int /\ MaxAttempts \in Int
    BY LimitsAssumption
  <2>2. /\ IsFiniteSet(I)
        /\ Cardinality(I) = IF k + 1 > MaxAttempts THEN 0 ELSE MaxAttempts - (k + 1) + 1
    BY <2>1, FS_Interval
  <2>. QED BY <2>2, LimitsAssumption
<1>2. IsFiniteSet({u}) /\ Cardinality({u}) = 1
  BY FS_Singleton
<1>. HIDE DEF I
<1>3. /\ IsFiniteSet({u} \X I)
      /\ Cardinality({u} \X I) = Cardinality({u}) * Cardinality(I)
  BY <1>1, <1>2, FS_Product
<1>4. Cardinality({u} \X I) = MaxAttempts - k
  BY <1>1, <1>2, <1>3, LimitsAssumption
<1>. QED BY <1>3, <1>4 DEF Block, I

\* A set that loses one part and gains another.
LEMMA Exchange ==
  ASSUME NEW A, IsFiniteSet(A), NEW L \in SUBSET A, NEW G, IsFiniteSet(G),
         NEW B, B \subseteq (A \ L) \cup G
  PROVE  /\ IsFiniteSet(B)
         /\ Cardinality(A) \in Nat /\ Cardinality(B) \in Nat
         /\ Cardinality(L) \in Nat /\ Cardinality(G) \in Nat
         /\ Cardinality(B) <= Cardinality(A) - Cardinality(L) + Cardinality(G)
<1>1. IsFiniteSet(L) /\ A \cap L = L
  BY FS_Subset
<1>2. /\ IsFiniteSet(A \ L)
      /\ Cardinality(A \ L) = Cardinality(A) - Cardinality(L)
  BY <1>1, FS_Difference
<1>3. /\ IsFiniteSet((A \ L) \cup G)
      /\ Cardinality((A \ L) \cup G)
           = Cardinality(A \ L) + Cardinality(G) - Cardinality((A \ L) \cap G)
  BY <1>2, FS_Union
<1>4. IsFiniteSet((A \ L) \cap G)
  BY <1>2, FS_Subset
<1>5. IsFiniteSet(B) /\ Cardinality(B) <= Cardinality((A \ L) \cup G)
  BY <1>3, FS_Subset
<1>6. /\ Cardinality(A) \in Nat /\ Cardinality(L) \in Nat /\ Cardinality(G) \in Nat
      /\ Cardinality(B) \in Nat /\ Cardinality((A \ L) \cap G) \in Nat
  BY <1>1, <1>4, <1>5, FS_CardinalityType
<1>. QED BY <1>2, <1>3, <1>5, <1>6

LEMMA HiddenIsFinite ==
  ASSUME NEW e, NEW h
  PROVE  IsFiniteSet(Hidden(e, h)) /\ Cardinality(Hidden(e, h)) \in Nat
<1>1. IsFiniteSet(1..MaxAttempts)
  BY LimitsAssumption, FS_Interval
<1>2. IsFiniteSet(Ticks \X (1..MaxAttempts))
  BY <1>1, TicksAssumption, FS_Product
<1>3. IsFiniteSet(Hidden(e, h))
  <2>1. Hidden(e, h) \in SUBSET (Ticks \X (1..MaxAttempts))
    BY DEF Hidden
  <2>. QED BY <1>2, <2>1, FS_Subset
<1>. QED BY <1>3, FS_CardinalityType

LEMMA GaveType == ASSUME NEW t, NEW e PROVE Gave(t, e) \in {0, 1}
BY DEF Gave

\* What a tick may hide, under h2 and after the step, it might have under h before.
HidesNoMore(e, h, h2) ==
  \A u \in Ticks, n \in 1..MaxAttempts :
    u # h2 /\ Hides(u, e, n)' => u # h /\ Hides(u, e, n)

LEMMA StillBalanced ==
  ASSUME RelayTypeOK, RelayTypeOK', NEW e \in Rows, NEW h, NEW h2,
         NEW x \in {0, 1}, NEW y \in {0, 1},
         Balanced(e, h, x), HidesNoMore(e, h, h2),
         effects'[e] = effects[e], attempts'[e] = attempts[e], slow'[e] = slow[e],
         x + faults <= y + faults'
  PROVE  Balanced(e, h2, y)'
<1>1. Hidden(e, h2)' \subseteq (Hidden(e, h) \ {}) \cup {}
  BY DEF Hidden, HidesNoMore
<1>2. /\ Cardinality(Hidden(e, h2)') \in Nat /\ Cardinality(Hidden(e, h)) \in Nat
      /\ Cardinality(Hidden(e, h2)') <= Cardinality(Hidden(e, h))
  BY <1>1, Exchange, HiddenIsFinite, FS_EmptySet
<1>. DEFINE P == MaxAttempts * slow[e]
            C == Cardinality(Hidden(e, h))
            D == Cardinality(Hidden(e, h2)')
<1>3. P \in Nat
  BY LimitsAssumption DEF RelayTypeOK
<1>4. /\ effects[e] \in Nat /\ attempts[e] \in Nat /\ faults \in Nat /\ faults' \in Nat
  BY LimitsAssumption DEF RelayTypeOK
<1>5. effects[e] + C <= attempts[e] + faults + P + x
  BY DEF Balanced
<1>6. C \in Nat /\ D \in Nat /\ D <= C
  BY <1>2
<1>7. MaxAttempts * slow'[e] = P
  OBVIOUS
<1>. HIDE DEF P, C, D
<1>8. x \in Nat /\ y \in Nat
  OBVIOUS
<1>9. effects[e] + D <= attempts[e] + faults' + P + y
  <2>1. \A a, b, c, d, m, n, p, i, j \in Nat :
          a + c <= b + m + p + i /\ d <= c /\ i + m <= j + n => a + d <= b + n + p + j
    OBVIOUS
  <2>. QED BY <1>3, <1>4, <1>5, <1>6, <1>8, <2>1
<1>. QED BY <1>7, <1>9 DEF Balanced, D

\* The step leaves the row alone.
RowSame(e) ==
  /\ status'[e] = status[e] /\ claimedBy'[e] = claimedBy[e] /\ stale'[e] = stale[e]
  /\ attempts'[e] = attempts[e] /\ effects'[e] = effects[e] /\ slow'[e] = slow[e]

\* The ticks know of it what they knew.
TicksSame(e) ==
  \A u \in Ticks : /\ work'[u][e] = work[u][e] /\ seen'[u][e] = seen[u][e]
                   /\ Waiting(u, e)' /\ stale[e] => Waiting(u, e)

LEMMA QuietRow ==
  ASSUME RelayTypeOK, RelayTypeOK', NEW e \in Rows, Account(e), RowSame(e), TicksSame(e),
         faults <= faults'
  PROVE  Account(e)'
<1>1. PICK h \in Ticks \cup {Nobody}, x \in {0, 1} :
        Speaks(e, h) /\ Uncounted(e, h, x) /\ Balanced(e, h, x)
  BY DEF Account
<1>2. HidesNoMore(e, h, h)
  BY DEF HidesNoMore, Hides, RowSame, TicksSame, Gave
<1>3. faults \in Nat /\ faults' \in Nat
  BY LimitsAssumption DEF RelayTypeOK
<1>4. Balanced(e, h, x)'
  <2>1. x + faults <= x + faults'
    <3>1. \A m, n, k \in Nat : m <= n => k + m <= k + n
      OBVIOUS
    <3>2. x \in Nat
      OBVIOUS
    <3>. QED BY <1>3, <3>1, <3>2
  <2>. QED BY <1>1, <1>2, <2>1, StillBalanced DEF RowSame
<1>5. Speaks(e, h)'
  BY <1>1 DEF Speaks, RowSame, TicksSame
<1>6. Uncounted(e, h, x)'
  <2>1. h # Nobody => Gave(h, e)' = Gave(h, e)
    BY DEF Gave, TicksSame
  <2>. QED BY <1>1, <2>1 DEF Uncounted, RowSame
<1>. QED BY <1>4, <1>5, <1>6 DEF Account

\* The steps of a tick between its rows.
LEMMA AccountOfTheLoop ==
  ASSUME RelayTypeOK, RelayTypeOK', LoopInv, NEW e \in Rows, Account(e), NEW t \in Ticks,
         Reap(t) \/ ReadCandidates(t) \/ Claim(t) \/ Reread(t) \/ TickEnds(t)
  PROVE  Account(e)'
<1>. USE DEF RelayTypeOK, LoopInv, rowVars
<1>1. PICK h \in Ticks \cup {Nobody}, x \in {0, 1} :
        Speaks(e, h) /\ Uncounted(e, h, x) /\ Balanced(e, h, x)
  BY DEF Account
<1>2. faults' = faults /\ effects' = effects /\ attempts' = attempts /\ slow' = slow
  BY DEF Reap, ReadCandidates, Claim, Reread, TickEnds
<1>3. faults \in Nat
  BY LimitsAssumption
<1>4. CASE Reap(t)
  <2>1. UNCHANGED <<work, seen, ids>> /\ phase[t] = "idle" /\ phase' = [phase EXCEPT ![t] = "reading"]
    BY <1>4 DEF Reap
  <2>2. CASE Abandoned(e)
    <3>1. status[e] = "processing" /\ stale[e] /\ status'[e] = "pending"
      BY <1>4, <2>2 DEF Reap, Abandoned
    <3>2. h = Nobody /\ x = 0
      BY <1>1, <3>1 DEF Speaks, Uncounted
    <3>3. HidesNoMore(e, h, h)
      BY <2>1, <3>1 DEF HidesNoMore, Hides, Gave, Waiting
    <3>4. Balanced(e, h, x)'
      BY <1>1, <1>2, <1>3, <3>3, StillBalanced
    <3>5. Speaks(e, h)' /\ Uncounted(e, h, x)'
      BY <3>1, <3>2 DEF Speaks, Uncounted
    <3>. QED BY <3>4, <3>5 DEF Account
  <2>3. CASE ~Abandoned(e)
    <3>1. RowSame(e)
      BY <1>2, <1>4, <2>3 DEF Reap, RowSame
    <3>2. TicksSame(e)
      BY <2>1, <3>1 DEF TicksSame, Waiting, RowSame
    <3>. QED BY <1>2, <1>3, <3>1, <3>2, QuietRow
  <2>. QED BY <2>2, <2>3
<1>5. CASE ReadCandidates(t)
  <2>1. PICK S \in SUBSET Rows :
          /\ ids' = [ids EXCEPT ![t] = S]
          /\ phase' = [phase EXCEPT ![t] = IF S = {} THEN "idle" ELSE "claiming"]
    BY <1>5 DEF ReadCandidates
  <2>2. RowSame(e) /\ UNCHANGED <<work, seen>>
    BY <1>2, <1>5 DEF ReadCandidates, RowSame
  <2>3. TicksSame(e)
    BY <2>1, <2>2 DEF TicksSame, Waiting, RowSame
  <2>. QED BY <1>2, <1>3, <2>2, <2>3, QuietRow
<1>6. CASE Claim(t)
  <2>1. /\ UNCHANGED <<work, seen, ids>> /\ phase[t] = "claiming"
        /\ phase' = [phase EXCEPT ![t] = "rereading"]
    BY <1>6 DEF Claim
  <2>2. CASE e \in ids[t] /\ Free(e)
    <3>1. /\ status[e] = "pending" /\ status'[e] = "processing"
          /\ claimedBy'[e] = t /\ ~stale'[e]
      BY <1>6, <2>2 DEF Claim, Free
    <3>2. h = Nobody /\ x = 0
      BY <1>1, <3>1 DEF Speaks, Uncounted
    <3>3. HidesNoMore(e, h, h)
      BY <2>1, <3>1 DEF HidesNoMore, Hides, Gave
    <3>4. Balanced(e, h, x)'
      BY <1>1, <1>2, <1>3, <3>3, StillBalanced
    <3>5. Speaks(e, h)' /\ Uncounted(e, h, x)'
      BY <3>1, <3>2 DEF Speaks, Uncounted
    <3>. QED BY <3>4, <3>5 DEF Account
  <2>3. CASE ~(e \in ids[t] /\ Free(e))
    <3>1. RowSame(e)
      BY <1>2, <1>6, <2>3 DEF Claim, RowSame
    <3>2. TicksSame(e)
      BY <2>1, <3>1 DEF TicksSame, Waiting, RowSame, CandidatesNotHeld
    <3>. QED BY <1>2, <1>3, <3>1, <3>2, QuietRow
  <2>. QED BY <2>2, <2>3
<1>7. CASE Reread(t)
  <2>1. /\ \A u \in Ticks \ {t} : work'[u] = work[u] /\ seen'[u] = seen[u] /\ ids'[u] = ids[u]
        /\ phase[t] = "rereading" /\ phase' = [phase EXCEPT ![t] = "working"]
        /\ work'[t][e] = IF Mine(t, e) THEN "todo" ELSE "none"
        /\ seen'[t][e] = IF Mine(t, e) THEN attempts[e] ELSE 0
    BY <1>7 DEF Reread
  <2>2. RowSame(e)
    BY <1>2, <1>7 DEF Reread, RowSame
  <2>3. work[t][e] = "none"
    BY <2>1 DEF WorkInLoop
  <2>4. Mine(t, e) <=> Waiting(t, e)
    BY <2>1 DEF Mine, Waiting
  <2>5. /\ \A u \in Ticks \ {t} : \A n \in 1..MaxAttempts : Hides(u, e, n)' => Hides(u, e, n)
        /\ \A n \in 1..MaxAttempts : Hides(t, e, n)' => Waiting(t, e)
    BY <2>1, <2>2, <2>4 DEF Hides, Gave, Waiting, RowSame
  <2>6. h # t
    BY <1>1, <2>3, TicksAssumption DEF Speaks
  <2>7. CASE ~Mine(t, e) \/ stale[e]
    <3>1. HidesNoMore(e, h, h)
      BY <2>4, <2>5, <2>6, <2>7 DEF HidesNoMore, Hides
    <3>2. Balanced(e, h, x)'
      BY <1>1, <1>2, <1>3, <3>1, StillBalanced
    <3>3. h # Nobody => work'[h][e] = work[h][e] /\ seen'[h][e] = seen[h][e]
      BY <2>1, <2>6
    <3>4. Speaks(e, h)' /\ Uncounted(e, h, x)'
      BY <1>1, <2>2, <3>3 DEF Speaks, Uncounted, Gave, RowSame
    <3>. QED BY <3>2, <3>4 DEF Account
  <2>8. CASE Mine(t, e) /\ ~stale[e]
    <3>1. status[e] = "processing" /\ claimedBy[e] = t
      BY <2>8 DEF Mine
    <3>2. h = Nobody /\ x = 0
      BY <1>1, <2>6, <3>1 DEF Speaks, Uncounted
    <3>3. HidesNoMore(e, h, t)
      BY <2>5, <3>2, TicksAssumption DEF HidesNoMore
    <3>4. Balanced(e, t, x)'
      BY <1>1, <1>2, <1>3, <3>3, StillBalanced
    <3>5. Speaks(e, t)' /\ Uncounted(e, t, x)'
      BY <2>1, <2>2, <2>8, <3>1, <3>2 DEF Speaks, Uncounted, RowSame
    <3>. QED BY <3>4, <3>5 DEF Account
  <2>. QED BY <2>7, <2>8
<1>8. CASE TickEnds(t)
  <2>1. RowSame(e) /\ UNCHANGED <<work, seen, ids>>
    BY <1>2, <1>8 DEF TickEnds, RowSame
  <2>2. phase' = [phase EXCEPT ![t] = "idle"]
    BY <1>8 DEF TickEnds
  <2>3. TicksSame(e)
    BY <2>1, <2>2 DEF TicksSame, Waiting, RowSame
  <2>. QED BY <1>2, <1>3, <2>1, <2>3, QuietRow
<1>. QED BY <1>4, <1>5, <1>6, <1>7, <1>8

\* A row comes into being, or its claim ages.
LEMMA AccountOfTheRow ==
  ASSUME RelayTypeOK, RelayTypeOK', LoopInv, NEW e \in Rows, Account(e), NEW f \in Rows,
         CreateRow(f) \/ ClaimAges(f)
  PROVE  Account(e)'
<1>. USE DEF RelayTypeOK, LoopInv, rowVars
<1>1. PICK h \in Ticks \cup {Nobody}, x \in {0, 1} :
        Speaks(e, h) /\ Uncounted(e, h, x) /\ Balanced(e, h, x)
  BY DEF Account
<1>2. /\ faults' = faults /\ UNCHANGED <<effects, attempts, claimedBy, phase, ids, work, seen>>
      /\ \A g \in Rows \ {f} : status'[g] = status[g] /\ stale'[g] = stale[g] /\ slow'[g] = slow[g]
  BY DEF CreateRow, ClaimAges
<1>3. faults \in Nat
  BY LimitsAssumption
<1>4. CASE e # f
  <2>1. RowSame(e)
    BY <1>2, <1>4 DEF RowSame
  <2>2. TicksSame(e)
    BY <1>2, <2>1 DEF TicksSame, Waiting, RowSame
  <2>. QED BY <1>2, <1>3, <2>1, <2>2, QuietRow
<1>5. CASE e = f /\ CreateRow(f)
  <2>1. status[e] = "none" /\ status'[e] = "pending" /\ UNCHANGED <<stale, slow>>
    BY <1>5 DEF CreateRow
  <2>2. h = Nobody /\ x = 0
    BY <1>1, <2>1 DEF Speaks, Uncounted
  <2>3. HidesNoMore(e, h, h)
    BY <1>2, <2>1 DEF HidesNoMore, Hides, Gave, Waiting
  <2>4. Balanced(e, h, x)'
    BY <1>1, <1>2, <1>3, <2>1, <2>3, StillBalanced
  <2>5. Speaks(e, h)' /\ Uncounted(e, h, x)'
    BY <2>1, <2>2 DEF Speaks, Uncounted
  <2>. QED BY <2>4, <2>5 DEF Account
<1>6. CASE e = f /\ ClaimAges(f) /\ ~Busy(f)
  <2>1. /\ status[e] = "processing" /\ UNCHANGED <<status, slow>> /\ stale'[e]
        /\ \A u \in Ticks : work[u][e] = "none" /\ ~Waiting(u, e)
    BY <1>6 DEF ClaimAges, Busy, Waiting
  <2>2. h = Nobody /\ x = 0
    BY <1>1, <2>1 DEF Speaks, Uncounted
  <2>3. HidesNoMore(e, h, h)
    BY <1>2, <2>1 DEF HidesNoMore, Hides, Waiting
  <2>4. Balanced(e, h, x)'
    BY <1>1, <1>2, <1>3, <2>1, <2>3, StillBalanced
  <2>5. Speaks(e, h)' /\ Uncounted(e, h, x)'
    BY <2>1, <2>2 DEF Speaks, Uncounted
  <2>. QED BY <2>4, <2>5 DEF Account
<1>7. CASE e = f /\ ClaimAges(f) /\ Busy(f)
  <2>1. /\ status[e] = "processing" /\ ~stale[e] /\ UNCHANGED status
        /\ slow'[e] = slow[e] + 1
    BY <1>7 DEF ClaimAges
  <2>2. PICK c, k : /\ k \in 0..MaxAttempts
                    /\ x <= k
                    /\ Hidden(e, Nobody)' \subseteq (Hidden(e, h) \ {}) \cup Block(c, k)
    <3>1. CASE h = Nobody
      <4>1. x = 0 /\ Uncounted(e, h, x)
        BY <1>1, <2>1, <3>1 DEF Uncounted
      <4>2. \A u \in Ticks, n \in 1..MaxAttempts :
              Hides(u, e, n)' => Hides(u, e, n) \/ u = claimedBy[e]
        BY <1>2, <2>1 DEF Hides, Gave, Waiting
      <4>3. Hidden(e, Nobody)' \subseteq (Hidden(e, h) \ {}) \cup Block(claimedBy[e], 0)
        BY <3>1, <4>2, LimitsAssumption DEF Hidden, Block
      <4>4. 0 \in 0..MaxAttempts /\ x <= 0
        BY <4>1, LimitsAssumption
      <4>. QED BY <4>3, <4>4
    <3>2. CASE h # Nobody
      <4>1. /\ h \in Ticks /\ h = claimedBy[e] /\ work[h][e] # "none"
            /\ seen[h][e] = attempts[e] /\ seen[h][e] < MaxAttempts /\ phase[h] = "working"
        BY <1>1, <2>1, <3>2 DEF Speaks, WorkInLoop
      <4>2. \A u \in Ticks, n \in 1..MaxAttempts :
              Hides(u, e, n)' =>
                \/ u # h /\ Hides(u, e, n)
                \/ u = h /\ n > attempts[e] + Gave(h, e)
        BY <1>2, <2>1, <4>1 DEF Hides, Gave, Waiting
      <4>3. /\ attempts[e] + Gave(h, e) \in 0..MaxAttempts
            /\ x <= attempts[e] + Gave(h, e)
        BY <1>1, <3>2, <4>1, GaveType, LimitsAssumption DEF Uncounted
      <4>4. Hidden(e, Nobody)' \subseteq
              (Hidden(e, h) \ {}) \cup Block(h, attempts[e] + Gave(h, e))
        BY <4>2, <4>3, LimitsAssumption DEF Hidden, Block
      <4>. QED BY <4>3, <4>4
    <3>. QED BY <3>1, <3>2
  <2>. DEFINE C == Cardinality(Hidden(e, h))
              D == Cardinality(Hidden(e, Nobody)')
              P == MaxAttempts * slow[e]
  <2>3. C \in Nat /\ D \in Nat /\ D <= C + MaxAttempts - k
    <3>1. /\ IsFiniteSet(Hidden(e, h)) /\ IsFiniteSet(Block(c, k))
          /\ Cardinality(Block(c, k)) = MaxAttempts - k
      BY <2>2, HiddenIsFinite, BlockSize
    <3>2. Cardinality({}) = 0
      BY FS_EmptySet
    <3>3. /\ C \in Nat /\ D \in Nat
          /\ D <= C - Cardinality({}) + Cardinality(Block(c, k))
      BY <2>2, <3>1, Exchange
    <3>. QED BY <2>2, <3>1, <3>2, <3>3, LimitsAssumption
  <2>4. effects[e] \in Nat /\ attempts[e] \in Nat /\ P \in Nat /\ MaxAttempts \in Nat
    BY LimitsAssumption
  <2>5. MaxAttempts * slow'[e] = P + MaxAttempts
    <3>1. \A m, n \in Nat : m * (n + 1) = m * n + m
      OBVIOUS
    <3>2. slow[e] \in Nat
      OBVIOUS
    <3>. QED BY <2>1, <3>1, <3>2, LimitsAssumption
  <2>6. effects[e] + C <= attempts[e] + faults + P + x
    BY <1>1 DEF Balanced
  <2>. HIDE DEF C, D, P
  <2>7. effects[e] + D <= attempts[e] + faults + (P + MaxAttempts) + 0
    <3>1. x \in Nat /\ k \in Nat /\ x <= k
      BY <2>2
    <3>2. \A a, b, cc, d, m, p, i, j, q \in Nat :
            a + cc <= b + m + p + i /\ d <= cc + q - j /\ i <= j => a + d <= b + m + (p + q) + 0
      OBVIOUS
    <3>. QED BY <1>3, <2>3, <2>4, <2>6, <3>1, <3>2
  <2>8. Balanced(e, Nobody, 0)'
    BY <1>2, <2>5, <2>7 DEF Balanced, D
  <2>9. Speaks(e, Nobody)' /\ Uncounted(e, Nobody, 0)'
    BY DEF Speaks, Uncounted
  <2>. QED BY <2>8, <2>9 DEF Account
<1>. QED BY <1>4, <1>5, <1>6, <1>7

\* A tick takes the effect of a row.
LEMMA AccountOfAnEffect ==
  ASSUME RelayTypeOK, RelayTypeOK', LoopInv, NEW e \in Rows, Account(e),
         NEW t \in Ticks, NEW f \in Rows, Deliver(t, f) \/ DeliverFails(t, f)
  PROVE  Account(e)'
<1>. USE DEF RelayTypeOK, LoopInv, rowVars
<1>1. PICK h \in Ticks \cup {Nobody}, x \in {0, 1} :
        Speaks(e, h) /\ Uncounted(e, h, x) /\ Balanced(e, h, x)
  BY DEF Account
<1>2. /\ work[t][f] = "todo" /\ work'[t][f] \in {"done", "failing"}
      /\ \A u \in Ticks, g \in Rows : ~(u = t /\ g = f) => work'[u][g] = work[u][g]
      /\ effects'[f] \in {effects[f], effects[f] + 1}
      /\ \A g \in Rows \ {f} : effects'[g] = effects[g]
      /\ UNCHANGED <<status, claimedBy, stale, attempts, phase, ids, seen, faults, slow>>
  <2>1. effects' = effects \/ effects' = [effects EXCEPT ![f] = @ + 1]
    BY DEF Deliver, DeliverFails
  <2>2. /\ work[t][f] = "todo"
        /\ work' = [work EXCEPT ![t][f] = "done"] \/ work' = [work EXCEPT ![t][f] = "failing"]
        /\ UNCHANGED <<status, claimedBy, stale, attempts, phase, ids, seen, faults, slow>>
    BY DEF Deliver, DeliverFails, Turn, WorkGoes
  <2>. QED BY <2>1, <2>2
<1>3. faults \in Nat
  BY LimitsAssumption
<1>4. CASE e # f
  <2>1. RowSame(e) /\ TicksSame(e)
    BY <1>2, <1>4 DEF RowSame, TicksSame, Waiting
  <2>. QED BY <1>2, <1>3, <2>1, QuietRow
<1>5. CASE e = f
  <2>. DEFINE C == Cardinality(Hidden(e, h))
              D == Cardinality(Hidden(e, h)')
              P == MaxAttempts * slow[e]
  <2>1. P \in Nat /\ effects[e] \in Nat /\ effects'[e] \in Nat /\ attempts[e] \in Nat
    BY LimitsAssumption
  <2>2. effects[e] + C <= attempts[e] + faults + P + x
    BY <1>1 DEF Balanced
  <2>3. effects'[e] <= effects[e] + 1
    BY <1>2, <1>5, <2>1
  <2>4. Gave(t, e) = 0 /\ Gave(t, e)' = 1
    BY <1>2, <1>5 DEF Gave
  <2>5. \A u \in Ticks, n \in 1..MaxAttempts :
          /\ u # t => (Hides(u, e, n)' <=> Hides(u, e, n))
          /\ Hides(t, e, n)' => n > seen[t][e] + 1
          /\ n > seen[t][e] => Hides(t, e, n)
    BY <1>2, <1>5, <2>4 DEF Hides, Gave, Waiting, WorkInLoop
  <2>6. Speaks(e, h)'
    BY <1>1, <1>2, <1>5 DEF Speaks
  <2>7. CASE t = h
    <3>1. x = 0
      BY <1>1, <2>4, <2>7, TicksAssumption DEF Uncounted
    <3>2. Hidden(e, h)' \subseteq (Hidden(e, h) \ {}) \cup {}
      BY <2>5, <2>7 DEF Hidden
    <3>3. C \in Nat /\ D \in Nat /\ D <= C
      BY <3>2, Exchange, HiddenIsFinite, FS_EmptySet
    <3>. HIDE DEF C, D, P
    <3>4. effects'[e] + D <= attempts[e] + faults + P + 1
      BY <1>3, <2>1, <2>2, <2>3, <3>1, <3>3
    <3>5. Balanced(e, h, 1)'
      BY <1>2, <3>4 DEF Balanced, D, P
    <3>6. Uncounted(e, h, 1)'
      BY <2>4, <2>7, TicksAssumption DEF Uncounted
    <3>. QED BY <2>6, <3>5, <3>6 DEF Account
  <2>8. CASE t # h
    <3>. DEFINE pair == <<t, seen[t][e] + 1>>
    <3>1. seen[t][e] + 1 \in 1..MaxAttempts
      <4>1. seen[t][e] < MaxAttempts
        BY <1>2, <1>5 DEF WorkInLoop
      <4>2. seen[t][e] \in 0..MaxAttempts
        OBVIOUS
      <4>. QED BY <4>1, <4>2, LimitsAssumption
    <3>2. pair \in Hidden(e, h)
      BY <2>5, <2>8, <3>1 DEF Hidden
    <3>3. Hidden(e, h)' \subseteq (Hidden(e, h) \ {pair}) \cup {}
      <4>. SUFFICES ASSUME NEW u \in Ticks, NEW n \in 1..MaxAttempts,
                           u # h, Hides(u, e, n)'
                    PROVE  Hides(u, e, n) /\ <<u, n>> # pair
        BY DEF Hidden
      <4>1. CASE u # t
        BY <2>5, <4>1
      <4>2. CASE u = t
        BY <2>5, <3>1, <4>2
      <4>. QED BY <4>1, <4>2
    <3>4. C \in Nat /\ D \in Nat /\ D <= C - 1
      <4>1. Cardinality({pair}) = 1 /\ IsFiniteSet({}) /\ Cardinality({}) = 0
        BY FS_Singleton, FS_EmptySet
      <4>2. {pair} \in SUBSET Hidden(e, h) /\ IsFiniteSet(Hidden(e, h))
        BY <3>2, HiddenIsFinite
      <4>3. /\ C \in Nat /\ D \in Nat
            /\ D <= C - Cardinality({pair}) + Cardinality({})
        BY <3>3, <4>1, <4>2, Exchange
      <4>. HIDE DEF C, D, pair
      <4>. QED BY <4>1, <4>3
    <3>. HIDE DEF C, D, P, pair
    <3>5. effects'[e] + D <= attempts[e] + faults + P + x
      <4>1. x \in Nat
        OBVIOUS
      <4>. QED BY <1>3, <2>1, <2>2, <2>3, <3>4, <4>1
    <3>6. Balanced(e, h, x)'
      BY <1>2, <3>5 DEF Balanced, D, P
    <3>7. Uncounted(e, h, x)'
      <4>1. h # Nobody => Gave(h, e)' = Gave(h, e)
        BY <1>2, <2>8 DEF Gave
      <4>. QED BY <1>1, <1>2, <4>1 DEF Uncounted
    <3>. QED BY <2>6, <3>6, <3>7 DEF Account
  <2>. QED BY <2>7, <2>8
<1>. QED BY <1>4, <1>5

\* A tick closes a row, fails to, or dies.
LEMMA AccountOfAClosing ==
  ASSUME RelayTypeOK, RelayTypeOK', LoopInv, NEW e \in Rows, Account(e),
         NEW t \in Ticks, NEW f \in Rows, MarkProcessed(t, f) \/ MarkThrows(t, f) \/ Crash(t)
  PROVE  Account(e)'
<1>. USE DEF RelayTypeOK, LoopInv, rowVars
<1>1. PICK h \in Ticks \cup {Nobody}, x \in {0, 1} :
        Speaks(e, h) /\ Uncounted(e, h, x) /\ Balanced(e, h, x)
  BY DEF Account
<1>2. faults \in Nat /\ faults' \in Nat /\ faults <= faults' /\ x \in Nat
  <2>1. faults' = faults \/ faults' = faults + 1
    BY DEF MarkProcessed, MarkThrows, Crash
  <2>2. faults \in Nat
    BY LimitsAssumption
  <2>. QED BY <2>1, <2>2
<1>3. CASE MarkProcessed(t, f) /\ e # f
  <2>1. /\ \A u \in Ticks : work'[u][e] = work[u][e] /\ seen'[u][e] = seen[u][e]
        /\ UNCHANGED <<phase, ids>> /\ RowSame(e)
    BY <1>3 DEF MarkProcessed, Release, WorkGoes, RowSame
  <2>2. TicksSame(e)
    BY <2>1 DEF TicksSame, Waiting, RowSame
  <2>. QED BY <1>2, <2>1, <2>2, QuietRow
<1>4. CASE MarkProcessed(t, f) /\ e = f
  <2>1. /\ work[t][e] = "done" /\ work'[t][e] = "none" /\ status'[e] = "processed"
        /\ \A u \in Ticks \ {t} : work'[u][e] = work[u][e] /\ seen'[u][e] = seen[u][e]
        /\ UNCHANGED <<attempts, effects, phase, ids, faults, slow>>
    BY <1>4 DEF MarkProcessed, Release, WorkGoes
  <2>2. \A u \in Ticks, n \in 1..MaxAttempts : Hides(u, e, n)' => u # t /\ Hides(u, e, n)
    BY <2>1 DEF Hides, Gave, Waiting
  <2>3. CASE t = h
    <3>1. HidesNoMore(e, h, Nobody)
      BY <2>2, <2>3 DEF HidesNoMore
    <3>2. Balanced(e, Nobody, x)'
      <4>1. x + faults <= x + faults'
        BY <1>2, <2>1
      <4>. QED BY <1>1, <2>1, <3>1, <4>1, StillBalanced
    <3>3. attempts[e] < MaxAttempts
      BY <1>1, <2>1, <2>3, TicksAssumption DEF Speaks, WorkInLoop
    <3>4. Speaks(e, Nobody)' /\ Uncounted(e, Nobody, x)'
      BY <2>1, <3>3 DEF Speaks, Uncounted
    <3>. QED BY <3>2, <3>4 DEF Account
  <2>4. CASE t # h
    <3>1. HidesNoMore(e, h, h)
      BY <2>2 DEF HidesNoMore
    <3>2. Balanced(e, h, x)'
      <4>1. x + faults <= x + faults'
        BY <1>2, <2>1
      <4>. QED BY <1>1, <2>1, <3>1, <4>1, StillBalanced
    <3>3. h # Nobody => work'[h][e] = work[h][e] /\ seen'[h][e] = seen[h][e]
      BY <2>1, <2>4
    <3>4. Speaks(e, h)' /\ Uncounted(e, h, x)'
      BY <1>1, <2>1, <3>3 DEF Speaks, Uncounted, Gave
    <3>. QED BY <3>2, <3>4 DEF Account
  <2>. QED BY <2>3, <2>4
<1>5. CASE MarkThrows(t, f)
  <2>1. /\ work[t][f] = "done" /\ work' = [work EXCEPT ![t][f] = "failing"]
        /\ UNCHANGED <<seen, phase, ids>> /\ RowSame(e)
    BY <1>5 DEF MarkThrows, WorkGoes, RowSame
  <2>2. \A u \in Ticks : Gave(u, e)' = Gave(u, e) /\ (work'[u][e] # "none" <=> work[u][e] # "none")
    BY <2>1 DEF Gave
  <2>3. HidesNoMore(e, h, h)
    BY <2>1, <2>2 DEF HidesNoMore, Hides, Waiting, RowSame
  <2>4. Balanced(e, h, x)'
    <3>1. \A m, n, k \in Nat : m <= n => k + m <= k + n
      OBVIOUS
    <3>2. x + faults <= x + faults'
      BY <1>2, <3>1
    <3>3. effects'[e] = effects[e] /\ attempts'[e] = attempts[e] /\ slow'[e] = slow[e]
      BY <2>1 DEF RowSame
    <3>. QED BY <1>1, <2>3, <3>2, <3>3, StillBalanced
  <2>5. Speaks(e, h)' /\ Uncounted(e, h, x)'
    BY <1>1, <2>1, <2>2 DEF Speaks, Uncounted, RowSame
  <2>. QED BY <2>4, <2>5 DEF Account
<1>6. CASE Crash(t)
  <2>1. /\ work'[t] = NoWork /\ phase'[t] = "idle" /\ faults' = faults + 1
        /\ \A u \in Ticks \ {t} : /\ work'[u] = work[u] /\ seen'[u] = seen[u]
                                  /\ ids'[u] = ids[u] /\ phase'[u] = phase[u]
        /\ RowSame(e)
    BY <1>6 DEF Crash, RowSame
  <2>2. \A u \in Ticks, n \in 1..MaxAttempts : Hides(u, e, n)' => u # t /\ Hides(u, e, n)
    BY <2>1 DEF Hides, Gave, Waiting, NoWork, RowSame
  <2>3. CASE t = h
    <3>1. HidesNoMore(e, h, Nobody)
      BY <2>2, <2>3 DEF HidesNoMore
    <3>2. Balanced(e, Nobody, 0)'
      <4>1. x + faults <= 0 + faults'
        BY <1>2, <2>1
      <4>. QED BY <1>1, <2>1, <3>1, <4>1, StillBalanced DEF RowSame
    <3>3. Speaks(e, Nobody)' /\ Uncounted(e, Nobody, 0)'
      BY <2>1 DEF Speaks, Uncounted
    <3>. QED BY <3>2, <3>3 DEF Account
  <2>4. CASE t # h
    <3>1. HidesNoMore(e, h, h)
      BY <2>2 DEF HidesNoMore
    <3>2. Balanced(e, h, x)'
      <4>1. x + faults <= x + faults'
        BY <1>2, <2>1
      <4>. QED BY <1>1, <2>1, <3>1, <4>1, StillBalanced DEF RowSame
    <3>3. h # Nobody => work'[h][e] = work[h][e] /\ seen'[h][e] = seen[h][e]
      BY <2>1, <2>4
    <3>4. Speaks(e, h)' /\ Uncounted(e, h, x)'
      BY <1>1, <2>1, <3>3 DEF Speaks, Uncounted, Gave, RowSame
    <3>. QED BY <3>2, <3>4 DEF Account
  <2>. QED BY <2>3, <2>4
<1>. QED BY <1>3, <1>4, <1>5, <1>6


\* A tick writes the number it has read, plus one.
LEMMA AccountOfAFailure ==
  ASSUME RelayTypeOK, RelayTypeOK', LoopInv, NEW e \in Rows, Account(e),
         NEW t \in Ticks, NEW f \in Rows, MarkFailed(t, f)
  PROVE  Account(e)'
<1>. USE DEF RelayTypeOK, LoopInv, rowVars
<1>1. PICK h \in Ticks \cup {Nobody}, x \in {0, 1} :
        Speaks(e, h) /\ Uncounted(e, h, x) /\ Balanced(e, h, x)
  BY DEF Account
<1>2. /\ work[t][f] = "failing" /\ work' = [work EXCEPT ![t][f] = "none"]
      /\ seen' = [seen EXCEPT ![t][f] = 0]
      /\ attempts' = [attempts EXCEPT ![f] = seen[t][f] + 1]
      /\ status'[f] \in {"failed", "pending"} /\ ~stale'[f]
      /\ \A g \in Rows \ {f} : /\ status'[g] = status[g] /\ claimedBy'[g] = claimedBy[g]
                               /\ stale'[g] = stale[g]
      /\ UNCHANGED <<effects, phase, ids, faults, slow>>
  BY DEF MarkFailed, Release, WorkGoes, Attempt, LastAttempt
<1>3. faults \in Nat
  BY LimitsAssumption
<1>4. CASE e # f
  <2>1. RowSame(e) /\ TicksSame(e)
    BY <1>2, <1>4 DEF RowSame, TicksSame, Waiting
  <2>. QED BY <1>2, <1>3, <2>1, QuietRow
<1>5. CASE e = f
  <2>. DEFINE s == seen[t][e]
              C == Cardinality(Hidden(e, h))
              D == Cardinality(Hidden(e, Nobody)')
              P == MaxAttempts * slow[e]
  <2>1. s \in Nat /\ s < MaxAttempts /\ s + 1 \in 0..MaxAttempts /\ attempts'[e] = s + 1
    <3>1. s < MaxAttempts
      BY <1>2, <1>5 DEF WorkInLoop
    <3>2. s \in 0..MaxAttempts
      OBVIOUS
    <3>3. attempts'[e] = s + 1
      BY <1>2, <1>5
    <3>. QED BY <3>1, <3>2, <3>3, LimitsAssumption
  <2>2. \A u \in Ticks, n \in 1..MaxAttempts :
          /\ Hides(u, e, n)' => u # t /\ work[u][e] # "none" /\ n > seen[u][e] + Gave(u, e)
          /\ work[u][e] # "none" /\ n > seen[u][e] + Gave(u, e) => Hides(u, e, n)
    BY <1>2, <1>5 DEF Hides, Gave, Waiting
  <2>3. Gave(t, e) = 1
    BY <1>2, <1>5 DEF Gave
  <2>4. P \in Nat /\ effects[e] \in Nat /\ attempts[e] \in Nat /\ MaxAttempts \in Nat /\ x \in Nat
    BY LimitsAssumption
  <2>5. effects[e] + C <= attempts[e] + faults + P + x
    BY <1>1 DEF Balanced
  <2>6. attempts[e] + x + D <= s + 1 + C
    <3>. HIDE DEF s
    <3>0. IsFiniteSet(Hidden(e, h)) /\ IsFiniteSet({}) /\ Cardinality({}) = 0
      BY HiddenIsFinite, FS_EmptySet
    <3>1. CASE t = h
      <4>1. attempts[e] = s
        BY <1>1, <3>1, TicksAssumption DEF Speaks, s
      <4>2. Hidden(e, Nobody)' \subseteq (Hidden(e, h) \ {}) \cup {}
        BY <2>2, <3>1 DEF Hidden
      <4>3. C \in Nat /\ D \in Nat /\ D <= C
        BY <3>0, <4>2, Exchange
      <4>4. x <= 1
        OBVIOUS
      <4>. HIDE DEF C, D
      <4>. QED BY <2>1, <2>4, <4>1, <4>3, <4>4
    <3>2. CASE t # h
      <4>. DEFINE B == Block(t, s + 1)
      <4>1. B \in SUBSET Hidden(e, h)
        <5>. SUFFICES ASSUME NEW n \in (s + 2)..MaxAttempts
                      PROVE  <<t, n>> \in Hidden(e, h)
          BY <2>1 DEF Block
        <5>1. n \in 1..MaxAttempts /\ n > s + 1
          BY <2>1, LimitsAssumption
        <5>2. Hides(t, e, n)
          <6>1. work[t][e] # "none" /\ n > seen[t][e] + Gave(t, e)
            BY <1>2, <1>5, <2>3, <5>1 DEF s
          <6>. QED BY <2>2, <5>1, <6>1
        <5>. QED BY <3>2, <5>1, <5>2 DEF Hidden
      <4>2. IsFiniteSet(B) /\ Cardinality(B) = MaxAttempts - (s + 1)
        BY <2>1, BlockSize
      <4>3. CASE h = Nobody
        <5>1. Hidden(e, Nobody)' \subseteq (Hidden(e, h) \ B) \cup {}
          <6>. SUFFICES ASSUME NEW u \in Ticks, NEW n \in 1..MaxAttempts, Hides(u, e, n)'
                        PROVE  Hides(u, e, n) /\ <<u, n>> \notin B /\ u # h
            BY DEF Hidden
          <6>1. Hides(u, e, n) /\ u # t
            BY <2>2
          <6>. QED BY <4>3, <6>1, TicksAssumption DEF Block
        <5>2. C \in Nat /\ D \in Nat /\ D <= C - Cardinality(B) + Cardinality({})
          BY <3>0, <4>1, <5>1, Exchange
        <5>3. attempts[e] + x <= MaxAttempts
          <6>1. x = 0 \/ (x = 1 /\ attempts[e] < MaxAttempts)
            BY <1>1, <4>3 DEF Uncounted
          <6>2. attempts[e] \in 0..MaxAttempts
            OBVIOUS
          <6>. QED BY <2>4, <6>1, <6>2
        <5>. HIDE DEF B, C, D
        <5>. QED BY <2>1, <2>4, <3>0, <4>2, <5>2, <5>3
      <4>4. CASE h # Nobody
        <5>. DEFINE k == attempts[e] + Gave(h, e)
        <5>1. /\ h \in Ticks /\ work[h][e] # "none" /\ seen[h][e] = attempts[e]
              /\ attempts[e] < MaxAttempts
          BY <1>1, <4>4 DEF Speaks, WorkInLoop
        <5>2. k \in 0..MaxAttempts /\ attempts[e] + x <= k
          <6>1. x <= Gave(h, e)
            BY <1>1, <4>4, GaveType DEF Uncounted
          <6>2. Gave(h, e) \in {0, 1}
            BY GaveType
          <6>. QED BY <2>4, <5>1, <6>1, <6>2
        <5>3. Hidden(e, Nobody)' \subseteq (Hidden(e, h) \ B) \cup Block(h, k)
          <6>. SUFFICES ASSUME NEW u \in Ticks, NEW n \in 1..MaxAttempts, Hides(u, e, n)'
                        PROVE  <<u, n>> \in (Hidden(e, h) \ B) \cup Block(h, k)
            BY DEF Hidden
          <6>1. u # t /\ work[u][e] # "none" /\ n > seen[u][e] + Gave(u, e) /\ Hides(u, e, n)
            BY <2>2
          <6>2. CASE u = h
            <7>1. n > k
              BY <5>1, <6>1, <6>2
            <7>2. n \in (k + 1)..MaxAttempts
              BY <5>2, <7>1, LimitsAssumption
            <7>. QED BY <6>2, <7>2 DEF Block
          <6>3. CASE u # h
            BY <6>1, <6>3 DEF Block, Hidden
          <6>. QED BY <6>2, <6>3
        <5>. HIDE DEF k
        <5>4. IsFiniteSet(Block(h, k)) /\ Cardinality(Block(h, k)) = MaxAttempts - k
          BY <5>2, BlockSize
        <5>. DEFINE G == Block(h, k)
        <5>. HIDE DEF B, G
        <5>5. C \in Nat /\ D \in Nat /\ D <= C - Cardinality(B) + Cardinality(G)
          <6>1. Hidden(e, Nobody)' \subseteq (Hidden(e, h) \ B) \cup G /\ IsFiniteSet(G)
            BY <5>3, <5>4 DEF G
          <6>. QED BY <3>0, <4>1, <6>1, Exchange
        <5>6. Cardinality(G) = MaxAttempts - k
          BY <5>4 DEF G
        <5>. HIDE DEF C, D
        <5>. QED BY <2>1, <2>4, <4>2, <5>2, <5>5, <5>6
      <4>. QED BY <4>3, <4>4
    <3>. QED BY <3>1, <3>2
  <2>7. C \in Nat /\ D \in Nat
    <3>1. C \in Nat
      BY HiddenIsFinite
    <3>2. \A A : IsFiniteSet(A) => Cardinality(A) \in Nat
      BY FS_CardinalityType
    <3>3. Hidden(e, Nobody)' \in SUBSET (Ticks \X (1..MaxAttempts))
      BY DEF Hidden
    <3>4. IsFiniteSet(Ticks \X (1..MaxAttempts))
      <4>1. IsFiniteSet(1..MaxAttempts)
        BY LimitsAssumption, FS_Interval
      <4>. QED BY <4>1, TicksAssumption, FS_Product
    <3>5. IsFiniteSet(Hidden(e, Nobody)')
      BY <3>3, <3>4, FS_Subset
    <3>. QED BY <3>1, <3>2, <3>5
  <2>. HIDE DEF s, C, D, P
  <2>8. effects[e] + D <= (s + 1) + faults + P + 0
    BY <1>3, <2>1, <2>4, <2>5, <2>6, <2>7
  <2>9. Balanced(e, Nobody, 0)'
    BY <1>2, <1>5, <2>1, <2>8 DEF Balanced, D, P
  <2>10. Speaks(e, Nobody)' /\ Uncounted(e, Nobody, 0)'
    BY <1>2, <1>5 DEF Speaks, Uncounted
  <2>. QED BY <2>9, <2>10 DEF Account
<1>. QED BY <1>4, <1>5

-----------------------------------------------------------------------------
LEMMA AccountInit ==
  ASSUME RelayInit, NEW e \in Rows
  PROVE  Account(e)
<1>1. RelayTypeOK
  BY CoreInit DEF CoreInv
<1>2. Hidden(e, Nobody) = {}
  BY DEF Hidden, Hides, Waiting, RelayInit, NoWork
<1>3. Balanced(e, Nobody, 0)
  <2>1. Cardinality(Hidden(e, Nobody)) = 0
    BY <1>2, FS_EmptySet
  <2>2. effects[e] = 0 /\ attempts[e] = 0 /\ faults = 0 /\ slow[e] = 0
    BY DEF RelayInit
  <2>3. MaxAttempts * slow[e] \in Nat
    BY <2>2, LimitsAssumption
  <2>. QED BY <2>1, <2>2, <2>3 DEF Balanced
<1>4. Speaks(e, Nobody) /\ Uncounted(e, Nobody, 0)
  BY DEF Speaks, Uncounted
<1>. QED BY <1>3, <1>4 DEF Account

LEMMA RelayStep ==
  ASSUME RelayInv, RelayNext
  PROVE  RelayInv'
<1>1. CoreInv' /\ ClaimInv' /\ Delivered'
  BY RelayStepCore, RelayStepClaims, RelayStepDelivered DEF RelayInv, CoreInv
<1>2. ASSUME NEW e \in Rows
      PROVE  Account(e)'
  <2>1. RelayTypeOK /\ RelayTypeOK' /\ LoopInv /\ Account(e)
    BY <1>1 DEF RelayInv, CoreInv
  <2>2. CASE \E f \in Rows : CreateRow(f) \/ ClaimAges(f)
    BY <2>1, <2>2, AccountOfTheRow
  <2>3. CASE \E t \in Ticks :
               Reap(t) \/ ReadCandidates(t) \/ Claim(t) \/ Reread(t) \/ TickEnds(t)
    BY <2>1, <2>3, AccountOfTheLoop
  <2>4. CASE \E t \in Ticks, f \in Rows : Deliver(t, f) \/ DeliverFails(t, f)
    BY <2>1, <2>4, AccountOfAnEffect
  <2>5. CASE \E t \in Ticks, f \in Rows : MarkProcessed(t, f) \/ MarkThrows(t, f)
    BY <2>1, <2>5, AccountOfAClosing
  <2>6. CASE \E t \in Ticks : Crash(t)
    BY <2>1, <2>6, AccountOfAClosing
  <2>7. CASE \E t \in Ticks, f \in Rows : MarkFailed(t, f)
    BY <2>1, <2>7, AccountOfAFailure
  <2>. QED BY <2>2, <2>3, <2>4, <2>5, <2>6, <2>7 DEF RelayNext, TickStep
<1>. QED BY <1>1, <1>2 DEF RelayInv

LEMMA RelayStutter ==
  ASSUME RelayInv, UNCHANGED relayVars
  PROVE  RelayInv'
<1>. USE DEF relayVars, rowVars
<1>1. CoreInv'
  BY CoreUntouched DEF RelayInv, CoreInv, RelayTypeOK
<1>2. ClaimInv' /\ Delivered'
  BY DEF RelayInv, ClaimInv, Held, Busy, Delivered, DoneWasDelivered, DeliveredWhenProcessed
<1>3. ASSUME NEW e \in Rows
      PROVE  Account(e)'
  <2>1. RowSame(e) /\ TicksSame(e)
    BY DEF RowSame, TicksSame, Waiting
  <2>2. RelayTypeOK /\ RelayTypeOK' /\ Account(e)
    BY <1>1 DEF RelayInv, CoreInv
  <2>3. faults <= faults'
    BY <2>2, LimitsAssumption DEF RelayTypeOK
  <2>. QED BY <2>1, <2>2, <2>3, QuietRow
<1>. QED BY <1>1, <1>2, <1>3 DEF RelayInv

LEMMA RelayInductive == RelaySpec => []RelayInv
<1>1. RelayInit => RelayInv
  <2>. SUFFICES ASSUME RelayInit PROVE RelayInv
    OBVIOUS
  <2>1. ClaimInv /\ Delivered
    BY DEF RelayInit, ClaimInv, Held, Busy, Delivered, DoneWasDelivered,
           DeliveredWhenProcessed, NoWork
  <2>. QED BY <2>1, CoreInit, AccountInit DEF RelayInv
<1>2. RelayInv /\ [RelayNext]_relayVars => RelayInv'
  BY RelayStep, RelayStutter
<1>. QED BY <1>1, <1>2, PTL DEF RelaySpec

-----------------------------------------------------------------------------
(* What the relay promises, for any number of processes, rows, attempts,   *)
(* faults and slow ticks.                                                  *)

\* The columns and the loops keep their types, with claims that age under a tick.
THEOREM RelayTypeCorrect == RelaySpec => []RelayTypeOK
<1>1. RelayInv => RelayTypeOK
  BY DEF RelayInv, CoreInv
<1>. QED BY <1>1, RelayInductive, PTL

\* "So we only ever process rows this tick itself claimed" (outbox-relay.ts:60): of
\* the processes that compete for a row one works on it, until its claim ages
\* under a tick that is still at work on it.
THEOREM TicksWorkOnTheirOwnRows == RelaySpec => []OnlyOwnClaims
<1>1. RelayInv => OnlyOwnClaims
  BY DEF RelayInv, ClaimInv, Held, OnlyOwnClaims
<1>. QED BY <1>1, RelayInductive, PTL

\* At least once (relayOutbox marks a row after its effect), slow ticks or not.
THEOREM ProcessedRowsWereDelivered == RelaySpec => []DeliveredWhenProcessed
<1>1. RelayInv => DeliveredWhenProcessed
  BY DEF RelayInv, Delivered
<1>. QED BY <1>1, RelayInductive, PTL

\* Each effect beyond the first is an attempt written on the row, a fault, or one
\* of the MaxAttempts that a slow claim may lose.
THEOREM RepetitionsAreCounted == RelaySpec => []RepeatsAreCounted
<1>1. ASSUME RelayInv
      PROVE  RepeatsAreCounted
  <2>. SUFFICES ASSUME NEW e \in Rows
                PROVE  effects[e] <= attempts[e] + faults + MaxAttempts * slow[e] + 1
    BY DEF RepeatsAreCounted
  <2>1. PICK h \in Ticks \cup {Nobody}, x \in {0, 1} : Balanced(e, h, x)
    BY <1>1 DEF RelayInv, Account
  <2>. DEFINE C == Cardinality(Hidden(e, h))
              P == MaxAttempts * slow[e]
  <2>2. C \in Nat
    BY HiddenIsFinite
  <2>3. effects[e] \in Nat /\ attempts[e] \in Nat /\ faults \in Nat /\ P \in Nat
    BY <1>1, LimitsAssumption DEF RelayInv, CoreInv, RelayTypeOK
  <2>4. effects[e] + C <= attempts[e] + faults + P + x
    BY <2>1 DEF Balanced
  <2>5. x \in Nat /\ x <= 1
    OBVIOUS
  <2>. HIDE DEF C, P
  <2>6. effects[e] <= attempts[e] + faults + P + 1
    BY <2>2, <2>3, <2>4, <2>5
  <2>. QED BY <2>6 DEF P
<1>. QED BY <1>1, RelayInductive, PTL

\* A closed row that no tick has in hand is left alone by all of them.
LEMMA ClosedStays ==
  ASSUME RelayTypeOK, RelayNext, NEW e \in Rows, status[e] \in {"processed", "failed"},
         \A t \in Ticks : work[t][e] = "none"
  PROVE  /\ status'[e] = status[e] /\ effects'[e] = effects[e]
         /\ \A t \in Ticks : work'[t][e] = "none"
<1>. DEFINE Left == /\ status'[e] = status[e] /\ effects'[e] = effects[e]
                    /\ \A t \in Ticks : work'[t][e] = "none"
<1>. USE DEF RelayTypeOK, rowVars
<1>1. ASSUME NEW f \in Rows, CreateRow(f) \/ ClaimAges(f)
      PROVE  Left
  BY <1>1 DEF CreateRow, ClaimAges
<1>2. ASSUME NEW t \in Ticks, Reap(t) \/ Claim(t)
      PROVE  Left
  BY <1>2 DEF Reap, Abandoned, Claim, Free
<1>3. ASSUME NEW t \in Ticks, ReadCandidates(t) \/ Reread(t) \/ TickEnds(t) \/ Crash(t)
      PROVE  Left
  BY <1>3 DEF ReadCandidates, Reread, Mine, TickEnds, Crash, NoWork
<1>4. ASSUME NEW t \in Ticks, NEW f \in Rows,
             \/ Deliver(t, f) \/ DeliverFails(t, f)
             \/ MarkProcessed(t, f) \/ MarkThrows(t, f) \/ MarkFailed(t, f)
      PROVE  Left
  <2>1. e # f
    BY <1>4 DEF Deliver, DeliverFails, MarkProcessed, MarkThrows, MarkFailed, Turn
  <2>2. effects'[e] = effects[e]
    <3>1. effects' = effects \/ effects' = [effects EXCEPT ![f] = @ + 1]
      BY <1>4 DEF Deliver, DeliverFails, MarkProcessed, MarkThrows, MarkFailed
    <3>. QED BY <2>1, <3>1
  <2>3. status'[e] = status[e]
    BY <1>4, <2>1 DEF Deliver, DeliverFails, MarkProcessed, MarkThrows, MarkFailed
  <2>4. \E s : work' = [work EXCEPT ![t][f] = s]
    BY <1>4 DEF Deliver, DeliverFails, MarkProcessed, MarkThrows, MarkFailed, Release, WorkGoes
  <2>. QED BY <2>1, <2>2, <2>3, <2>4
<1>. HIDE DEF Left
<1>5. Left
  BY <1>1, <1>2, <1>3, <1>4 DEF RelayNext, TickStep
<1>. QED BY <1>5 DEF Left

\* A closed row is taken back by no tick that comes late, unless a claim of it has
\* aged under its tick: the updates of the loop go by id alone.
THEOREM ClosedRowsStayClosed == RelaySpec => ClosedStaysClosed
<1>. DEFINE Stays ==
       \A e \in Rows : status[e] \in {"processed", "failed"} /\ slow[e] = 0
                         => status'[e] = status[e]
<1>1. ASSUME RelayInv, RelayNext
      PROVE  Stays
  <2>. SUFFICES ASSUME NEW e \in Rows, status[e] \in {"processed", "failed"}, slow[e] = 0
                PROVE  status'[e] = status[e]
    OBVIOUS
  <2>1. RelayTypeOK /\ \A t \in Ticks : work[t][e] = "none"
    BY <1>1 DEF RelayInv, CoreInv, ClaimInv, Held
  <2>. QED BY <1>1, <2>1, ClosedStays
<1>2. RelayInv /\ [RelayNext]_relayVars => [Stays]_relayVars
  BY <1>1
<1>. QED BY <1>2, RelayInductive, PTL DEF RelaySpec, ClosedStaysClosed

-----------------------------------------------------------------------------
(* Payouts and refunds.                                                    *)

\* A tick is inside the branch of a row only while the row is its to do.
StageInTurn ==
  \A t \in Ticks, e \in Rows : stage[t][e] # "start" => work[t][e] = "todo"

\* What is about to be recorded, and what is on record, was made.
RecordedWasMade ==
  /\ \A t \in Ticks, e \in Rows : stage[t][e] = "recording" => transferred[PaymentOf[e]]
  /\ \A p \in Payments : transferId[p] => transferred[p]

\* The row has nothing left to pay.
Satisfied(e) ==
  \/ transferred[PaymentOf[e]] /\ transferId[PaymentOf[e]]
  \/ PaymentOf[e] \in chargeless \/ e \in held

DoneWasSatisfied == \A t \in Ticks, e \in Rows : work[t][e] = "done" => Satisfied(e)

ChargelessIsNotPaid == \A p \in chargeless : ~transferred[p]

\* Nothing pays p any more.
Shut(p) ==
  /\ ~transferred[p]
  /\ \A e \in Rows : PaymentOf[e] = p => status[e] \in {"processed", "failed"} /\ ~InHand(e)

\* A refund that had every payout in reach has shut the payment.
KilledAreShut ==
  \A e \in killed : raced[PaymentOf[e]] \/ (Shut(PaymentOf[e]) /\ status[e] = "processed")

PayoutInv ==
  /\ StageInTurn /\ RecordedWasMade /\ DoneWasSatisfied /\ ChargelessIsNotPaid
  /\ ProcessedMeansPaid /\ KilledAreShut /\ MadeIsRecorded

\* The charge of p may be returned: whoever ends up with the money is known.
Covered(p) == Shut(p) \/ reversed[p] \/ unreturned[p] \/ raced[p]

RefundInv ==
  /\ \A a \in Admins : refunding[a] = "returning" => Covered(target[a])
  /\ \A p \in Payments : returned[p] => Covered(p)

SettlementInv == SettlementTypeOK /\ CoreInv /\ PayoutInv /\ RefundInv

-----------------------------------------------------------------------------
LEMMA SettlementInitInv == SettlementInit => SettlementInv
<1>. SUFFICES ASSUME SettlementInit PROVE SettlementInv
  OBVIOUS
<1>. USE DEF SettlementInit, RelayInit
<1>1. CoreInv
  BY CoreInit
<1>2. SettlementTypeOK
  BY <1>1, MaxAgedAssumption DEF SettlementTypeOK, CoreInv, Stage, Refunding, Never
<1>3. PayoutInv
  BY PaymentOfAssumption
     DEF PayoutInv, StageInTurn, RecordedWasMade, DoneWasSatisfied, ChargelessIsNotPaid,
         ProcessedMeansPaid, KilledAreShut, MadeIsRecorded, Never, NoWork
<1>4. RefundInv
  BY DEF RefundInv, Never
<1>. QED BY <1>1, <1>2, <1>3, <1>4 DEF SettlementInv

\* The steps of the store, of an admin and of Stripe's webhook that leave the relay
\* alone.
BesideTheRelay ==
  \/ Connect
  \/ \E a \in Admins : \/ TakeClaim(a) \/ ReverseTransfer(a) \/ ReturnCharge(a)
                       \/ RefundThrows(a) \/ ReleaseClaim(a) \/ AdminDies(a)
                       \/ \E p \in Payments : AskRefund(a, p)
  \/ \E p \in Payments : RefundConfirmed(p) \/ RefundClaimAges(p)

LEMMA StepsOfSettlement ==
  SettlementNext <=> \/ RelayGoesOn \/ BesideTheRelay
                     \/ \E t \in Ticks : BranchStep(t) \/ TickDies(t)
                     \/ \E a \in Admins : KillPayout(a)
BY DEF SettlementNext, BesideTheRelay, AdminStep

payoutVars == <<chargeless, transferId, stage, transferred, killed, held, raced>>

LEMMA BesideLeavesTheRelay ==
  ASSUME SettlementTypeOK, BesideTheRelay
  PROVE  /\ UNCHANGED <<rowVars, effects, phase, ids, work, seen, slow>>
         /\ UNCHANGED payoutVars
         /\ faults' \in 0..MaxFaults
<1>. USE DEF SettlementTypeOK, RelayTypeOK, relayVars, rowVars, historyVars, stripeVars,
             adminVars, dbVars, storeVars, payoutVars
<1>1. ASSUME NEW a \in Admins,
             TakeClaim(a) \/ ReverseTransfer(a) \/ ReturnCharge(a) \/ ReleaseClaim(a)
      PROVE  UNCHANGED relayVars /\ UNCHANGED payoutVars
  BY <1>1 DEF TakeClaim, ReverseTransfer, ReturnCharge, ReleaseClaim
<1>2. ASSUME NEW a \in Admins,
             RefundThrows(a) \/ \E p \in Payments : AskRefund(a, p)
      PROVE  UNCHANGED relayVars /\ UNCHANGED payoutVars
  BY <1>2 DEF RefundThrows, AskRefund
<1>3. ASSUME NEW a \in Admins, AdminDies(a)
      PROVE  /\ UNCHANGED <<rowVars, effects, phase, ids, work, seen, slow>>
             /\ UNCHANGED payoutVars
             /\ faults' \in 0..MaxFaults
  BY <1>3, LimitsAssumption DEF AdminDies
<1>4. ASSUME NEW p \in Payments, RefundConfirmed(p) \/ RefundClaimAges(p)
      PROVE  UNCHANGED relayVars /\ UNCHANGED payoutVars
  BY <1>4 DEF RefundConfirmed, RefundClaimAges
<1>5. ASSUME Connect
      PROVE  UNCHANGED relayVars /\ UNCHANGED payoutVars
  BY <1>5 DEF Connect
<1>. QED BY <1>1, <1>2, <1>3, <1>4, <1>5 DEF BesideTheRelay

\* What the relay does around the branch and inside it are steps of the relay.
LEMMA RelayPart ==
  ASSUME \/ RelayGoesOn
         \/ \E t \in Ticks : BranchStep(t) \/ TickDies(t)
  PROVE  RelayNext \/ UNCHANGED relayVars
<1>1. ASSUME RelayGoesOn PROVE RelayNext
  BY <1>1 DEF RelayGoesOn, AroundBranch, RelayNext, TickStep
<1>2. ASSUME NEW t \in Ticks, NEW e \in Rows,
             PayoutReads(t, e) \/ PayoutMade(t, e)
      PROVE  UNCHANGED relayVars
  BY <1>2 DEF PayoutReads, PayoutMade
<1>3. ASSUME NEW t \in Ticks, NEW e \in Rows,
             \/ PayoutSkipped(t, e) \/ PayoutHeld(t, e) \/ PayoutVoid(t, e)
             \/ PayoutRecorded(t, e) \/ PayoutFails(t, e)
      PROVE  RelayNext
  BY <1>3 DEF PayoutSkipped, PayoutHeld, PayoutVoid, PayoutRecorded, PayoutFails, RelayNext,
              TickStep
<1>4. ASSUME NEW t \in Ticks, TickDies(t) PROVE RelayNext
  BY <1>4 DEF TickDies, RelayNext
<1>. QED BY <1>1, <1>2, <1>3, <1>4 DEF BranchStep

-----------------------------------------------------------------------------
LEMMA SettlementStepCore ==
  ASSUME SettlementInv, SettlementNext
  PROVE  CoreInv'
<1>. USE DEF SettlementInv
<1>0. ASSUME UNCHANGED relayVars PROVE CoreInv'
  BY <1>0, CoreUntouched DEF relayVars, CoreInv, RelayTypeOK
<1>1. ASSUME \/ RelayGoesOn
             \/ \E t \in Ticks : BranchStep(t) \/ TickDies(t)
      PROVE  CoreInv'
  BY <1>0, <1>1, RelayPart, RelayStepCore
<1>2. ASSUME BesideTheRelay PROVE CoreInv'
  BY <1>2, BesideLeavesTheRelay, CoreUntouched
<1>3. ASSUME NEW a \in Admins, KillPayout(a)
      PROVE  CoreInv'
  <2>. USE DEF CoreInv, RelayTypeOK
  <2>1. /\ \A e \in Rows : \/ status'[e] = status[e]
                           \/ status[e] = "pending" /\ status'[e] = "processed"
        /\ status' \in [Rows -> Status]
        /\ UNCHANGED <<claimedBy, stale, attempts, effects, phase, ids, work, seen,
                       faults, slow>>
    BY <1>3 DEF KillPayout, Killable, Status
  <2>2. RelayTypeOK'
    BY <2>1
  <2>3. LoopInv'
    BY <2>1 DEF LoopInv, WorkInLoop, CandidatesNotHeld, StaleIsHeld
  <2>4. AttemptsLeft'
    BY <2>1 DEF AttemptsLeft
  <2>. QED BY <2>2, <2>3, <2>4
<1>. QED BY <1>1, <1>2, <1>3, StepsOfSettlement

LEMMA SettlementStepTypes ==
  ASSUME SettlementInv, SettlementNext
  PROVE  SettlementTypeOK'
<1>. USE PaymentOfAssumption, MaxAgedAssumption
     DEF SettlementTypeOK, Stage, Refunding, storeVars, dbVars, adminVars, stripeVars, historyVars
<1>0. RelayTypeOK' /\ SettlementTypeOK
  BY SettlementStepCore DEF CoreInv, SettlementInv
<1>1. ASSUME RelayGoesOn PROVE SettlementTypeOK'
  BY <1>0, <1>1 DEF RelayGoesOn
<1>2. ASSUME NEW t \in Ticks, NEW e \in Rows,
             \/ PayoutReads(t, e) \/ PayoutSkipped(t, e) \/ PayoutHeld(t, e)
             \/ PayoutVoid(t, e) \/ PayoutMade(t, e) \/ PayoutRecorded(t, e)
             \/ PayoutFails(t, e)
      PROVE  SettlementTypeOK'
  <2>1. PaymentOf[e] \in Payments
    OBVIOUS
  <2>2. CASE PayoutReads(t, e)
    BY <1>0, <2>2 DEF PayoutReads, StageGoes
  <2>3. CASE PayoutSkipped(t, e)
    BY <1>0, <2>3 DEF PayoutSkipped
  <2>4. CASE PayoutMade(t, e)
    BY <1>0, <2>1, <2>4 DEF PayoutMade, StageGoes, CreateTransfer
  <2>5. CASE PayoutRecorded(t, e)
    BY <1>0, <2>1, <2>5 DEF PayoutRecorded, StageGoes
  <2>6. CASE PayoutFails(t, e)
    BY <1>0, <2>1, <2>6 DEF PayoutFails, StageGoes, CreateTransfer
  <2>7. CASE PayoutHeld(t, e)
    BY <1>0, <2>7 DEF PayoutHeld
  <2>8. CASE PayoutVoid(t, e)
    BY <1>0, <2>8 DEF PayoutVoid, StageGoes
  <2>. QED BY <1>2, <2>2, <2>3, <2>4, <2>5, <2>6, <2>7, <2>8
<1>3. ASSUME NEW t \in Ticks, TickDies(t) PROVE SettlementTypeOK'
  BY <1>0, <1>3 DEF TickDies
<1>4. ASSUME NEW a \in Admins, NEW p \in Payments, AskRefund(a, p)
      PROVE  SettlementTypeOK'
  BY <1>0, <1>4 DEF AskRefund, AdminGoes
<1>5. ASSUME NEW a \in Admins, TakeClaim(a) PROVE SettlementTypeOK'
  BY <1>0, <1>5 DEF TakeClaim, SetStatus, AdminGoes
<1>6. ASSUME NEW a \in Admins, ReleaseClaim(a) PROVE SettlementTypeOK'
  BY <1>0, <1>6 DEF ReleaseClaim, SetStatus, AdminGoes
<1>7. ASSUME NEW a \in Admins, KillPayout(a) PROVE SettlementTypeOK'
  <2>1. raced' \in [Payments -> BOOLEAN]
    BY <1>0, <1>7 DEF KillPayout, OutOfReach
  <2>2. killed' \in SUBSET Rows /\ refunding' \in [Admins -> Refunding]
    BY <1>0, <1>7 DEF KillPayout, AdminGoes
  <2>. QED BY <1>0, <1>7, <2>1, <2>2 DEF KillPayout
<1>8. ASSUME NEW a \in Admins, ReverseTransfer(a) PROVE SettlementTypeOK'
  BY <1>0, <1>8 DEF ReverseTransfer, AdminGoes
<1>9. ASSUME NEW a \in Admins, ReturnCharge(a) PROVE SettlementTypeOK'
  BY <1>0, <1>9 DEF ReturnCharge, AdminGoes
<1>10. ASSUME NEW a \in Admins, RefundThrows(a) PROVE SettlementTypeOK'
  BY <1>0, <1>10 DEF RefundThrows, AdminGoes
<1>11. ASSUME NEW a \in Admins, AdminDies(a) PROVE SettlementTypeOK'
  BY <1>0, <1>11 DEF AdminDies, AdminGoes
<1>12. ASSUME NEW p \in Payments, RefundConfirmed(p) PROVE SettlementTypeOK'
  BY <1>0, <1>12 DEF RefundConfirmed, SetStatus
<1>13. ASSUME NEW p \in Payments, RefundClaimAges(p) PROVE SettlementTypeOK'
  BY <1>0, <1>13 DEF RefundClaimAges
<1>14. ASSUME Connect PROVE SettlementTypeOK'
  BY <1>0, <1>14 DEF Connect
<1>. QED BY <1>1, <1>2, <1>3, <1>4, <1>5, <1>6, <1>7, <1>8, <1>9, <1>10, <1>11,
            <1>12, <1>13, <1>14
         DEF SettlementNext, BranchStep, AdminStep

-----------------------------------------------------------------------------
\* What the relay does around the branch: it closes a row only when the row is
\* done, finishes none, and takes no row away from a tick inside the branch.
LEMMA AroundTheBranch ==
  ASSUME RelayTypeOK, CoreInv, StageInTurn, RelayGoesOn
  PROVE  /\ \A t \in Ticks, e \in Rows : work'[t][e] = "done" => work[t][e] = "done"
         /\ \A t \in Ticks, e \in Rows : stage[t][e] # "start" => work'[t][e] = "todo"
         /\ \A e \in Rows : status'[e] = "processed" =>
              status[e] = "processed" \/ \E t \in Ticks : work[t][e] = "done"
<1>. DEFINE Finishes == \A t \in Ticks, e \in Rows : work'[t][e] = "done" => work[t][e] = "done"
            Leaves == \A t \in Ticks, e \in Rows : stage[t][e] # "start" => work'[t][e] = "todo"
            Closes == \A e \in Rows : status'[e] = "processed" =>
                        status[e] = "processed" \/ \E t \in Ticks : work[t][e] = "done"
<1>. USE DEF RelayTypeOK, StageInTurn, rowVars
<1>1. ASSUME NEW t \in Ticks, Reap(t) \/ Claim(t)
      PROVE  Finishes /\ Leaves /\ Closes
  <2>1. /\ UNCHANGED work
        /\ \A e \in Rows : status'[e] = status[e] \/ status'[e] \in {"pending", "processing"}
    <3>1. CASE Reap(t)
      BY <3>1 DEF Reap
    <3>2. CASE Claim(t)
      BY <3>2 DEF Claim
    <3>. QED BY <1>1, <3>1, <3>2
  <2>. QED BY <2>1
<1>2. ASSUME NEW t \in Ticks, ReadCandidates(t) \/ TickEnds(t)
      PROVE  Finishes /\ Leaves /\ Closes
  BY <1>2 DEF ReadCandidates, TickEnds
<1>3. ASSUME NEW t \in Ticks, Reread(t)
      PROVE  Finishes /\ Leaves /\ Closes
  <2>1. \A e \in Rows : work[t][e] = "none"
    BY <1>3 DEF Reread, CoreInv, LoopInv, WorkInLoop
  <2>2. /\ \A e \in Rows : work'[t][e] \in {"todo", "none"}
        /\ \A u \in Ticks : u # t => work'[u] = work[u]
        /\ UNCHANGED status
    BY <1>3 DEF Reread
  <2>3. Finishes
    BY <2>2
  <2>4. Leaves
    <3>. SUFFICES ASSUME NEW u \in Ticks, NEW e \in Rows, stage[u][e] # "start"
                  PROVE  work'[u][e] = "todo"
      OBVIOUS
    <3>1. work[u][e] = "todo"
      OBVIOUS
    <3>2. u # t
      BY <2>1, <3>1
    <3>. QED BY <2>2, <3>1, <3>2
  <2>. QED BY <2>2, <2>3, <2>4
<1>4. ASSUME NEW t \in Ticks, NEW e \in Rows, MarkProcessed(t, e)
      PROVE  Finishes /\ Leaves /\ Closes
  <2>1. /\ work[t][e] = "done" /\ work' = [work EXCEPT ![t][e] = "none"]
        /\ status' = [status EXCEPT ![e] = "processed"]
    BY <1>4 DEF MarkProcessed, Release, WorkGoes
  <2>. QED BY <2>1
<1>5. ASSUME NEW t \in Ticks, NEW e \in Rows, MarkThrows(t, e)
      PROVE  Finishes /\ Leaves /\ Closes
  BY <1>5 DEF MarkThrows, WorkGoes
<1>6. ASSUME NEW t \in Ticks, NEW e \in Rows, MarkFailed(t, e)
      PROVE  Finishes /\ Leaves /\ Closes
  <2>1. /\ work[t][e] = "failing" /\ work' = [work EXCEPT ![t][e] = "none"]
        /\ \A f \in Rows : status'[f] = status[f] \/ status'[f] # "processed"
    BY <1>6 DEF MarkFailed, Release, WorkGoes
  <2>. QED BY <2>1
<1>7. ASSUME NEW e \in Rows, CreateRow(e) \/ ClaimAges(e)
      PROVE  Finishes /\ Leaves /\ Closes
  BY <1>7 DEF CreateRow, ClaimAges
<1>8. Finishes /\ Leaves /\ Closes
  <2>. HIDE DEF Finishes, Leaves, Closes
  <2>. QED BY <1>1, <1>2, <1>3, <1>4, <1>5, <1>6, <1>7 DEF RelayGoesOn, AroundBranch
<1>. QED BY <1>8

-----------------------------------------------------------------------------
\* What was taken back, logged or raced stays so.
LEMMA MarksStay ==
  ASSUME SettlementTypeOK, SettlementNext, NEW p \in Payments
  PROVE  /\ reversed[p] => reversed'[p]
         /\ unreturned[p] => unreturned'[p]
         /\ raced[p] => raced'[p]
<1>. USE DEF SettlementTypeOK, stripeVars, historyVars
<1>1. ASSUME RelayGoesOn \/ Connect PROVE UNCHANGED <<reversed, unreturned, raced>>
  BY <1>1 DEF RelayGoesOn, Connect
<1>2. ASSUME NEW t \in Ticks, BranchStep(t) \/ TickDies(t)
      PROVE  UNCHANGED <<reversed, unreturned, raced>>
  BY <1>2 DEF BranchStep, PayoutReads, PayoutSkipped, PayoutHeld, PayoutVoid, PayoutMade,
              PayoutRecorded, PayoutFails, TickDies
<1>3. ASSUME NEW a \in Admins, KillPayout(a)
      PROVE  UNCHANGED <<reversed, unreturned>> /\ (raced[p] => raced'[p])
  BY <1>3 DEF KillPayout
<1>4. ASSUME NEW a \in Admins, ReverseTransfer(a)
      PROVE  /\ reversed[p] => reversed'[p]
             /\ unreturned[p] => unreturned'[p]
             /\ UNCHANGED raced
  BY <1>4 DEF ReverseTransfer
<1>5. ASSUME NEW a \in Admins,
             \/ TakeClaim(a) \/ ReturnCharge(a) \/ RefundThrows(a) \/ ReleaseClaim(a)
             \/ AdminDies(a) \/ \E q \in Payments : AskRefund(a, q)
      PROVE  UNCHANGED <<reversed, unreturned, raced>>
  BY <1>5 DEF TakeClaim, ReturnCharge, RefundThrows, ReleaseClaim, AdminDies, AskRefund
<1>6. ASSUME NEW q \in Payments, RefundConfirmed(q) \/ RefundClaimAges(q)
      PROVE  UNCHANGED <<reversed, unreturned, raced>>
  BY <1>6 DEF RefundConfirmed, RefundClaimAges
<1>. QED BY <1>1, <1>2, <1>3, <1>4, <1>5, <1>6 DEF SettlementNext, AdminStep

\* A payment is paid out only from a row that a tick has in hand.
LEMMA ShutStays ==
  ASSUME SettlementInv, SettlementNext, NEW p \in Payments, Shut(p)
  PROVE  Shut(p)'
<1>. USE DEF SettlementInv
<1>1. ASSUME NEW e \in Rows, PaymentOf[e] = p
      PROVE  status'[e] = status[e] /\ \A t \in Ticks : work'[t][e] = "none"
  <2>1. status[e] \in {"processed", "failed"} /\ \A t \in Ticks : work[t][e] = "none"
    BY <1>1 DEF Shut, InHand
  <2>2. CASE RelayGoesOn \/ \E t \in Ticks : BranchStep(t) \/ TickDies(t)
    <3>1. RelayNext \/ UNCHANGED <<status, work>>
      BY <2>2, RelayPart DEF relayVars, rowVars
    <3>. QED BY <2>1, <3>1, ClosedStays DEF CoreInv
  <2>3. CASE BesideTheRelay
    BY <2>1, <2>3, BesideLeavesTheRelay DEF rowVars
  <2>4. CASE \E a \in Admins : KillPayout(a)
    BY <2>1, <2>4 DEF KillPayout, Killable
  <2>. QED BY <2>2, <2>3, <2>4, StepsOfSettlement
<1>2. ~transferred'[p]
  <2>1. ASSUME NEW t \in Ticks, NEW e \in Rows, stage[t][e] = "creating"
        PROVE  PaymentOf[e] # p
    BY <2>1 DEF PayoutInv, StageInTurn, Shut, InHand
  <2>2. ASSUME NEW t \in Ticks, NEW e \in Rows, PayoutMade(t, e) \/ PayoutFails(t, e)
        PROVE  transferred'[p] = transferred[p]
    <3>1. UNCHANGED transferred \/ (stage[t][e] = "creating" /\ CreateTransfer(PaymentOf[e]))
      BY <2>2 DEF PayoutMade, PayoutFails
    <3>. QED BY <2>1, <3>1 DEF CreateTransfer, SettlementTypeOK
  <2>3. ASSUME NEW t \in Ticks,
               \/ TickDies(t)
               \/ \E e \in Rows : \/ PayoutReads(t, e) \/ PayoutSkipped(t, e)
                                  \/ PayoutHeld(t, e) \/ PayoutVoid(t, e)
                                  \/ PayoutRecorded(t, e)
        PROVE  UNCHANGED transferred
    BY <2>3 DEF TickDies, PayoutReads, PayoutSkipped, PayoutHeld, PayoutVoid, PayoutRecorded,
                stripeVars
  <2>4. ASSUME RelayGoesOn PROVE UNCHANGED transferred
    BY <2>4 DEF RelayGoesOn, stripeVars
  <2>5. ASSUME BesideTheRelay PROVE UNCHANGED transferred
    BY <2>5, BesideLeavesTheRelay DEF payoutVars
  <2>6. ASSUME NEW a \in Admins, KillPayout(a) PROVE UNCHANGED transferred
    BY <2>6 DEF KillPayout, stripeVars
  <2>7. transferred'[p] = transferred[p]
    BY <2>2, <2>3, <2>4, <2>5, <2>6, StepsOfSettlement DEF BranchStep
  <2>. QED BY <2>7 DEF Shut
<1>. QED BY <1>1, <1>2 DEF Shut, InHand

LEMMA CoveredStays ==
  ASSUME SettlementInv, SettlementNext, NEW p \in Payments, Covered(p)
  PROVE  Covered(p)'
BY ShutStays, MarksStay DEF Covered, SettlementInv

\* The refund that had every payout in reach has shut the payment.
LEMMA KillShuts ==
  ASSUME SettlementInv, NEW a \in Admins, KillPayout(a)
  PROVE  raced'[target[a]] \/ Shut(target[a])'
<1> DEFINE p == target[a]
<1>1. p \in Payments /\ target' = target
  BY DEF SettlementInv, SettlementTypeOK, KillPayout
<1>2. CASE OutOfReach(p)
  BY <1>1, <1>2 DEF KillPayout, SettlementInv, SettlementTypeOK
<1>3. CASE ~OutOfReach(p)
  <2>1. ~transferred[p] /\ transferred' = transferred /\ work' = work
    BY <1>1, <1>3 DEF OutOfReach, KillPayout, stripeVars, SettlementInv, SettlementTypeOK
  <2>2. ASSUME NEW e \in Rows, PaymentOf[e] = p
        PROVE  status'[e] \in {"processed", "failed"} /\ ~InHand(e)'
    <3>1. status[e] \in {"pending", "processed", "failed"} /\ ~InHand(e)
      BY <1>3, <2>2 DEF OutOfReach, SettlementInv, CoreInv, RelayTypeOK, Status
    <3>2. status' = [f \in Rows |-> IF PaymentOf[f] = p /\ Killable(f)
                                    THEN "processed" ELSE status[f]]
      BY DEF KillPayout
    <3>. QED BY <2>1, <2>2, <3>1, <3>2 DEF Killable, InHand
  <2>3. Shut(p)'
    BY <1>1, <2>1, <2>2 DEF Shut
  <2>. QED BY <1>1, <2>3 DEF Shut
<1>. QED BY <1>2, <1>3

LEMMA KillCovers ==
  ASSUME SettlementInv, NEW a \in Admins, KillPayout(a)
  PROVE  Covered(target[a])'
<1>1. target' = target
  BY DEF KillPayout
<1>. QED BY <1>1, KillShuts DEF Covered, Shut

\* Who is about to return a charge was about to before, has just closed its
\* rows, or has just tried to take the transfer back; and a charge is returned
\* by one who was about to.
LEMMA RefundProgress ==
  ASSUME SettlementInv, SettlementNext
  PROVE  /\ \A a \in Admins : refunding'[a] = "returning" =>
              \/ refunding[a] = "returning" /\ target'[a] = target[a]
              \/ KillPayout(a)
              \/ ReverseTransfer(a)
         /\ \A p \in Payments : returned'[p] =>
              returned[p] \/ \E a \in Admins : refunding[a] = "returning" /\ target[a] = p
<1> DEFINE Goes == \A a \in Admins : refunding'[a] = "returning" =>
                     \/ refunding[a] = "returning" /\ target'[a] = target[a]
                     \/ KillPayout(a)
                     \/ ReverseTransfer(a)
           Returns == \A p \in Payments : returned'[p] =>
                        returned[p] \/ \E a \in Admins : refunding[a] = "returning" /\ target[a] = p
<1>. USE DEF SettlementInv, SettlementTypeOK, adminVars, stripeVars
<1>1. ASSUME RelayGoesOn \/ Connect PROVE Goes /\ Returns
  BY <1>1 DEF RelayGoesOn, Connect
<1>2. ASSUME NEW t \in Ticks, BranchStep(t) \/ TickDies(t)
      PROVE  Goes /\ Returns
  <2>1. UNCHANGED <<refunding, target, returned>>
    BY <1>2 DEF BranchStep, PayoutReads, PayoutSkipped, PayoutHeld, PayoutVoid, PayoutMade,
                PayoutRecorded, PayoutFails, TickDies
  <2>. QED BY <2>1
<1>3. ASSUME NEW a \in Admins, KillPayout(a) PROVE Goes /\ Returns
  <2>1. /\ refunding' = [refunding EXCEPT ![a] = "returning"]
        /\ UNCHANGED <<target, returned>>
    BY <1>3 DEF KillPayout, AdminGoes
  <2>. QED BY <1>3, <2>1
<1>4. ASSUME NEW a \in Admins, ReverseTransfer(a) PROVE Goes /\ Returns
  BY <1>4 DEF ReverseTransfer, AdminGoes
<1>5. ASSUME NEW a \in Admins, ReturnCharge(a) PROVE Goes /\ Returns
  BY <1>5 DEF ReturnCharge, AdminGoes
<1>6. ASSUME NEW a \in Admins, RefundThrows(a) PROVE Goes /\ Returns
  BY <1>6 DEF RefundThrows, AdminGoes
<1>7. ASSUME NEW a \in Admins, TakeClaim(a) PROVE Goes /\ Returns
  BY <1>7 DEF TakeClaim, AdminGoes
<1>8. ASSUME NEW a \in Admins, ReleaseClaim(a) \/ AdminDies(a) PROVE Goes /\ Returns
  BY <1>8 DEF ReleaseClaim, AdminDies, AdminGoes
<1>9. ASSUME NEW a \in Admins, NEW p \in Payments, AskRefund(a, p)
      PROVE  Goes /\ Returns
  BY <1>9 DEF AskRefund, AdminGoes
<1>10. ASSUME NEW p \in Payments, RefundConfirmed(p) \/ RefundClaimAges(p)
      PROVE  Goes /\ Returns
  BY <1>10 DEF RefundConfirmed, RefundClaimAges
<1>11. Goes /\ Returns
  <2>. HIDE DEF Goes, Returns
  <2>. QED BY <1>1, <1>2, <1>3, <1>4, <1>5, <1>6, <1>7, <1>8, <1>9, <1>10
           DEF SettlementNext, AdminStep
<1>. QED BY <1>11

LEMMA SettlementStepRefund ==
  ASSUME SettlementInv, SettlementNext
  PROVE  RefundInv'
<1>. USE DEF RefundInv
<1>1. \A a \in Admins : target[a] \in Payments
  BY DEF SettlementInv, SettlementTypeOK
<1>2. ASSUME NEW a \in Admins, refunding'[a] = "returning"
      PROVE  Covered(target[a])' 
  <2>1. CASE refunding[a] = "returning" /\ target'[a] = target[a]
    <3>1. Covered(target[a])
      BY <2>1 DEF SettlementInv
    <3>. QED BY <1>1, <2>1, <3>1, CoveredStays DEF Covered, Shut
  <2>2. CASE KillPayout(a)
    BY <2>2, KillCovers
  <2>3. CASE ReverseTransfer(a)
    BY <1>1, <2>3 DEF ReverseTransfer, Covered, SettlementInv, SettlementTypeOK
  <2>. QED BY <1>2, <2>1, <2>2, <2>3, RefundProgress
<1>3. ASSUME NEW p \in Payments, returned'[p]
      PROVE  Covered(p)'
  <2>1. Covered(p)
    BY <1>3, RefundProgress DEF SettlementInv
  <2>. QED BY <2>1, CoveredStays
<1>. QED BY <1>2, <1>3

-----------------------------------------------------------------------------
\* The transfer of row e was made, or may have been: it is on record, or the row is
\* there to find it; a row that was closed meanwhile was paid, held or raced.
LEMMA MadeFromRow ==
  ASSUME SettlementInv, NEW t \in Ticks, NEW e \in Rows, stage[t][e] # "start",
         PaymentOf[e] \notin chargeless
  PROVE  \/ transferId[PaymentOf[e]] \/ raced[PaymentOf[e]]
         \/ status[e] # "processed" \/ e \in held
<1>1. InHand(e)
  BY DEF SettlementInv, PayoutInv, StageInTurn, InHand
<1>. QED BY <1>1, PaymentOfAssumption
         DEF SettlementInv, PayoutInv, KilledAreShut, Shut, ProcessedMeansPaid

\* Whoever pays, or may have paid, for row e leaves the row where it was.
LEMMA PayingKeepsRecords ==
  ASSUME SettlementInv, NEW t \in Ticks, NEW e \in Rows, stage[t][e] # "start",
         UNCHANGED <<status, chargeless, transferId, held, raced>>,
         transferred' = transferred \/ CreateTransfer(PaymentOf[e])
  PROVE  /\ \A p \in Payments : transferred[p] => transferred'[p]
         /\ MadeIsRecorded' /\ ChargelessIsNotPaid'
<1>. USE PaymentOfAssumption DEF SettlementInv, SettlementTypeOK, PayoutInv
<1>1. PaymentOf[e] \in Payments
  OBVIOUS
<1>2. CASE transferred' = transferred
  BY <1>2 DEF MadeIsRecorded, ChargelessIsNotPaid
<1>3. CASE CreateTransfer(PaymentOf[e])
  <2>1. /\ PaymentOf[e] \notin chargeless
        /\ transferred' = [transferred EXCEPT ![PaymentOf[e]] = TRUE]
    BY <1>3 DEF CreateTransfer
  <2>2. \/ transferId[PaymentOf[e]] \/ raced[PaymentOf[e]]
        \/ status[e] # "processed" \/ e \in held
    BY <2>1, MadeFromRow
  <2>3. MadeIsRecorded'
    <3>. SUFFICES ASSUME NEW p \in Payments, transferred'[p], ~transferId'[p]
                  PROVE  \/ raced'[p]
                         \/ \E f \in Rows : PaymentOf[f] = p /\ (status'[f] # "processed" \/ f \in held')
      BY DEF MadeIsRecorded
    <3>1. CASE p = PaymentOf[e]
      BY <2>2, <3>1
    <3>2. CASE p # PaymentOf[e]
      BY <1>1, <2>1, <3>2 DEF MadeIsRecorded
    <3>. QED BY <3>1, <3>2
  <2>4. ChargelessIsNotPaid' /\ \A p \in Payments : transferred[p] => transferred'[p]
    BY <1>1, <2>1 DEF ChargelessIsNotPaid
  <2>. QED BY <2>3, <2>4
<1>. QED BY <1>2, <1>3

LEMMA KilledStayShut ==
  ASSUME SettlementInv, SettlementNext
  PROVE  \A e \in killed :
           \/ raced'[PaymentOf[e]]
           \/ Shut(PaymentOf[e])' /\ status'[e] = "processed"
<1>. SUFFICES ASSUME NEW e \in killed
              PROVE  \/ raced'[PaymentOf[e]]
                     \/ Shut(PaymentOf[e])' /\ status'[e] = "processed"
  OBVIOUS
<1>1. e \in Rows /\ PaymentOf[e] \in Payments
  BY PaymentOfAssumption DEF SettlementInv, SettlementTypeOK
<1>2. CASE raced[PaymentOf[e]]
  BY <1>1, <1>2, MarksStay DEF SettlementInv
<1>3. CASE Shut(PaymentOf[e]) /\ status[e] = "processed"
  <2>1. Shut(PaymentOf[e])'
    BY <1>1, <1>3, ShutStays
  <2>2. \A t \in Ticks : work[t][e] = "none"
    BY <1>1, <1>3 DEF Shut, InHand
  <2>3. CASE RelayGoesOn \/ \E t \in Ticks : BranchStep(t) \/ TickDies(t)
    <3>1. RelayNext \/ UNCHANGED status
      BY <2>3, RelayPart DEF relayVars, rowVars
    <3>. QED BY <1>1, <1>3, <2>1, <2>2, <3>1, ClosedStays DEF SettlementInv, CoreInv
  <2>4. CASE BesideTheRelay
    BY <1>3, <2>1, <2>4, BesideLeavesTheRelay DEF rowVars, SettlementInv
  <2>5. CASE \E a \in Admins : KillPayout(a)
    BY <1>1, <1>3, <2>1, <2>5 DEF KillPayout, Killable
  <2>. QED BY <2>3, <2>4, <2>5, StepsOfSettlement
<1>. QED BY <1>2, <1>3 DEF SettlementInv, PayoutInv, KilledAreShut

\* The rest of the invariant of the payouts.
PaidInv ==
  /\ StageInTurn /\ RecordedWasMade /\ DoneWasSatisfied /\ ChargelessIsNotPaid
  /\ ProcessedMeansPaid /\ MadeIsRecorded

LEMMA SettlementStepPaid ==
  ASSUME SettlementInv, SettlementNext
  PROVE  PaidInv'
<1>. USE PaymentOfAssumption
     DEF SettlementInv, SettlementTypeOK, PayoutInv, PaidInv, StageInTurn, RecordedWasMade,
         DoneWasSatisfied, Satisfied, ChargelessIsNotPaid, ProcessedMeansPaid, MadeIsRecorded
<1>0. \A e \in Rows : PaymentOf[e] \in Payments
  OBVIOUS
<1>1. ASSUME RelayGoesOn PROVE PaidInv'
  <2>1. UNCHANGED payoutVars
    BY <1>1 DEF RelayGoesOn, dbVars, storeVars, stripeVars, historyVars, payoutVars
  <2>2. /\ \A t \in Ticks, e \in Rows : work'[t][e] = "done" => work[t][e] = "done"
        /\ \A t \in Ticks, e \in Rows : stage[t][e] # "start" => work'[t][e] = "todo"
        /\ \A e \in Rows : status'[e] = "processed" =>
             status[e] = "processed" \/ \E t \in Ticks : work[t][e] = "done"
    BY <1>1, AroundTheBranch DEF CoreInv
  <2>3. \A e \in Rows : status'[e] = "processed" =>
          status[e] = "processed" \/ Satisfied(e)
    BY <2>2
  <2>4. ProcessedMeansPaid'
    BY <2>1, <2>3 DEF payoutVars
  <2>5. MadeIsRecorded'
    <3>. SUFFICES ASSUME NEW p \in Payments, transferred'[p], ~transferId'[p], ~raced'[p]
                  PROVE  \E e \in Rows : PaymentOf[e] = p /\ (status'[e] # "processed" \/ e \in held')
      OBVIOUS
    <3>1. PICK e \in Rows : PaymentOf[e] = p /\ (status[e] # "processed" \/ e \in held)
      BY <2>1 DEF payoutVars
    <3>2. CASE e \in held
      BY <2>1, <3>1, <3>2 DEF payoutVars
    <3>3. CASE status[e] # "processed"
      <4>1. ~Satisfied(e) \/ e \in held
        BY <2>1, <3>1 DEF payoutVars
      <4>. QED BY <2>1, <2>3, <3>1, <3>3, <4>1 DEF payoutVars
    <3>. QED BY <3>1, <3>2, <3>3
  <2>6. StageInTurn' /\ RecordedWasMade' /\ ChargelessIsNotPaid'
    BY <2>1, <2>2 DEF payoutVars
  <2>7. DoneWasSatisfied'
    BY <2>1, <2>2 DEF payoutVars
  <2>. QED BY <2>4, <2>5, <2>6, <2>7
<1>2. ASSUME NEW t \in Ticks, NEW e \in Rows, PayoutReads(t, e)
      PROVE  PaidInv'
  <2>1. /\ work[t][e] = "todo" /\ stage' = [stage EXCEPT ![t][e] = "creating"]
        /\ UNCHANGED <<status, work, chargeless, transferId, transferred, killed, held, raced>>
    BY <1>2 DEF PayoutReads, Turn, StageGoes, relayVars, rowVars, dbVars, storeVars, stripeVars,
                historyVars
  <2>. QED BY <2>1
<1>3. ASSUME NEW t \in Ticks, NEW e \in Rows,
             PayoutSkipped(t, e) \/ PayoutHeld(t, e) \/ PayoutVoid(t, e)
      PROVE  PaidInv'
  <2>1. /\ work' = [work EXCEPT ![t][e] = "done"]
        /\ stage[t][e] \in {"start", "creating"}
        /\ \A u \in Ticks, f \in Rows : stage'[u][f] # "start" =>
             stage'[u][f] = stage[u][f] /\ ~(u = t /\ f = e)
        /\ UNCHANGED <<status, chargeless, transferId, transferred, killed, raced>>
        /\ held \subseteq held'
        /\ transferId[PaymentOf[e]] \/ PaymentOf[e] \in chargeless \/ e \in held'
    <3>1. CASE PayoutSkipped(t, e)
      BY <3>1 DEF PayoutSkipped, InBranch, Settled, Deliver, WorkGoes, rowVars, dbVars,
                  storeVars, stripeVars, historyVars
    <3>2. CASE PayoutHeld(t, e)
      BY <3>2 DEF PayoutHeld, InBranch, Deliver, WorkGoes, rowVars, dbVars, storeVars,
                  stripeVars
    <3>3. CASE PayoutVoid(t, e)
      BY <3>3 DEF PayoutVoid, StageGoes, Deliver, WorkGoes, rowVars, dbVars, storeVars,
                  stripeVars, historyVars
    <3>. QED BY <1>3, <3>1, <3>2, <3>3
  <2>2. \A u \in Ticks, f \in Rows : ~(u = t /\ f = e) => work'[u][f] = work[u][f]
    BY <2>1 DEF RelayTypeOK
  <2>3. StageInTurn' /\ RecordedWasMade'
    BY <2>1, <2>2
  <2>4. DoneWasSatisfied'
    BY <1>0, <2>1, <2>2
  <2>5. ProcessedMeansPaid' /\ MadeIsRecorded' /\ ChargelessIsNotPaid'
    BY <2>1
  <2>. QED BY <2>3, <2>4, <2>5
<1>4. ASSUME NEW t \in Ticks, NEW e \in Rows, PayoutMade(t, e)
      PROVE  PaidInv'
  <2>1. /\ stage[t][e] = "creating" /\ stage' = [stage EXCEPT ![t][e] = "recording"]
        /\ CreateTransfer(PaymentOf[e])
        /\ UNCHANGED <<status, work, chargeless, transferId, killed, held, raced>>
    BY <1>4 DEF PayoutMade, StageGoes, relayVars, rowVars, dbVars, storeVars, historyVars
  <2>2. /\ \A p \in Payments : transferred[p] => transferred'[p]
        /\ MadeIsRecorded' /\ ChargelessIsNotPaid'
    BY <2>1, PayingKeepsRecords
  <2>3. transferred'[PaymentOf[e]]
    BY <1>0, <2>1 DEF CreateTransfer
  <2>4. StageInTurn'
    BY <2>1
  <2>5. RecordedWasMade'
    BY <1>0, <2>1, <2>2, <2>3
  <2>6. DoneWasSatisfied' /\ ProcessedMeansPaid'
    BY <1>0, <2>1, <2>2
  <2>. QED BY <2>2, <2>4, <2>5, <2>6
<1>5. ASSUME NEW t \in Ticks, NEW e \in Rows, PayoutRecorded(t, e)
      PROVE  PaidInv'
  <2>1. /\ stage[t][e] = "recording" /\ stage' = [stage EXCEPT ![t][e] = "start"]
        /\ work' = [work EXCEPT ![t][e] = "done"]
        /\ transferId' = [transferId EXCEPT ![PaymentOf[e]] = TRUE]
        /\ UNCHANGED <<status, chargeless, transferred, killed, held, raced>>
    BY <1>5 DEF PayoutRecorded, StageGoes, Deliver, WorkGoes, rowVars, storeVars, stripeVars,
                historyVars
  <2>2. transferred[PaymentOf[e]]
    BY <2>1
  <2>3. StageInTurn' /\ RecordedWasMade'
    BY <1>0, <2>1, <2>2 DEF RelayTypeOK
  <2>4. DoneWasSatisfied'
    BY <1>0, <2>1, <2>2 DEF RelayTypeOK
  <2>5. ProcessedMeansPaid' /\ MadeIsRecorded' /\ ChargelessIsNotPaid'
    BY <1>0, <2>1
  <2>. QED BY <2>3, <2>4, <2>5
<1>6. ASSUME NEW t \in Ticks, NEW e \in Rows, PayoutFails(t, e)
      PROVE  PaidInv'
  <2>1. /\ stage' = [stage EXCEPT ![t][e] = "start"]
        /\ work' = [work EXCEPT ![t][e] = "failing"]
        /\ \/ UNCHANGED transferred
           \/ stage[t][e] = "creating" /\ CreateTransfer(PaymentOf[e])
        /\ UNCHANGED <<status, chargeless, transferId, killed, held, raced>>
    BY <1>6 DEF PayoutFails, StageGoes, DeliverFails, WorkGoes, rowVars, dbVars, storeVars,
                historyVars
  <2>2. /\ \A p \in Payments : transferred[p] => transferred'[p]
        /\ MadeIsRecorded' /\ ChargelessIsNotPaid'
    <3>1. CASE stage[t][e] # "start"
      <4>1. transferred' = transferred \/ CreateTransfer(PaymentOf[e])
        BY <2>1
      <4>. QED BY <2>1, <3>1, <4>1, PayingKeepsRecords
    <3>2. CASE stage[t][e] = "start"
      BY <2>1, <3>2
    <3>. QED BY <3>1, <3>2
  <2>3. StageInTurn'
    BY <2>1 DEF RelayTypeOK
  <2>4. RecordedWasMade'
    BY <1>0, <2>1, <2>2
  <2>5. DoneWasSatisfied'
    BY <1>0, <2>1, <2>2 DEF RelayTypeOK
  <2>6. ProcessedMeansPaid'
    BY <1>0, <2>1, <2>2
  <2>. QED BY <2>2, <2>3, <2>4, <2>5, <2>6
<1>7. ASSUME NEW t \in Ticks, TickDies(t)
      PROVE  PaidInv'
  <2>1. /\ stage' = [stage EXCEPT ![t] = [e \in Rows |-> "start"]]
        /\ work' = [work EXCEPT ![t] = NoWork]
        /\ UNCHANGED <<status, chargeless, transferId, transferred, killed, held, raced>>
    BY <1>7 DEF TickDies, Crash, rowVars, dbVars, storeVars, stripeVars, historyVars
  <2>. QED BY <2>1 DEF RelayTypeOK, NoWork
<1>8. ASSUME BesideTheRelay PROVE PaidInv'
  BY <1>8, BesideLeavesTheRelay DEF rowVars, payoutVars
<1>9. ASSUME NEW a \in Admins, KillPayout(a) PROVE PaidInv'
  <2>. DEFINE dead == {e \in Rows : PaymentOf[e] = target[a] /\ Killable(e)}
  <2>1. /\ status' = [e \in Rows |-> IF e \in dead THEN "processed" ELSE status[e]]
        /\ killed' = killed \cup dead
        /\ raced' = [raced EXCEPT ![target[a]] = @ \/ OutOfReach(target[a])]
        /\ UNCHANGED <<work, stage, chargeless, transferId, transferred, held>>
    BY <1>9 DEF KillPayout, dbVars, storeVars, stripeVars
  <2>2. \A e \in Rows : status'[e] # status[e] => e \in killed' /\ PaymentOf[e] = target[a]
    BY <2>1
  <2>3. ProcessedMeansPaid'
    BY <2>1, <2>2
  <2>4. MadeIsRecorded'
    <3>. SUFFICES ASSUME NEW p \in Payments, transferred'[p], ~transferId'[p], ~raced'[p]
                  PROVE  \E e \in Rows : PaymentOf[e] = p /\ (status'[e] # "processed" \/ e \in held')
      OBVIOUS
    <3>1. p # target[a] /\ transferred[p] /\ ~transferId[p] /\ ~raced[p]
      BY <2>1 DEF OutOfReach
    <3>2. PICK e \in Rows : PaymentOf[e] = p /\ (status[e] # "processed" \/ e \in held)
      BY <3>1
    <3>. QED BY <2>1, <2>2, <3>1, <3>2
  <2>5. StageInTurn' /\ RecordedWasMade' /\ DoneWasSatisfied' /\ ChargelessIsNotPaid'
    BY <2>1
  <2>. QED BY <2>3, <2>4, <2>5
<1>. QED BY <1>1, <1>2, <1>3, <1>4, <1>5, <1>6, <1>7, <1>8, <1>9, StepsOfSettlement
         DEF BranchStep

\* The refund kills only what it can shut, or knows to be raced.
LEMMA SettlementStepKilled ==
  ASSUME SettlementInv, SettlementNext
  PROVE  KilledAreShut'
<1>. SUFFICES ASSUME NEW e \in killed'
              PROVE  raced'[PaymentOf[e]] \/ (Shut(PaymentOf[e])' /\ status'[e] = "processed")
  BY DEF KilledAreShut, Shut, InHand
<1>1. CASE e \in killed
  BY <1>1, KilledStayShut
<1>2. CASE e \notin killed
  <2>1. PICK a \in Admins : KillPayout(a)
    <3>1. RelayGoesOn => killed' = killed
      BY DEF RelayGoesOn, historyVars
    <3>2. BesideTheRelay => killed' = killed
      BY BesideLeavesTheRelay DEF payoutVars, SettlementInv
    <3>3. \A t \in Ticks : BranchStep(t) \/ TickDies(t) => killed' = killed
      BY DEF BranchStep, PayoutReads, PayoutSkipped, PayoutHeld, PayoutVoid, PayoutMade,
             PayoutRecorded, PayoutFails, TickDies, historyVars
    <3>. QED BY <1>2, <3>1, <3>2, <3>3, StepsOfSettlement
  <2>2. e \in Rows /\ PaymentOf[e] = target[a] /\ status'[e] = "processed"
    <3>1. e \in {f \in Rows : PaymentOf[f] = target[a] /\ Killable(f)}
      BY <1>2, <2>1 DEF KillPayout
    <3>2. status' = [f \in Rows |-> IF PaymentOf[f] = target[a] /\ Killable(f)
                                    THEN "processed" ELSE status[f]]
      BY <2>1 DEF KillPayout
    <3>. QED BY <3>1, <3>2
  <2>3. target' = target
    BY <2>1 DEF KillPayout
  <2>. QED BY <2>1, <2>2, <2>3, KillShuts DEF Shut, InHand
<1>. QED BY <1>1, <1>2

LEMMA SettlementInductive == SettlementSpec => []SettlementInv
<1>1. SettlementInv /\ [SettlementNext]_settleVars => SettlementInv'
  <2>1. ASSUME SettlementInv, SettlementNext PROVE SettlementInv'
    <3>1. PayoutInv'
      BY <2>1, SettlementStepPaid, SettlementStepKilled DEF PaidInv, PayoutInv
    <3>. QED BY <2>1, <3>1, SettlementStepTypes, SettlementStepCore, SettlementStepRefund
             DEF SettlementInv
  <2>2. ASSUME SettlementInv, UNCHANGED settleVars PROVE SettlementInv'
    <3>. USE DEF settleVars, dbVars, storeVars, adminVars, stripeVars, historyVars
    <3>1. CoreInv'
      BY <2>2, CoreUntouched DEF relayVars, SettlementInv, CoreInv, RelayTypeOK
    <3>2. SettlementTypeOK'
      BY <2>2, <3>1 DEF SettlementInv, SettlementTypeOK, CoreInv
    <3>3. PayoutInv'
      BY <2>2 DEF relayVars, rowVars, SettlementInv, PayoutInv, StageInTurn, RecordedWasMade,
                  DoneWasSatisfied, Satisfied, ChargelessIsNotPaid, ProcessedMeansPaid,
                  KilledAreShut, Shut, InHand, MadeIsRecorded
    <3>4. RefundInv'
      BY <2>2 DEF relayVars, rowVars, SettlementInv, RefundInv, Covered, Shut, InHand
    <3>. QED BY <3>1, <3>2, <3>3, <3>4 DEF SettlementInv
  <2>. QED BY <2>1, <2>2
<1>. QED BY <1>1, SettlementInitInv, PTL DEF SettlementSpec

-----------------------------------------------------------------------------
(* What payouts and refunds promise, for any number of rows, payments,     *)
(* processes and admins, with ticks slower than their claims.              *)

\* The columns, the requests and the marks keep their types.
THEOREM SettlementTypeCorrect == SettlementSpec => []SettlementTypeOK
<1>1. SettlementInv => SettlementTypeOK
  BY DEF SettlementInv
<1>. QED BY <1>1, SettlementInductive, PTL

\* A transfer that was made and is not on record has a row left that finds it under
\* its key: a process that dies in the branch, or fails there, loses nothing.
THEOREM TransfersAreRecorded == SettlementSpec => []MadeIsRecorded
<1>1. SettlementInv => MadeIsRecorded
  BY DEF SettlementInv, PayoutInv
<1>. QED BY <1>1, SettlementInductive, PTL

\* A row that is processed and that no refund closed has paid the store, had nothing
\* to pay, or was held for want of an account.
THEOREM ProcessedRowsHavePaid == SettlementSpec => []ProcessedMeansPaid
<1>1. SettlementInv => ProcessedMeansPaid
  BY DEF SettlementInv, PayoutInv
<1>. QED BY <1>1, SettlementInductive, PTL

\* The money of a returned charge stays with the store in the two known ways
\* only: the reversal failed, or a payout was out of reach of the refund.
THEOREM MoneyKeptIsKnown == SettlementSpec => []KeptOnlyIfRaced
<1>1. SettlementInv => KeptOnlyIfRaced
  BY DEF SettlementInv, SettlementTypeOK, RefundInv, Covered, Shut, KeptOnlyIfRaced
<1>. QED BY <1>1, SettlementInductive, PTL

\* A row closed by a refund that had every payout in reach is out of the relay's
\* reach for good, whatever tick comes late.
THEOREM KilledRowsPayNothing == SettlementSpec => KilledRowsStayDead
<1> DEFINE Dead == \A e \in killed :
                     ~raced[PaymentOf[e]] =>
                       status'[e] = "processed" /\ effects'[e] = effects[e]
<1>1. ASSUME SettlementInv, SettlementNext PROVE Dead
  <2>. SUFFICES ASSUME NEW e \in killed, ~raced[PaymentOf[e]]
                PROVE  status'[e] = "processed" /\ effects'[e] = effects[e]
    OBVIOUS
  <2>1. e \in Rows /\ Shut(PaymentOf[e]) /\ status[e] = "processed"
    BY <1>1 DEF SettlementInv, SettlementTypeOK, PayoutInv, KilledAreShut
  <2>2. \A t \in Ticks : work[t][e] = "none"
    BY <2>1 DEF Shut, InHand
  <2>3. CASE RelayGoesOn \/ \E t \in Ticks : BranchStep(t) \/ TickDies(t)
    <3>1. RelayNext \/ UNCHANGED <<status, effects>>
      BY <2>3, RelayPart DEF relayVars, rowVars
    <3>. QED BY <1>1, <2>1, <2>2, <3>1, ClosedStays DEF SettlementInv, CoreInv
  <2>4. CASE BesideTheRelay
    BY <1>1, <2>1, <2>4, BesideLeavesTheRelay DEF rowVars, SettlementInv
  <2>5. CASE \E a \in Admins : KillPayout(a)
    BY <2>1, <2>5 DEF KillPayout, Killable
  <2>. QED BY <1>1, <2>3, <2>4, <2>5, StepsOfSettlement
<1>2. SettlementInv /\ [SettlementNext]_settleVars => [Dead]_settleVars
  BY <1>1
<1>. QED BY <1>2, SettlementInductive, PTL DEF SettlementSpec, KilledRowsStayDead
=============================================================================
