---------------------------- MODULE RafflesProofs ----------------------------
(***************************************************************************)
(* What the run of MCGiving checks on a small instance, for any number of *)
(* raffles, donations, relays, administrators and requests.                *)
(*                                                                         *)
(* The argument has three layers.  First the shape of the state: which     *)
(* rows and which requests in progress can exist (next_number is a sum     *)
(* over the donations, which the provers cannot compute: it stays          *)
(* arbitrary here, and no theorem is about it).  Then the two locks: a     *)
(* raffle whose draw is running is open and stays as it is, and entries    *)
(* deleted by a request that has not committed are still there and belong  *)
(* to it alone.  From them the properties follow one by one.               *)
(***************************************************************************)
EXTENDS Raffles, FiniteSetTheorems, TLAPS

-----------------------------------------------------------------------------
(* The shape of the state.                                                 *)

RowIn(N, W) == [status : {"none", "open", "drawn", "cancelled"},
                starts : Times, ends : 1..Forever, cents : Prices,
                next : N, winners : W]

Delivery == {NoRequest} \cup [op : {"grant"}, donation : Donations, raffle : Raffles, cents : Prices]

(* The rows a request has read, in which the window of c was free.         *)
FreeIn(rows, c, r) ==
  /\ \E N, W : rows \in [Raffles -> RowIn(N, W)]
  /\ findWindowConflict(rows, c, r) = {}

IsRequest(q) ==
  \/ q = NoRequest
  \/ \E c \in Config : \E R :
       FreeIn(R, c, 0) /\ q = [op |-> "create", config |-> c, rows |-> R]
  \/ \E r \in Raffles, c \in Config : \E R, t :
       /\ FreeIn(R, c, r) /\ R[r].status = "open"
       /\ q = [op |-> "put", raffle |-> r, config |-> c, rows |-> R, taken |-> t]
  \/ \E r \in Raffles : \E D :
       q = [op |-> "cancel", raffle |-> r, was |-> "open", seen |-> D]
  \/ \E r \in Raffles : \E D, E :
       q = [op |-> "cancelling", raffle |-> r, was |-> "open", seen |-> D, doomed |-> E]
  \/ \E r \in Raffles : \E R :
       /\ FreeIn(R, R[r], r) /\ R[r].status = "cancelled"
       /\ q = [op |-> "reopen", raffle |-> r, rows |-> R]
  \/ \E r \in Raffles, t \in Times : \E E :
       q = [op |-> "draw", raffle |-> r, at |-> t, seen |-> E]

Shapes ==
  /\ now \in Times
  /\ donation \in [Donations -> {"none", "paid", "refunded"}]
  /\ granted \in [Donations -> BOOLEAN]
  /\ \E N, W : raffle \in [Raffles -> RowIn(N, W)]
  /\ pool = [r \in Raffles |-> pool[r]]
  /\ asking = [a \in Admins |-> asking[a]]
  /\ \A a \in Admins : IsRequest(asking[a])
  /\ grant \in [Relays -> Delivery]
  /\ \A e \in entries : e.raffle \in Raffles /\ e.donation \in Donations

(* What a request in progress carries.                                     *)
LEMMA RequestFields ==
  ASSUME NEW q, IsRequest(q)
  PROVE  /\ q.op \in {"none", "create", "put", "cancel", "cancelling", "reopen", "draw"}
         /\ q.op = "create" => q.config \in Config
         /\ q.op = "put" => q.raffle \in Raffles /\ q.config \in Config
         /\ q.op \in {"cancel", "cancelling", "reopen", "draw"} => q.raffle \in Raffles
         /\ q.op = "draw" => q.at \in Times
         /\ q.op = "create" => FreeIn(q.rows, q.config, 0)
         /\ q.op = "put" => /\ FreeIn(q.rows, q.config, q.raffle)
                            /\ q.rows[q.raffle].status = "open"
         /\ q.op \in {"cancel", "cancelling"} => q.was = "open"
         /\ q.op = "reopen" => /\ FreeIn(q.rows, q.rows[q.raffle], q.raffle)
                               /\ q.rows[q.raffle].status = "cancelled"
  BY DEF IsRequest, NoRequest

(* The constants, as arithmetic wants them.                                *)
LEMMA TimesAreNaturals ==
  /\ MaxTime \in Nat /\ MaxTime >= 1 /\ Forever = MaxTime + 1
  /\ Times \subseteq 1..Forever /\ 1 \in Times
  /\ 1..Forever \subseteq Nat /\ Raffles \subseteq Nat /\ 0 \notin Raffles
  BY RafflesAssumption DEF Times, Forever, Raffles

LEMMA ConfigFields ==
  ASSUME NEW c \in Config
  PROVE  c.starts \in Times /\ c.ends \in 1..Forever /\ c.cents \in Prices
  BY TimesAreNaturals DEF Config

(* The row of a raffle that does not exist is a row.                       *)
LEMMA NoRowIsARow == NoRow \in RowIn({1}, {{}})
<1>1. (CHOOSE p \in Prices : TRUE) \in Prices
  BY Zenon, RafflesAssumption
<1> QED
  BY <1>1, TimesAreNaturals DEF NoRow, RowIn

LEMMA Quotients ==
  ASSUME NEW n \in Nat, NEW p \in Nat \ {0}
  PROVE  n \div p \in Nat
  OBVIOUS

(* A backfill gives numbers, at least one each, to paid donations that     *)
(* have none, in its own raffle.                                           *)
LEMMA BackfillsFacts ==
  ASSUME NEW R, NEW r, R[r].cents \in Prices, NEW b \in Backfills(R, r)
  PROVE  /\ b.donors \subseteq {d \in Donations : donation[d] = "paid" /\ ~granted[d]}
         /\ \A e \in b.blocks : e.raffle = r /\ e.donation \in b.donors
         /\ \A d \in b.donors : \E e \in b.blocks : e.donation = d
<1> DEFINE cents   == R[r].cents
           pending == {d \in Donations : donation[d] = "paid" /\ ~granted[d]}
           may     == {d \in pending : r \in resolveRaffleForDonation(R, paidAt[d])}
           must    == {d \in may : resolveRaffleForDonation(R, paidAt[d]) = {r}}
           worthy(D) == {d \in D : Worth(d, cents) >= 1}
           start(D, d) == R[r].next + TotalWorth({e \in D : e < d}, cents)
           blocks(D) == UNION {Block(r, d, start(D, d), Worth(d, cents)) : d \in D}
<1>1. PICK D \in {worthy(must \cup extra) : extra \in SUBSET may} :
        b = [donors |-> D, blocks |-> blocks(D), next |-> R[r].next + TotalWorth(D, cents)]
  BY Zenon DEF Backfills
<1>a. b.donors = D /\ b.blocks = blocks(D)
  BY <1>1, Zenon
<1>b. D \subseteq pending /\ \A d \in D : Worth(d, cents) >= 1
  OBVIOUS
<1> HIDE DEF blocks, start, worthy, may, must
<1>2. ASSUME NEW d \in D
      PROVE  0 \in 0..(Worth(d, cents) - 1)
  <2>1. Amount[d] \div cents \in Nat
    <3>1. Amount[d] \in Nat /\ cents \in Nat \ {0}
      BY RafflesAssumption, <1>b
    <3> QED
      BY <3>1, Quotients, Zenon
  <2> QED
    BY <1>b, <2>1, RafflesAssumption DEF Worth
<1>3. \A e \in b.blocks : e.raffle = r /\ e.donation \in D
  BY <1>a DEF Block, blocks
<1>4. ASSUME NEW d \in D
      PROVE  \E e \in b.blocks : e.donation = d
  <2> DEFINE first == [raffle |-> r, donation |-> d, number |-> start(D, d) + 0]
  <2>1. first \in Block(r, d, start(D, d), Worth(d, cents))
    BY <1>2 DEF Block
  <2>2. first \in b.blocks
    BY <1>a, <2>1, Zenon DEF blocks
  <2>3. first.donation = d
    OBVIOUS
  <2> QED
    BY <2>2, <2>3, Zenon
<1> QED
  BY <1>a, <1>b, <1>3, <1>4, Zenon

-----------------------------------------------------------------------------
(* What each transaction that writes leaves in the rows.                   *)

RowsAre == \E N, W : raffle \in [Raffles -> RowIn(N, W)]

(* The rows of two states differ at most in raffle r.                      *)
OnlyRow(r) == \A s \in Raffles \ {r} : raffle'[s] = raffle[s]

LEMMA RowFields ==
  ASSUME Shapes, NEW r \in Raffles
  PROVE  /\ raffle[r].status \in {"none", "open", "drawn", "cancelled"}
         /\ raffle[r].starts \in Times /\ raffle[r].ends \in 1..Forever
         /\ raffle[r].cents \in Prices
  BY DEF Shapes, RowIn

(* A window that was free when it was read is free now, when every window  *)
(* in the way now was seen: those only shrink, or go.                      *)
LEMMA SeenIsFree ==
  ASSUME Shapes, NEW R, NEW c, NEW r \in Raffles, NEW q \in {0, r}, FreeIn(R, c, q),
         Unseen(R, r) = {}, c.starts \in Times, c.ends \in 1..Forever
  PROVE  findWindowConflict(raffle, c, r) = {}
<1>1. ASSUME NEW s \in Raffles \ {r}, raffle[s].status \in {"open", "drawn"},
             Overlap(raffle[s], c)
      PROVE  FALSE
  <2>1. /\ R[s].status \in {"open", "drawn"}
        /\ R[s].starts <= raffle[s].starts /\ raffle[s].ends <= R[s].ends
    BY <1>1 DEF Unseen
  <2>2. R[s].starts \in Times /\ R[s].ends \in 1..Forever
    BY DEF FreeIn, RowIn
  <2>3. raffle[s].starts \in Times /\ raffle[s].ends \in 1..Forever
    BY RowFields
  <2>4. /\ R[s].starts \in Nat /\ R[s].ends \in Nat /\ raffle[s].starts \in Nat
        /\ raffle[s].ends \in Nat /\ c.starts \in Nat /\ c.ends \in Nat
    BY <2>2, <2>3, TimesAreNaturals
  <2>5. Overlap(R[s], c)
    BY <1>1, <2>1, <2>4 DEF Overlap
  <2>6. s # q
    BY TimesAreNaturals
  <2> QED
    BY <2>1, <2>5, <2>6 DEF FreeIn, findWindowConflict
<1> QED
  BY <1>1 DEF findWindowConflict

LEMMA GrantEffect ==
  ASSUME Shapes, NEW w \in Relays, grantWithinTx(w), grant[w].raffle \in Raffles
  PROVE  /\ RowsAre'
         /\ \A r \in Raffles : /\ raffle'[r].status = raffle[r].status
                               /\ raffle'[r].starts = raffle[r].starts
                               /\ raffle'[r].ends = raffle[r].ends
                               /\ raffle[r].status # "open" => raffle'[r] = raffle[r]
<1> DEFINE r == grant[w].raffle
           count == Worth(grant[w].donation, grant[w].cents)
<1>1. PICK N, W : raffle \in [Raffles -> RowIn(N, W)]
  BY DEF Shapes
<1>2. CASE raffle' = raffle
  BY <1>1, <1>2 DEF RowsAre
<1>3. CASE /\ raffle[r].status = "open"
           /\ raffle' = [raffle EXCEPT ![r].next = @ + count]
  <2> HIDE DEF count, r
  <2>1. raffle' \in [Raffles -> RowIn(N \cup {raffle[r].next + count}, W)]
    BY <1>1, <1>3 DEF RowIn
  <2> QED
    BY <1>1, <1>3, <2>1 DEF RowIn, RowsAre
<1> QED
  BY <1>2, <1>3 DEF grantWithinTx, GrantTakes

LEMMA CreateEffect ==
  ASSUME Shapes, NEW a \in Admins, create(a)
  PROVE  /\ RowsAre'
         /\ \E r \in Raffles, c \in Config :
              /\ raffle[r].status = "none" /\ OnlyRow(r)
              /\ raffle'[r].status = "open"
              /\ raffle'[r].starts = c.starts /\ raffle'[r].ends = c.ends
              /\ findWindowConflict(raffle, c, r) # {} => "window" \in raced'
              /\ \E b \in Backfills([raffle EXCEPT ![r] = RowOf(c)], r) :
                   /\ entries' = entries \cup b.blocks
                   /\ granted' = [d \in Donations |-> granted[d] \/ d \in b.donors]
<1>1. PICK N, W : raffle \in [Raffles -> RowIn(N, W)]
  BY DEF Shapes
<1> DEFINE c == asking[a].config
<1>2. c \in Config
  BY RequestFields DEF Shapes, create
<1>3. PICK r \in Raffles :
        /\ raffle[r].status = "none"
        /\ \E b \in Backfills([raffle EXCEPT ![r] = RowOf(c)], r) :
             /\ raffle' = [[raffle EXCEPT ![r] = RowOf(c)] EXCEPT ![r].next = b.next]
             /\ entries' = entries \cup b.blocks
             /\ granted' = [d \in Donations |-> granted[d] \/ d \in b.donors]
        /\ raced' = raced \cup Flag(Unseen(asking[a].rows, r) # {}, "window")
  BY Zenon DEF create
<1>4. PICK b \in Backfills([raffle EXCEPT ![r] = RowOf(c)], r) :
        /\ raffle' = [[raffle EXCEPT ![r] = RowOf(c)] EXCEPT ![r].next = b.next]
        /\ entries' = entries \cup b.blocks
        /\ granted' = [d \in Donations |-> granted[d] \/ d \in b.donors]
  BY <1>3, Zenon
<1>0. FreeIn(asking[a].rows, c, 0)
  BY RequestFields DEF Shapes, create
<1> HIDE DEF c
<1>5. c.starts \in Times /\ c.ends \in 1..Forever /\ c.cents \in Prices
  BY <1>2, ConfigFields
<1>6. raffle' \in [Raffles -> RowIn(N \cup {b.next}, W \cup {{}})]
  BY <1>1, <1>4, <1>5 DEF RowIn, RowOf
<1>7. /\ OnlyRow(r) /\ raffle'[r].status = "open"
      /\ raffle'[r].starts = c.starts /\ raffle'[r].ends = c.ends
  BY <1>1, <1>4 DEF RowIn, RowOf, OnlyRow
<1>8. RowsAre'
  BY <1>6 DEF RowsAre
<1>a. findWindowConflict(raffle, c, r) # {} => "window" \in raced'
  <2>1. Unseen(asking[a].rows, r) = {} => findWindowConflict(raffle, c, r) = {}
    BY <1>0, <1>5, SeenIsFree
  <2> QED
    BY <1>3, <2>1 DEF Flag
<1>9. /\ raffle[r].status = "none"
      /\ \E k \in Backfills([raffle EXCEPT ![r] = RowOf(c)], r) :
           /\ entries' = entries \cup k.blocks
           /\ granted' = [d \in Donations |-> granted[d] \/ d \in k.donors]
  BY <1>3, <1>4, Zenon
<1> QED
  BY <1>2, <1>7, <1>8, <1>9, <1>a, Zenon

LEMMA UpdateEffect ==
  ASSUME Shapes, NEW a \in Admins, updateConfig(a)
  PROVE  /\ RowsAre'
         /\ \E r \in Raffles, c \in Config :
              /\ ~Locked(r) /\ OnlyRow(r)
              /\ raffle'[r].status = raffle[r].status
              /\ raffle'[r].starts = c.starts /\ raffle'[r].ends = c.ends
              /\ raffle[r].status # "open" => "status" \in raced'
              /\ findWindowConflict(raffle, c, r) # {} => "window" \in raced'
<1>1. PICK N, W : raffle \in [Raffles -> RowIn(N, W)]
  BY DEF Shapes
<1> DEFINE r == asking[a].raffle
           c == asking[a].config
<1>2. r \in Raffles /\ c \in Config
  BY RequestFields DEF Shapes, updateConfig
<1>3. /\ ~Locked(r)
      /\ raffle' = [raffle EXCEPT ![r].starts = c.starts, ![r].ends = c.ends,
                                  ![r].cents = c.cents, ![r].winners = {}]
  BY Zenon DEF updateConfig
<1>a. c.starts \in Times /\ c.ends \in 1..Forever
  BY <1>2, ConfigFields
<1>4. /\ raffle[r].status # "open" => "status" \in raced'
      /\ findWindowConflict(raffle, c, r) # {} => "window" \in raced'
  <2>1. asking[a].op = "put" /\ IsRequest(asking[a])
    BY DEF Shapes, updateConfig
  <2>2. FreeIn(asking[a].rows, c, r) /\ asking[a].rows[r].status = "open"
    BY <2>1, RequestFields
  <2>3. Unseen(asking[a].rows, r) = {} => findWindowConflict(raffle, c, r) = {}
    <3> HIDE DEF r, c
    <3> QED
      BY <1>2, <1>a, <2>2, SeenIsFree
  <2>4. /\ raffle[r].status # asking[a].rows[r].status => "status" \in raced'
        /\ Unseen(asking[a].rows, r) # {} => "window" \in raced'
    BY DEF updateConfig, Flag
  <2> HIDE DEF r, c
  <2> QED
    BY <2>2, <2>3, <2>4
<1> HIDE DEF r, c
<1>5. c.starts \in Times /\ c.ends \in 1..Forever /\ c.cents \in Prices
  BY <1>2, ConfigFields
<1> DEFINE R1 == [raffle EXCEPT ![r].starts = c.starts]
           R2 == [R1 EXCEPT ![r].ends = c.ends]
           R3 == [R2 EXCEPT ![r].cents = c.cents]
           R4 == [R3 EXCEPT ![r].winners = {}]
<1>6. raffle' = R4
  BY <1>3
<1>7. /\ R1 \in [Raffles -> RowIn(N, W)] /\ \A s \in Raffles \ {r} : R1[s] = raffle[s]
      /\ R1[r].status = raffle[r].status /\ R1[r].starts = c.starts
  BY <1>1, <1>2, <1>5 DEF RowIn
<1> HIDE DEF R1
<1>8. /\ R2 \in [Raffles -> RowIn(N, W)] /\ \A s \in Raffles \ {r} : R2[s] = R1[s]
      /\ R2[r].status = R1[r].status /\ R2[r].starts = R1[r].starts /\ R2[r].ends = c.ends
  BY <1>2, <1>5, <1>7 DEF RowIn
<1> HIDE DEF R2
<1>9. /\ R3 \in [Raffles -> RowIn(N, W)] /\ \A s \in Raffles \ {r} : R3[s] = R2[s]
      /\ R3[r].status = R2[r].status /\ R3[r].starts = R2[r].starts /\ R3[r].ends = R2[r].ends
  BY <1>2, <1>5, <1>8 DEF RowIn
<1> HIDE DEF R3
<1>10. /\ R4 \in [Raffles -> RowIn(N, W \cup {{}})] /\ \A s \in Raffles \ {r} : R4[s] = R3[s]
       /\ R4[r].status = R3[r].status /\ R4[r].starts = R3[r].starts /\ R4[r].ends = R3[r].ends
  BY <1>2, <1>9 DEF RowIn
<1> HIDE DEF R4
<1>11. RowsAre'
  BY <1>6, <1>10 DEF RowsAre
<1>12. /\ OnlyRow(r) /\ raffle'[r].status = raffle[r].status
       /\ raffle'[r].starts = c.starts /\ raffle'[r].ends = c.ends
  BY <1>6, <1>7, <1>8, <1>9, <1>10 DEF OnlyRow
<1> QED
  BY <1>2, <1>3, <1>4, <1>11, <1>12, Zenon

LEMMA CancelEffect ==
  ASSUME Shapes, NEW a \in Admins, cancel(a)
  PROVE  /\ RowsAre'
         /\ \E r \in Raffles :
              /\ r = asking[a].raffle /\ ~Locked(r) /\ OnlyRow(r)
              /\ raffle'[r].status = "cancelled"
              /\ raffle[r].status # "open" => "status" \in raced'
<1>1. PICK N, W : raffle \in [Raffles -> RowIn(N, W)]
  BY DEF Shapes
<1> DEFINE r == asking[a].raffle
           left == raffle[r].winners \ Numbers(asking[a].doomed)
<1>2. r \in Raffles
  BY RequestFields DEF Shapes, cancel
<1>3. /\ ~Locked(r)
      /\ raffle' = [raffle EXCEPT ![r].status = "cancelled", ![r].next = 1, ![r].winners = left]
  BY DEF cancel
<1>4. raffle[r].status # "open" => "status" \in raced'
  <2>1. asking[a].was = "open"
    BY RequestFields DEF Shapes, cancel
  <2> QED
    BY <2>1 DEF cancel, Flag
<1> HIDE DEF left
<1> DEFINE R1 == [raffle EXCEPT ![r].status = "cancelled"]
           R2 == [R1 EXCEPT ![r].next = 1]
           R3 == [R2 EXCEPT ![r].winners = left]
<1>6. raffle' = R3 /\ r = asking[a].raffle
  BY <1>3
<1> HIDE DEF r
<1>7. /\ R1 \in [Raffles -> RowIn(N, W)] /\ \A s \in Raffles \ {r} : R1[s] = raffle[s]
      /\ R1[r].status = "cancelled"
  BY <1>1, <1>2 DEF RowIn
<1> HIDE DEF R1
<1>8. /\ R2 \in [Raffles -> RowIn(N \cup {1}, W)] /\ \A s \in Raffles \ {r} : R2[s] = R1[s]
      /\ R2[r].status = R1[r].status
  BY <1>2, <1>7 DEF RowIn
<1> HIDE DEF R2
<1>9. /\ R3 \in [Raffles -> RowIn(N \cup {1}, W \cup {left})]
      /\ \A s \in Raffles \ {r} : R3[s] = R2[s]
      /\ R3[r].status = R2[r].status
  BY <1>2, <1>8 DEF RowIn
<1> HIDE DEF R3
<1>10. RowsAre'
  BY <1>6, <1>9 DEF RowsAre
<1>11. OnlyRow(r) /\ raffle'[r].status = "cancelled"
  BY <1>6, <1>7, <1>8, <1>9 DEF OnlyRow
<1> QED
  BY <1>2, <1>3, <1>4, <1>6, <1>10, <1>11, Zenon

LEMMA ReopenEffect ==
  ASSUME Shapes, NEW a \in Admins, reopen(a)
  PROVE  /\ RowsAre'
         /\ \E r \in Raffles :
              /\ ~Locked(r) /\ OnlyRow(r)
              /\ raffle'[r].status = "open"
              /\ raffle'[r].starts = raffle[r].starts /\ raffle'[r].ends = raffle[r].ends
              /\ raffle[r].status # "cancelled" => "status" \in raced'
              /\ findWindowConflict(raffle, raffle[r], r) # {} => "window" \in raced'
              /\ \E R : /\ R[r].cents \in Prices
                        /\ \E b \in Backfills(R, r) :
                             /\ entries' = entries \cup b.blocks
                             /\ granted' = [d \in Donations |-> granted[d] \/ d \in b.donors]
<1>1. PICK N, W : raffle \in [Raffles -> RowIn(N, W)]
  BY DEF Shapes
<1> DEFINE r == asking[a].raffle
           R == [raffle EXCEPT ![r].status = "open"]
<1>2. r \in Raffles
  BY RequestFields DEF Shapes, reopen
<1>3. PICK b \in Backfills(R, r) :
        /\ raffle' = [R EXCEPT ![r].next = b.next]
        /\ entries' = entries \cup b.blocks
        /\ granted' = [d \in Donations |-> granted[d] \/ d \in b.donors]
  BY Zenon DEF reopen
<1> DEFINE rows == asking[a].rows
<1>0. FreeIn(rows, rows[r], r) /\ rows[r].status = "cancelled"
  BY RequestFields DEF Shapes, reopen
<1>a. /\ ~Locked(r)
      /\ raffle[r].status # rows[r].status => "status" \in raced'
      /\ (\/ Unseen(rows, r) # {}
          \/ raffle[r].starts # rows[r].starts
          \/ raffle[r].ends # rows[r].ends) => "window" \in raced'
  BY DEF reopen, Flag
<1> HIDE DEF r, rows
<1>4. /\ ~Locked(r)
      /\ raffle[r].status # "cancelled" => "status" \in raced'
      /\ findWindowConflict(raffle, raffle[r], r) # {} => "window" \in raced'
  <2>1. ASSUME Unseen(rows, r) = {}, raffle[r].starts = rows[r].starts,
               raffle[r].ends = rows[r].ends
        PROVE  findWindowConflict(raffle, raffle[r], r) = {}
    <3>1. findWindowConflict(raffle, rows[r], r) = {}
      BY <1>0, <1>2, <2>1, RowFields, SeenIsFree
    <3> QED
      BY <2>1, <3>1 DEF findWindowConflict, Overlap
  <2> QED
    BY <1>0, <1>a, <2>1
<1>5. /\ R \in [Raffles -> RowIn(N, W)] /\ \A s \in Raffles \ {r} : R[s] = raffle[s]
      /\ R[r].status = "open" /\ R[r].starts = raffle[r].starts /\ R[r].ends = raffle[r].ends
      /\ R[r].cents \in Prices
  BY <1>1, <1>2 DEF RowIn
<1> HIDE DEF R
<1>6. /\ raffle' \in [Raffles -> RowIn(N \cup {b.next}, W)]
      /\ \A s \in Raffles \ {r} : raffle'[s] = R[s]
      /\ raffle'[r].status = R[r].status
      /\ raffle'[r].starts = R[r].starts /\ raffle'[r].ends = R[r].ends
  BY <1>2, <1>3, <1>5 DEF RowIn
<1>7. RowsAre'
  BY <1>6 DEF RowsAre
<1>8. /\ OnlyRow(r) /\ raffle'[r].status = "open"
      /\ raffle'[r].starts = raffle[r].starts /\ raffle'[r].ends = raffle[r].ends
  BY <1>5, <1>6 DEF OnlyRow
<1>9. \E Q : /\ Q[r].cents \in Prices
             /\ \E k \in Backfills(Q, r) :
                  /\ entries' = entries \cup k.blocks
                  /\ granted' = [d \in Donations |-> granted[d] \/ d \in k.donors]
  BY <1>3, <1>5, Zenon
<1> QED
  BY <1>2, <1>4, <1>7, <1>8, <1>9, Zenon

LEMMA DrawEffect ==
  ASSUME Shapes, NEW a \in Admins, draw(a)
  PROVE  /\ RowsAre'
         /\ \E r \in Raffles :
              /\ r = asking[a].raffle /\ OnlyRow(r)
              /\ raffle'[r].status = "drawn" /\ raffle'[r].starts = raffle[r].starts
              /\ raffle'[r].ends \in 1..raffle[r].ends
              /\ raffle'[r].winners \in drawWinners(Numbers(asking[a].seen))
<1>1. PICK N, W : raffle \in [Raffles -> RowIn(N, W)]
  BY DEF Shapes
<1> DEFINE r == asking[a].raffle
           end == IF raffle[r].ends = Forever THEN asking[a].at ELSE raffle[r].ends
<1>2. r \in Raffles /\ asking[a].at \in Times
  BY RequestFields DEF Shapes, draw
<1>3. PICK winners \in drawWinners(Numbers(asking[a].seen)) :
        raffle' = [raffle EXCEPT ![r].status = "drawn", ![r].winners = winners,
                                 ![r].ends = IF @ = Forever THEN asking[a].at ELSE @]
  BY Zenon DEF draw
<1> DEFINE R1 == [raffle EXCEPT ![r].status = "drawn"]
           R2 == [R1 EXCEPT ![r].winners = winners]
           R3 == [R2 EXCEPT ![r].ends = IF @ = Forever THEN asking[a].at ELSE @]
<1>4. raffle' = R3 /\ r = asking[a].raffle
  BY <1>3
<1> HIDE DEF r
<1>5. /\ R1 \in [Raffles -> RowIn(N, W)] /\ \A s \in Raffles \ {r} : R1[s] = raffle[s]
      /\ R1[r].status = "drawn"
      /\ R1[r].starts = raffle[r].starts /\ R1[r].ends = raffle[r].ends
  BY <1>1, <1>2 DEF RowIn
<1> HIDE DEF R1
<1>6. /\ R2 \in [Raffles -> RowIn(N, W \cup {winners})]
      /\ \A s \in Raffles \ {r} : R2[s] = R1[s]
      /\ R2[r].status = "drawn" /\ R2[r].winners = winners
      /\ R2[r].starts = R1[r].starts /\ R2[r].ends = R1[r].ends
  BY <1>2, <1>5 DEF RowIn
<1> HIDE DEF R2
<1>7. /\ R3 \in [Raffles -> RowIn(N, W \cup {winners})]
      /\ \A s \in Raffles \ {r} : R3[s] = R2[s]
      /\ R3[r].status = "drawn" /\ R3[r].winners = winners /\ R3[r].starts = R2[r].starts
      /\ R3[r].ends = IF R2[r].ends = Forever THEN asking[a].at ELSE R2[r].ends
  BY <1>2, <1>6, TimesAreNaturals DEF RowIn
<1> HIDE DEF R3
<1>8. raffle[r].ends \in 1..Forever
  BY <1>1, <1>2 DEF RowIn
<1>9. raffle'[r].ends \in 1..raffle[r].ends
  BY <1>2, <1>4, <1>5, <1>6, <1>7, <1>8, TimesAreNaturals DEF Times
<1>10. RowsAre'
  BY <1>4, <1>7 DEF RowsAre
<1>11. /\ OnlyRow(r) /\ raffle'[r].status = "drawn" /\ raffle'[r].starts = raffle[r].starts
       /\ raffle'[r].winners = winners
  BY <1>4, <1>5, <1>6, <1>7 DEF OnlyRow
<1> QED
  BY <1>2, <1>3, <1>4, <1>9, <1>10, <1>11, Zenon

-----------------------------------------------------------------------------
(* The steps, by what they write.                                          *)

(* The rows, the entries and the grants stay; requests may move.           *)
Reads == UNCHANGED <<raffle, entries, granted, pool, raced>>

LEMMA StepCases ==
  ASSUME [RafflesNext]_raffleVars
  PROVE  \/ Reads
         \/ \E d \in Donations : donationRefunded(d)
         \/ \E w \in Relays : grantWithinTx(w)
         \/ \E a \in Admins : create(a) \/ updateConfig(a) \/ cancel(a) \/ reopen(a) \/ draw(a)
<1>1. CASE UNCHANGED raffleVars
  BY <1>1 DEF raffleVars, Reads
<1>2. CASE Tick
  BY <1>2 DEF Tick, Reads
<1>3. ASSUME NEW d \in Donations, donationPaid(d) \/ grantNothing(d)
      PROVE  Reads
  BY <1>3 DEF donationPaid, grantNothing, Reads
<1>4. ASSUME NEW w \in Relays, NEW d \in Donations, grantRead(w, d)
      PROVE  Reads
  BY <1>4 DEF grantRead, Reads
<1>5. ASSUME NEW a \in Admins,
             \/ \E c \in Config : createCheck(a, c) \/ (\E r \in Raffles : putCheck(a, r, c))
             \/ \E r \in Raffles : cancelAsk(a, r) \/ reopenRead(a, r) \/ drawClaim(a, r)
             \/ cancelDelete(a) \/ requestAbort(a)
      PROVE  Reads
  BY <1>5 DEF createCheck, putCheck, cancelAsk, reopenRead, drawClaim, cancelDelete,
              requestAbort, Ask, Reads
<1> QED
  BY <1>1, <1>2, <1>3, <1>4, <1>5 DEF RafflesNext

(* The tables few steps write.                                             *)
LEMMA Unwritten ==
  ASSUME [RafflesNext]_raffleVars
  PROVE  /\ now' = now \/ Tick
         /\ donation' = donation \/ \E d \in Donations : donationPaid(d) \/ donationRefunded(d)
         /\ grant' = grant \/ \E w \in Relays : (\E d \in Donations : grantRead(w, d))
                                              \/ grantWithinTx(w)
<1>1. CASE UNCHANGED raffleVars
  BY <1>1 DEF raffleVars
<1>2. CASE Tick
  BY <1>2 DEF Tick
<1>3. ASSUME NEW d \in Donations, donationPaid(d) \/ donationRefunded(d) \/ grantNothing(d)
      PROVE  now' = now /\ (donation' = donation \/ donationPaid(d) \/ donationRefunded(d)) /\ grant' = grant
  BY <1>3 DEF donationPaid, donationRefunded, grantNothing
<1>4. ASSUME NEW w \in Relays, (\E d \in Donations : grantRead(w, d)) \/ grantWithinTx(w)
      PROVE  now' = now /\ donation' = donation
  BY <1>4 DEF grantRead, grantWithinTx
<1>5. ASSUME NEW a \in Admins,
             \/ \E c \in Config : createCheck(a, c) \/ (\E r \in Raffles : putCheck(a, r, c))
             \/ \E r \in Raffles : cancelAsk(a, r) \/ reopenRead(a, r) \/ drawClaim(a, r)
             \/ cancelDelete(a) \/ requestAbort(a)
      PROVE  now' = now /\ donation' = donation /\ grant' = grant
  BY <1>5 DEF createCheck, putCheck, cancelAsk, reopenRead, drawClaim, cancelDelete,
              requestAbort, Ask
<1>6. ASSUME NEW a \in Admins, create(a) \/ updateConfig(a) \/ cancel(a) \/ reopen(a) \/ draw(a)
      PROVE  now' = now /\ donation' = donation /\ grant' = grant
  BY <1>6 DEF create, updateConfig, cancel, reopen, draw
<1> QED
  BY <1>1, <1>2, <1>3, <1>4, <1>5, <1>6 DEF RafflesNext

(* The two steps of a request that take locks: a cancellation deletes the  *)
(* entries, a draw claims the row.                                         *)
Deletes(a) ==
  \E r \in Raffles : \E D :
    /\ asking'[a] = [op |-> "cancelling", raffle |-> r, was |-> "open", seen |-> D,
                     doomed |-> EntriesOf(r)]
    /\ EntriesOf(r) \cap Doomed = {}
    /\ Reads /\ \A b \in Admins \ {a} : asking'[b] = asking[b]

Claims(a) ==
  \E r \in Raffles :
    /\ asking'[a] = [op |-> "draw", raffle |-> r, at |-> now, seen |-> EntriesOf(r)]
    /\ raffle[r].status = "open" /\ ~Locked(r)
    /\ Reads /\ \A b \in Admins \ {a} : asking'[b] = asking[b]

(* How a request moves: it begins, deletes its entries, or ends.           *)
LEMMA RequestMoves ==
  ASSUME Shapes, [RafflesNext]_raffleVars, NEW a \in Admins
  PROVE  /\ asking' = [b \in Admins |-> asking'[b]]
         /\ \/ asking'[a] = asking[a]
            \/ asking'[a] = NoRequest
            \/ asking'[a].op \in {"create", "put", "cancel", "reopen"} /\ IsRequest(asking'[a])
            \/ Deletes(a)
            \/ Claims(a)
<1>1. CASE asking' = asking
  BY <1>1 DEF Shapes
<1>2. CASE \E b \in Admins : Done(b)
  BY <1>2 DEF Done, Shapes
<1>3. ASSUME NEW b \in Admins, NEW c \in Config,
             createCheck(b, c) \/ (\E r \in Raffles : putCheck(b, r, c))
      PROVE  /\ asking' = [k \in Admins |-> asking'[k]]
             /\ \/ asking'[a] = asking[a]
                \/ asking'[a].op \in {"create", "put"} /\ IsRequest(asking'[a])
  <2>1. FreeIn(raffle, c, 0) /\ createCheck(b, c) =>
          \E q : asking' = [asking EXCEPT ![b] = q] /\ q.op = "create" /\ IsRequest(q)
    <3> SUFFICES ASSUME FreeIn(raffle, c, 0), createCheck(b, c)
                 PROVE  \E q : /\ asking' = [asking EXCEPT ![b] = q]
                               /\ q.op = "create" /\ IsRequest(q)
      OBVIOUS
    <3> DEFINE q == [op |-> "create", config |-> c, rows |-> raffle]
    <3>1. asking' = [asking EXCEPT ![b] = q]
      BY DEF createCheck, Ask
    <3>2. q.op = "create"
      OBVIOUS
    <3>3. IsRequest(q)
      BY Zenon DEF IsRequest
    <3> QED
      BY <3>1, <3>2, <3>3, Zenon
  <2>2. createCheck(b, c) => FreeIn(raffle, c, 0)
    BY DEF createCheck, FreeIn, Shapes
  <2>3. ASSUME NEW r \in Raffles, putCheck(b, r, c)
        PROVE  \E q : asking' = [asking EXCEPT ![b] = q] /\ q.op = "put" /\ IsRequest(q)
    <3> DEFINE q == [op |-> "put", raffle |-> r, config |-> c, rows |-> raffle,
                     taken |-> EntriesOf(r) # {}]
    <3>1. asking' = [asking EXCEPT ![b] = q]
      BY <2>3 DEF putCheck, Ask
    <3>2. q.op = "put"
      OBVIOUS
    <3>3. FreeIn(raffle, c, r) /\ raffle[r].status = "open"
      BY <2>3 DEF putCheck, FreeIn, Shapes
    <3>4. IsRequest(q)
      BY <3>3, Zenon DEF IsRequest
    <3> QED
      BY <3>1, <3>2, <3>4, Zenon
  <2>4. PICK q : /\ asking' = [asking EXCEPT ![b] = q]
                 /\ q.op \in {"create", "put"} /\ IsRequest(q)
    BY <1>3, <2>1, <2>2, <2>3, Zenon
  <2> QED
    BY <2>4 DEF Shapes
<1>4. ASSUME NEW b \in Admins, NEW r \in Raffles, cancelAsk(b, r) \/ reopenRead(b, r)
      PROVE  /\ asking' = [k \in Admins |-> asking'[k]]
             /\ \/ asking'[a] = asking[a]
                \/ asking'[a].op \in {"cancel", "reopen"} /\ IsRequest(asking'[a])
  <2>1. CASE cancelAsk(b, r)
    <3> DEFINE q == [op |-> "cancel", raffle |-> r, was |-> "open",
                     seen |-> Donors(EntriesOf(r))]
    <3>1. asking' = [asking EXCEPT ![b] = q]
      BY <2>1 DEF cancelAsk, Ask
    <3>2. q.op = "cancel"
      OBVIOUS
    <3>3. IsRequest(q)
      BY Zenon DEF IsRequest
    <3> HIDE DEF q
    <3> QED
      BY <3>1, <3>2, <3>3 DEF Shapes
  <2>2. CASE reopenRead(b, r)
    <3> DEFINE q == [op |-> "reopen", raffle |-> r, rows |-> raffle]
    <3>1. asking' = [asking EXCEPT ![b] = q]
      BY <2>2 DEF reopenRead, Ask
    <3>2. q.op = "reopen"
      OBVIOUS
    <3>3. FreeIn(raffle, raffle[r], r) /\ raffle[r].status = "cancelled"
      BY <2>2 DEF reopenRead, FreeIn, Shapes
    <3>4. IsRequest(q)
      BY <3>3, Zenon DEF IsRequest
    <3> HIDE DEF q
    <3> QED
      BY <3>1, <3>2, <3>4 DEF Shapes
  <2> QED
    BY <1>4, <2>1, <2>2
<1>5. ASSUME NEW b \in Admins, NEW r \in Raffles, drawClaim(b, r)
      PROVE  /\ asking' = [k \in Admins |-> asking'[k]]
             /\ \A k \in Admins \ {b} : asking'[k] = asking[k]
             /\ Claims(b)
  BY <1>5 DEF drawClaim, Ask, Shapes, Reads, Claims
<1>6. ASSUME NEW b \in Admins, cancelDelete(b)
      PROVE  /\ asking' = [k \in Admins |-> asking'[k]]
             /\ \A k \in Admins \ {b} : asking'[k] = asking[k]
             /\ Deletes(b)
  <2>1. asking[b].raffle \in Raffles /\ asking[b].was = "open"
    BY <1>6, RequestFields DEF cancelDelete, Shapes
  <2> QED
    BY <1>6, <2>1 DEF cancelDelete, Shapes, Reads, Deletes
<1>7. CASE \E b \in Admins : \E r \in Raffles : drawClaim(b, r)
  BY <1>5, <1>7
<1>8. CASE \E b \in Admins : cancelDelete(b)
  BY <1>6, <1>8
<1>9. \/ asking' = asking \/ \E b \in Admins : Done(b)
      \/ \E b \in Admins, c \in Config : createCheck(b, c) \/ (\E r \in Raffles : putCheck(b, r, c))
      \/ \E b \in Admins, r \in Raffles : cancelAsk(b, r) \/ reopenRead(b, r) \/ drawClaim(b, r)
      \/ \E b \in Admins : cancelDelete(b)
  <2>1. CASE UNCHANGED raffleVars \/ Tick
    BY <2>1 DEF raffleVars, Tick
  <2>2. CASE \E d \in Donations : donationPaid(d) \/ donationRefunded(d) \/ grantNothing(d)
    BY <2>2 DEF donationPaid, donationRefunded, grantNothing
  <2>3. CASE \E w \in Relays : (\E d \in Donations : grantRead(w, d)) \/ grantWithinTx(w)
    BY <2>3 DEF grantRead, grantWithinTx
  <2>4. ASSUME NEW b \in Admins,
               create(b) \/ updateConfig(b) \/ cancel(b) \/ reopen(b) \/ draw(b) \/ requestAbort(b)
        PROVE  Done(b)
    BY <2>4 DEF create, updateConfig, cancel, reopen, draw, requestAbort
  <2> QED
    BY <2>1, <2>2, <2>3, <2>4, Zenon DEF RafflesNext
<1> QED
  BY <1>1, <1>2, <1>3, <1>4, <1>7, <1>8, <1>9

LEMMA DeliveryFields ==
  ASSUME Shapes, NEW w \in Relays, grantWithinTx(w)
  PROVE  grant[w].donation \in Donations /\ grant[w].raffle \in Raffles
  BY DEF Shapes, Delivery, NoRequest, grantWithinTx

LEMMA BlockFields ==
  ASSUME NEW r, NEW d, NEW start, NEW count, NEW e \in Block(r, d, start, count)
  PROVE  e.raffle = r /\ e.donation = d
  BY DEF Block

LEMMA ShapesStep ==
  ASSUME Shapes, [RafflesNext]_raffleVars
  PROVE  Shapes'
<1>1. now' \in Times
  <2>1. CASE Tick
    BY <2>1, TimesAreNaturals DEF Tick, Times, Shapes
  <2>2. CASE now' = now
    BY <2>2 DEF Shapes
  <2> QED
    BY Unwritten, <2>1, <2>2, Zenon
<1>2. donation' \in [Donations -> {"none", "paid", "refunded"}]
  <2>1. CASE \E d \in Donations : donationPaid(d) \/ donationRefunded(d)
    BY <2>1 DEF Shapes, donationPaid, donationRefunded
  <2>2. CASE donation' = donation
    BY <2>2 DEF Shapes
  <2> QED
    BY Unwritten, <2>1, <2>2, Zenon
<1>3. granted' \in [Donations -> BOOLEAN]
  <2>1. CASE Reads
    BY <2>1 DEF Reads, Shapes
  <2>2. CASE \E d \in Donations : donationRefunded(d)
    BY <2>2 DEF donationRefunded, Shapes
  <2>3. CASE \E w \in Relays : grantWithinTx(w)
    BY <2>3 DEF grantWithinTx, Shapes
  <2>4. CASE \E a \in Admins : create(a) \/ reopen(a)
    <3>1. PICK D : granted' = [d \in Donations |-> granted[d] \/ d \in D]
      BY <2>4, Zenon DEF create, reopen
    <3> QED
      BY <3>1
  <2>5. ASSUME NEW a \in Admins, updateConfig(a) \/ cancel(a) \/ draw(a)
        PROVE  granted' \in [Donations -> BOOLEAN]
    BY <2>5 DEF updateConfig, cancel, draw, Shapes
  <2> QED
    BY StepCases, <2>1, <2>2, <2>3, <2>4, <2>5, Zenon
<1>4. RowsAre'
  <2>1. CASE Reads \/ \E d \in Donations : donationRefunded(d)
    BY <2>1 DEF Reads, donationRefunded, Shapes, RowsAre
  <2>2. ASSUME NEW w \in Relays, grantWithinTx(w)
        PROVE  RowsAre'
    BY <2>2, DeliveryFields, GrantEffect
  <2>3. ASSUME NEW a \in Admins,
               create(a) \/ updateConfig(a) \/ cancel(a) \/ reopen(a) \/ draw(a)
        PROVE  RowsAre'
    BY <2>3, CreateEffect, UpdateEffect, CancelEffect, ReopenEffect, DrawEffect, Zenon
  <2> QED
    BY StepCases, <2>1, <2>2, <2>3, Zenon
<1>5. pool' = [r \in Raffles |-> pool'[r]]
  <2>1. CASE \E a \in Admins : draw(a)
    BY <2>1 DEF draw, Shapes
  <2>2. CASE pool' = pool
    BY <2>2 DEF Shapes
  <2> QED
    BY StepCases, <2>1, <2>2 DEF Reads, donationRefunded, grantWithinTx, create, updateConfig, cancel,
                                 reopen
<1>6. ASSUME NEW a \in Admins
      PROVE  IsRequest(asking'[a])
  <2>1. CASE asking'[a] = asking[a] \/ asking'[a] = NoRequest \/ IsRequest(asking'[a])
    <3>1. IsRequest(asking[a]) /\ IsRequest(NoRequest)
      BY DEF IsRequest, Shapes
    <3> QED
      BY <2>1, <3>1
  <2>2. CASE Deletes(a)
    <3>1. \E r \in Raffles : \E D, E :
            asking'[a] = [op |-> "cancelling", raffle |-> r, was |-> "open", seen |-> D,
                          doomed |-> E]
      BY <2>2, Zenon DEF Deletes
    <3> QED
      BY <3>1, Zenon DEF IsRequest
  <2>3. CASE Claims(a)
    <3>1. now \in Times
      BY DEF Shapes
    <3>2. \E r \in Raffles : \E E :
            asking'[a] = [op |-> "draw", raffle |-> r, at |-> now, seen |-> E]
      BY <2>3, Zenon DEF Claims
    <3> QED
      BY <3>1, <3>2, Zenon DEF IsRequest
  <2> QED
    BY RequestMoves, <2>1, <2>2, <2>3
<1>7. asking' = [a \in Admins |-> asking'[a]]
  <2>1. CASE Admins = {}
    <3>1. asking' = asking
      BY <2>1 DEF RafflesNext, raffleVars, Tick, donationPaid, donationRefunded, grantNothing, grantRead,
                  grantWithinTx
    <3> QED
      BY <3>1 DEF Shapes
  <2>2. CASE \E a \in Admins : TRUE
    BY <2>2, RequestMoves
  <2> QED
    BY <2>1, <2>2
<1>8. grant' \in [Relays -> Delivery]
  <2>1. ASSUME NEW w \in Relays, NEW d \in Donations, grantRead(w, d)
        PROVE  grant' \in [Relays -> Delivery]
    <3>1. PICK r \in Raffles :
            grant' = [grant EXCEPT ![w] = [op |-> "grant", donation |-> d, raffle |-> r,
                                           cents |-> raffle[r].cents]]
      BY <2>1 DEF grantRead, resolveRaffleForDonation
    <3>2. raffle[r].cents \in Prices
      BY RowFields
    <3> QED
      BY <3>1, <3>2 DEF Delivery, Shapes
  <2>2. CASE \E w \in Relays : grantWithinTx(w)
    BY <2>2 DEF grantWithinTx, Delivery, Shapes
  <2>3. CASE grant' = grant
    BY <2>3 DEF Shapes
  <2> QED
    BY Unwritten, <2>1, <2>2, <2>3, Zenon
<1>9. \A e \in entries' : e.raffle \in Raffles /\ e.donation \in Donations
  <2>1. CASE entries' \subseteq entries
    BY <2>1 DEF Shapes
  <2>2. ASSUME NEW w \in Relays, grantWithinTx(w)
        PROVE  \A e \in entries' : e.raffle \in Raffles /\ e.donation \in Donations
    <3> DEFINE r == grant[w].raffle
               d == grant[w].donation
    <3>1. PICK count : \/ entries' = entries
                       \/ entries' = entries \cup Block(r, d, raffle[r].next, count)
      BY <2>2, Zenon DEF grantWithinTx
    <3>2. r \in Raffles /\ d \in Donations
      BY <2>2, DeliveryFields
    <3> QED
      BY <3>1, <3>2, BlockFields DEF Shapes
  <2>3. ASSUME NEW a \in Admins, create(a)
        PROVE  \A e \in entries' : e.raffle \in Raffles /\ e.donation \in Donations
    <3>1. PICK r \in Raffles, c \in Config :
            \E b \in Backfills([raffle EXCEPT ![r] = RowOf(c)], r) :
              entries' = entries \cup b.blocks
      BY <2>3, CreateEffect, Zenon
    <3> DEFINE R == [raffle EXCEPT ![r] = RowOf(c)]
    <3>2. R[r].cents \in Prices
      BY ConfigFields DEF RowOf, Shapes
    <3> HIDE DEF R
    <3>3. \E b \in Backfills(R, r) : entries' = entries \cup b.blocks
      BY <3>1 DEF R
    <3> QED
      BY <3>2, <3>3, BackfillsFacts DEF Shapes
  <2>4. ASSUME NEW a \in Admins, reopen(a)
        PROVE  \A e \in entries' : e.raffle \in Raffles /\ e.donation \in Donations
    <3>1. PICK r \in Raffles :
            \E R : R[r].cents \in Prices /\ \E b \in Backfills(R, r) :
                     entries' = entries \cup b.blocks
      BY <2>4, ReopenEffect, Zenon
    <3> QED
      BY <3>1, BackfillsFacts DEF Shapes
  <2>5. ASSUME NEW a \in Admins, updateConfig(a) \/ cancel(a) \/ draw(a)
        PROVE  entries' \subseteq entries
    BY <2>5 DEF updateConfig, cancel, draw
  <2>6. CASE Reads \/ \E d \in Donations : donationRefunded(d)
    BY <2>1, <2>6 DEF Reads, donationRefunded
  <2> QED
    BY StepCases, <2>1, <2>2, <2>3, <2>4, <2>5, <2>6, Zenon
<1> QED
  BY <1>1, <1>2, <1>3, <1>4, <1>5, <1>6, <1>7, <1>8, <1>9 DEF Shapes, RowsAre

LEMMA ShapesInit == RafflesInit => Shapes
<1> SUFFICES ASSUME RafflesInit PROVE Shapes
  OBVIOUS
<1>1. raffle \in [Raffles -> RowIn({1}, {{}})]
  <2>1. ASSUME NEW c \in Config
        PROVE  RowOf(c) \in RowIn({1}, {{}})
    BY <2>1, ConfigFields DEF RowOf, RowIn
  <2> QED
    BY <2>1, NoRowIsARow DEF RafflesInit, FirstRaffle
<1>2. /\ now \in Times /\ donation \in [Donations -> {"none", "paid", "refunded"}]
      /\ granted \in [Donations -> BOOLEAN] /\ grant \in [Relays -> Delivery]
      /\ pool = [r \in Raffles |-> pool[r]] /\ asking = [a \in Admins |-> asking[a]]
      /\ \A a \in Admins : IsRequest(asking[a])
      /\ entries = {}
  BY TimesAreNaturals DEF RafflesInit, Delivery, IsRequest
<1> QED
  BY <1>1, <1>2 DEF Shapes

-----------------------------------------------------------------------------
(* The locks.                                                              *)

(* A raffle that is being drawn is open, and drawn by one request.         *)
DrawsHoldTheirRow ==
  /\ \A a \in Admins : asking[a].op = "draw" => raffle[asking[a].raffle].status = "open"
  /\ \A a, b \in Admins :
       /\ asking[a].op = "draw" /\ asking[b].op = "draw"
       /\ asking[a].raffle = asking[b].raffle
       => a = b

(* Entries that a request has deleted are still there for the others, and  *)
(* no one else's.                                                          *)
DeletionsHoldTheirEntries ==
  /\ \A a \in Admins : asking[a].op = "cancelling" =>
       /\ asking[a].doomed \subseteq entries
       /\ \A e \in asking[a].doomed : e.raffle = asking[a].raffle
  /\ \A a, b \in Admins :
       asking[a].op = "cancelling" /\ asking[b].op = "cancelling" /\ a # b =>
         asking[a].doomed \cap asking[b].doomed = {}

LEMMA DrawsHoldTheirRowStep ==
  ASSUME Shapes, DrawsHoldTheirRow, [RafflesNext]_raffleVars
  PROVE  DrawsHoldTheirRow'
<1>1. ASSUME NEW a \in Admins, Claims(a)
      PROVE  DrawsHoldTheirRow'
  BY <1>1 DEF DrawsHoldTheirRow, Locked, Reads, Claims
<1>2. CASE \A a \in Admins : asking'[a] = asking[a] \/ asking'[a].op # "draw"
  <2>1. ASSUME NEW a \in Admins, asking'[a] = asking[a], asking[a].op = "draw"
        PROVE  raffle'[asking[a].raffle].status = "open"
    <3> DEFINE s == asking[a].raffle
    <3>1. s \in Raffles /\ raffle[s].status = "open" /\ Locked(s)
      BY <2>1, RequestFields DEF Shapes, DrawsHoldTheirRow, Locked
    <3>2. CASE Reads \/ \E d \in Donations : donationRefunded(d)
      BY <3>1, <3>2 DEF Reads, donationRefunded
    <3>3. ASSUME NEW w \in Relays, grantWithinTx(w)
          PROVE  raffle'[s].status = "open"
      BY <3>1, <3>3, DeliveryFields, GrantEffect
    <3>4. ASSUME NEW b \in Admins, create(b)
          PROVE  raffle'[s].status = "open"
      BY <3>1, <3>4, CreateEffect DEF OnlyRow
    <3>5. ASSUME NEW b \in Admins, updateConfig(b)
          PROVE  raffle'[s].status = "open"
      BY <3>1, <3>5, UpdateEffect DEF OnlyRow
    <3>6. ASSUME NEW b \in Admins, cancel(b)
          PROVE  raffle'[s].status = "open"
      BY <3>1, <3>6, CancelEffect DEF OnlyRow
    <3>7. ASSUME NEW b \in Admins, reopen(b)
          PROVE  raffle'[s].status = "open"
      BY <3>1, <3>7, ReopenEffect DEF OnlyRow
    <3>8. ASSUME NEW b \in Admins, draw(b)
          PROVE  raffle'[s].status = "open"
      <4>1. asking[b].op = "draw" /\ asking'[b].op = "none"
        BY <3>8 DEF draw, Done, Shapes, NoRequest
      <4>2. a # b
        BY <2>1, <4>1
      <4>3. asking[b].raffle # s
        BY <2>1, <4>1, <4>2 DEF DrawsHoldTheirRow
      <4> QED
        BY <3>1, <3>8, <4>3, DrawEffect DEF OnlyRow
    <3> QED
      BY StepCases, <3>2, <3>3, <3>4, <3>5, <3>6, <3>7, <3>8, Zenon
  <2> QED
    BY <1>2, <2>1 DEF DrawsHoldTheirRow
<1>3. ASSUME NEW a \in Admins, ~Claims(a)
      PROVE  asking'[a] = asking[a] \/ asking'[a].op # "draw"
  <2>1. NoRequest.op = "none"
    BY DEF NoRequest
  <2>2. Deletes(a) => asking'[a].op = "cancelling"
    BY DEF Deletes
  <2> QED
    BY <1>3, <2>1, <2>2, RequestMoves
<1> QED
  BY <1>1, <1>2, <1>3, Zenon

LEMMA DeletionsHoldTheirEntriesStep ==
  ASSUME Shapes, DeletionsHoldTheirEntries, [RafflesNext]_raffleVars
  PROVE  DeletionsHoldTheirEntries'
<1>1. ASSUME NEW a \in Admins, Deletes(a)
      PROVE  DeletionsHoldTheirEntries'
  <2>0. PICK r \in Raffles :
          /\ asking'[a].doomed = EntriesOf(r) /\ asking'[a].raffle = r
          /\ EntriesOf(r) \cap Doomed = {}
    BY <1>1 DEF Deletes
  <2>1. \A b \in Admins \ {a} :
          asking[b].op = "cancelling" => EntriesOf(r) \cap asking[b].doomed = {}
    BY <2>0 DEF Doomed
  <2>2. entries' = entries /\ \A b \in Admins \ {a} : asking'[b] = asking[b]
    BY <1>1 DEF Reads, Deletes
  <2>3. EntriesOf(r) \subseteq entries /\ \A e \in EntriesOf(r) : e.raffle = r
    BY DEF EntriesOf
  <2> HIDE DEF EntriesOf
  <2> QED
    BY <2>0, <2>1, <2>2, <2>3 DEF DeletionsHoldTheirEntries
<1>2. CASE \A a \in Admins : asking'[a] = asking[a] \/ asking'[a].op # "cancelling"
  <2>1. ASSUME NEW a \in Admins, asking'[a] = asking[a], asking[a].op = "cancelling"
        PROVE  asking[a].doomed \subseteq entries'
    <3>0. asking[a].doomed \subseteq entries
      BY <2>1 DEF DeletionsHoldTheirEntries
    <3>1. CASE entries \subseteq entries'
      BY <3>0, <3>1
    <3>2. ASSUME NEW d \in Donations, donationRefunded(d)
          PROVE  asking[a].doomed \subseteq entries'
      <4>1. asking[a].doomed \subseteq Doomed
        BY <2>1 DEF Doomed
      <4> QED
        BY <3>0, <3>2, <4>1 DEF donationRefunded
    <3>3. ASSUME NEW b \in Admins, cancel(b)
          PROVE  asking[a].doomed \subseteq entries'
      <4>1. /\ asking[b].op = "cancelling" /\ asking'[b].op = "none"
            /\ entries' = entries \ asking[b].doomed
        BY <3>3 DEF cancel, Done, Shapes, NoRequest
      <4>2. asking[a].doomed \cap asking[b].doomed = {}
        BY <2>1, <4>1 DEF DeletionsHoldTheirEntries
      <4> QED
        BY <3>0, <4>1, <4>2
    <3>4. ASSUME NEW b \in Admins, create(b) \/ reopen(b) \/ updateConfig(b) \/ draw(b)
          PROVE  entries \subseteq entries'
      BY <3>4 DEF create, reopen, updateConfig, draw
    <3>5. CASE Reads \/ \E w \in Relays : grantWithinTx(w)
      BY <3>1, <3>5 DEF Reads, grantWithinTx
    <3> QED
      BY StepCases, <3>1, <3>2, <3>3, <3>4, <3>5, Zenon
  <2> QED
    BY <1>2, <2>1 DEF DeletionsHoldTheirEntries
<1>3. ASSUME NEW a \in Admins, ~Deletes(a)
      PROVE  asking'[a] = asking[a] \/ asking'[a].op # "cancelling"
  <2>1. NoRequest.op = "none"
    BY DEF NoRequest
  <2>2. Claims(a) => asking'[a].op = "draw"
    BY DEF Claims
  <2> QED
    BY <1>3, <2>1, <2>2, RequestMoves
<1> QED
  BY <1>1, <1>2, <1>3, Zenon

-----------------------------------------------------------------------------
(* Windows.                                                                *)

LEMMA RacedGrows ==
  ASSUME [RafflesNext]_raffleVars
  PROVE  raced \subseteq raced'
<1>1. ASSUME NEW w \in Relays, grantWithinTx(w)
      PROVE  raced \subseteq raced'
  BY <1>1 DEF grantWithinTx
<1>2. ASSUME NEW a \in Admins, create(a) \/ updateConfig(a) \/ cancel(a) \/ reopen(a) \/ draw(a)
      PROVE  raced \subseteq raced'
  BY <1>2 DEF create, updateConfig, cancel, reopen, draw
<1>3. CASE Reads \/ \E d \in Donations : donationRefunded(d)
  BY <1>3 DEF Reads, donationRefunded
<1> QED
  BY StepCases, <1>1, <1>2, <1>3, Zenon

Gone == {"none", "cancelled"}

(* Two rows that may not both be live share no moment.                     *)
Apart(p, q) == p.status \in Gone \/ q.status \in Gone \/ ~Overlap(p, q)

LEMMA WindowsAreApart ==
  WindowsDisjoint <=> ("window" \in raced \/ \A r, s \in Raffles : r # s => Apart(raffle[r], raffle[s]))
  BY DEF WindowsDisjoint, Has, Apart, Gone

(* It is enough to look at the one row that changed.                       *)
LEMMA OneRowApart ==
  ASSUME WindowsDisjoint, raced \subseteq raced', NEW r \in Raffles, OnlyRow(r),
         \/ "window" \in raced'
         \/ \A s \in Raffles \ {r} : Apart(raffle'[r], raffle[s])
  PROVE  WindowsDisjoint'
<1>1. \A p, q : Apart(p, q) <=> Apart(q, p)
  BY DEF Apart, Overlap
<1>2. CASE "window" \in raced'
  BY <1>2 DEF WindowsDisjoint, Has
<1>3. CASE \A s \in Raffles \ {r} : Apart(raffle'[r], raffle[s])
  <2>1. ASSUME NEW s \in Raffles, NEW t \in Raffles, s # t, "window" \notin raced'
        PROVE  Apart(raffle'[s], raffle'[t])
    <3>1. CASE s = r
      BY <1>3, <2>1, <3>1 DEF OnlyRow
    <3>2. CASE t = r
      BY <1>1, <1>3, <2>1, <3>2 DEF OnlyRow
    <3>3. CASE s # r /\ t # r
      BY <2>1, <3>3, WindowsAreApart DEF OnlyRow
    <3> QED
      BY <3>1, <3>2, <3>3
  <2> QED
    BY <2>1 DEF WindowsDisjoint, Has, Apart, Gone
<1> QED
  BY <1>2, <1>3

(* What the check of a window answers.                                     *)
LEMMA NoConflictIsApart ==
  ASSUME Shapes, NEW c, NEW r \in Raffles, findWindowConflict(raffle, c, r) = {}
  PROVE  \A s \in Raffles \ {r} : raffle[s].status \in Gone \/ ~Overlap(raffle[s], c)
  BY RowFields DEF findWindowConflict, Gone

LEMMA WindowsStep ==
  ASSUME Shapes, DrawsHoldTheirRow, WindowsDisjoint, [RafflesNext]_raffleVars
  PROVE  WindowsDisjoint'
<1>0. raced \subseteq raced'
  BY RacedGrows
<1>1. CASE Reads \/ \E d \in Donations : donationRefunded(d)
  BY <1>1 DEF Reads, donationRefunded, WindowsDisjoint, Has
<1>2. ASSUME NEW w \in Relays, grantWithinTx(w)
      PROVE  WindowsDisjoint'
  <2>1. \A r \in Raffles : /\ raffle'[r].status = raffle[r].status
                           /\ raffle'[r].starts = raffle[r].starts
                           /\ raffle'[r].ends = raffle[r].ends
    BY <1>2, DeliveryFields, GrantEffect
  <2> QED
    BY <1>0, <2>1 DEF WindowsDisjoint, Has, Overlap
<1>3. ASSUME NEW a \in Admins, create(a)
      PROVE  WindowsDisjoint'
  <2>1. PICK r \in Raffles, c \in Config :
          /\ OnlyRow(r)
          /\ raffle'[r].starts = c.starts /\ raffle'[r].ends = c.ends
          /\ findWindowConflict(raffle, c, r) # {} => "window" \in raced'
    BY <1>3, CreateEffect, Zenon
  <2>2. CASE findWindowConflict(raffle, c, r) = {}
    <3>1. \A s \in Raffles \ {r} : Apart(raffle'[r], raffle[s])
      BY <2>1, <2>2, NoConflictIsApart DEF Apart, Overlap
    <3> QED
      BY <1>0, <2>1, <3>1, OneRowApart
  <2>3. CASE findWindowConflict(raffle, c, r) # {}
    BY <2>1, <2>3 DEF WindowsDisjoint, Has
  <2> QED
    BY <2>2, <2>3
<1>4. ASSUME NEW a \in Admins, updateConfig(a)
      PROVE  WindowsDisjoint'
  <2>1. PICK r \in Raffles, c \in Config :
          /\ OnlyRow(r)
          /\ raffle'[r].starts = c.starts /\ raffle'[r].ends = c.ends
          /\ findWindowConflict(raffle, c, r) # {} => "window" \in raced'
    BY <1>4, UpdateEffect, Zenon
  <2>2. CASE findWindowConflict(raffle, c, r) = {}
    <3>1. \A s \in Raffles \ {r} : Apart(raffle'[r], raffle[s])
      BY <2>1, <2>2, NoConflictIsApart DEF Apart, Overlap
    <3> QED
      BY <1>0, <2>1, <3>1, OneRowApart
  <2>3. CASE findWindowConflict(raffle, c, r) # {}
    BY <2>1, <2>3 DEF WindowsDisjoint, Has
  <2> QED
    BY <2>2, <2>3
<1>5. ASSUME NEW a \in Admins, cancel(a)
      PROVE  WindowsDisjoint'
  <2>1. PICK r \in Raffles : OnlyRow(r) /\ raffle'[r].status = "cancelled"
    BY <1>5, CancelEffect, Zenon
  <2>2. \A s \in Raffles \ {r} : Apart(raffle'[r], raffle[s])
    BY <2>1 DEF Apart, Gone
  <2> QED
    BY <1>0, <2>1, <2>2, OneRowApart
<1>6. ASSUME NEW a \in Admins, reopen(a)
      PROVE  WindowsDisjoint'
  <2>1. PICK r \in Raffles :
          /\ OnlyRow(r)
          /\ raffle'[r].starts = raffle[r].starts /\ raffle'[r].ends = raffle[r].ends
          /\ findWindowConflict(raffle, raffle[r], r) # {} => "window" \in raced'
    BY <1>6, ReopenEffect, Zenon
  <2>2. CASE findWindowConflict(raffle, raffle[r], r) = {}
    <3>1. \A s \in Raffles \ {r} : Apart(raffle'[r], raffle[s])
      BY <2>1, <2>2, NoConflictIsApart DEF Apart, Overlap
    <3> QED
      BY <1>0, <2>1, <3>1, OneRowApart
  <2>3. CASE findWindowConflict(raffle, raffle[r], r) # {}
    BY <2>1, <2>3 DEF WindowsDisjoint, Has
  <2> QED
    BY <2>2, <2>3
<1>7. ASSUME NEW a \in Admins, draw(a)
      PROVE  WindowsDisjoint'
  <2>1. PICK r \in Raffles :
          /\ r = asking[a].raffle /\ OnlyRow(r)
          /\ raffle'[r].status = "drawn" /\ raffle'[r].starts = raffle[r].starts
          /\ raffle'[r].ends \in 1..raffle[r].ends
    BY <1>7, DrawEffect, Zenon
  <2>2. raffle[r].status = "open"
    BY <1>7, <2>1 DEF draw, DrawsHoldTheirRow
  <2>3. CASE "window" \in raced'
    BY <2>3 DEF WindowsDisjoint, Has
  <2>4. ASSUME NEW s \in Raffles \ {r}, "window" \notin raced'
        PROVE  Apart(raffle'[r], raffle[s])
    <3>1. Apart(raffle[r], raffle[s])
      BY <1>0, <2>4, WindowsAreApart
    <3>2. raffle[s].starts \in Nat /\ raffle[r].ends \in Nat /\ raffle'[r].ends \in Nat
      <4>1. raffle[s].starts \in Times /\ raffle[r].ends \in 1..Forever
        BY RowFields
      <4>2. raffle[s].starts \in 1..Forever
        BY <4>1, TimesAreNaturals
      <4> QED
        BY <2>1, <4>1, <4>2, TimesAreNaturals
    <3> QED
      BY <2>1, <2>2, <3>1, <3>2 DEF Apart, Gone, Overlap
  <2> QED
    BY <1>0, <2>1, <2>3, <2>4, OneRowApart
<1> QED
  BY StepCases, <1>1, <1>2, <1>3, <1>4, <1>5, <1>6, <1>7, Zenon

-----------------------------------------------------------------------------
(* Draws.                                                                  *)

LEMMA DrawStandsStep ==
  ASSUME Shapes, DrawsHoldTheirRow, [RafflesNext]_raffleVars,
         NEW r \in Raffles, raffle[r].status = "drawn", "status" \notin raced'
  PROVE  raffle'[r] = raffle[r]
<1>1. CASE Reads \/ \E d \in Donations : donationRefunded(d)
  BY <1>1 DEF Reads, donationRefunded
<1>2. ASSUME NEW w \in Relays, grantWithinTx(w)
      PROVE  raffle'[r] = raffle[r]
  BY <1>2, DeliveryFields, GrantEffect
<1>3. ASSUME NEW a \in Admins, create(a)
      PROVE  raffle'[r] = raffle[r]
  BY <1>3, CreateEffect DEF OnlyRow
<1>4. ASSUME NEW a \in Admins, updateConfig(a)
      PROVE  raffle'[r] = raffle[r]
  BY <1>4, UpdateEffect DEF OnlyRow
<1>5. ASSUME NEW a \in Admins, cancel(a)
      PROVE  raffle'[r] = raffle[r]
  BY <1>5, CancelEffect DEF OnlyRow
<1>6. ASSUME NEW a \in Admins, reopen(a)
      PROVE  raffle'[r] = raffle[r]
  BY <1>6, ReopenEffect DEF OnlyRow
<1>7. ASSUME NEW a \in Admins, draw(a)
      PROVE  raffle'[r] = raffle[r]
  <2>1. raffle[asking[a].raffle].status = "open"
    BY <1>7 DEF draw, DrawsHoldTheirRow
  <2> QED
    BY <1>7, <2>1, DrawEffect DEF OnlyRow
<1> QED
  BY StepCases, <1>1, <1>2, <1>3, <1>4, <1>5, <1>6, <1>7, Zenon

(* The entries of raffle r are exactly those its draw saw.                 *)
Audited(r) ==
  /\ Numbers(EntriesOf(r)) = pool[r]
  /\ raffle[r].winners \in drawWinners(pool[r])

LEMMA AuditStays ==
  ASSUME NEW r \in Raffles, Audited(r), raffle'[r] = raffle[r], pool'[r] = pool[r],
         EntriesOf(r)' = EntriesOf(r)
  PROVE  Audited(r)'
  BY DEF Audited, drawWinners, Numbers

LEMMA AuditableStep ==
  ASSUME Shapes, DrawsHoldTheirRow, DeletionsHoldTheirEntries, Auditable, [RafflesNext]_raffleVars
  PROVE  Auditable'
<1> SUFFICES ASSUME "draw" \notin raced', "status" \notin raced',
                    NEW r \in Raffles, raffle'[r].status = "drawn"
             PROVE  Audited(r)'
  BY DEF Auditable, Audited, Has
<1>0. raffle[r].status = "drawn" => Audited(r)
  BY RacedGrows DEF Auditable, Audited, Has
<1>1. CASE Reads
  BY <1>0, <1>1, AuditStays DEF Reads, EntriesOf
<1>2. ASSUME NEW d \in Donations, donationRefunded(d)
      PROVE  Audited(r)'
  <2>1. raffle' = raffle /\ pool' = pool
    BY <1>2 DEF donationRefunded
  <2>2. EntriesOf(r)' = EntriesOf(r)
    BY <1>2, <2>1 DEF donationRefunded, EntriesOf
  <2> QED
    BY <1>0, <2>1, <2>2, AuditStays
<1>3. ASSUME NEW w \in Relays, grantWithinTx(w)
      PROVE  Audited(r)'
  <2> DEFINE g == grant[w].raffle
             d == grant[w].donation
  <2>1. raffle[r].status = "drawn" /\ raffle'[r] = raffle[r]
    BY <1>3, DeliveryFields, GrantEffect
  <2>2. PICK count : \/ entries' = entries
                     \/ /\ raffle[g].status = "open"
                        /\ entries' = entries \cup Block(g, d, raffle[g].next, count)
    BY <1>3, Zenon DEF grantWithinTx, GrantTakes
  <2>3. EntriesOf(r)' = EntriesOf(r)
    BY <2>1, <2>2, BlockFields DEF EntriesOf
  <2>4. pool' = pool
    BY <1>3 DEF grantWithinTx
  <2> QED
    BY <1>0, <2>1, <2>3, <2>4, AuditStays
<1>4. ASSUME NEW a \in Admins, create(a)
      PROVE  Audited(r)'
  <2>1. PICK g \in Raffles, c \in Config :
          /\ OnlyRow(g) /\ raffle'[g].status = "open"
          /\ \E b \in Backfills([raffle EXCEPT ![g] = RowOf(c)], g) :
               entries' = entries \cup b.blocks
    BY <1>4, CreateEffect, Zenon
  <2> DEFINE R == [raffle EXCEPT ![g] = RowOf(c)]
  <2>2. R[g].cents \in Prices
    BY ConfigFields DEF RowOf, Shapes
  <2>3. \E b \in Backfills(R, g) : entries' = entries \cup b.blocks
    BY <2>1
  <2> HIDE DEF R
  <2>4. r # g /\ raffle'[r] = raffle[r]
    BY <2>1 DEF OnlyRow
  <2>5. EntriesOf(r)' = EntriesOf(r)
    BY <2>2, <2>3, <2>4, BackfillsFacts DEF EntriesOf
  <2>6. pool' = pool
    BY <1>4 DEF create
  <2> QED
    BY <1>0, <2>4, <2>5, <2>6, AuditStays
<1>5. ASSUME NEW a \in Admins, reopen(a)
      PROVE  Audited(r)'
  <2>1. PICK g \in Raffles :
          /\ OnlyRow(g) /\ raffle'[g].status = "open"
          /\ \E R : R[g].cents \in Prices /\ \E b \in Backfills(R, g) :
                      entries' = entries \cup b.blocks
    BY <1>5, ReopenEffect, Zenon
  <2>2. r # g /\ raffle'[r] = raffle[r]
    BY <2>1 DEF OnlyRow
  <2>3. EntriesOf(r)' = EntriesOf(r)
    BY <2>1, <2>2, BackfillsFacts DEF EntriesOf
  <2>4. pool' = pool
    BY <1>5 DEF reopen
  <2> QED
    BY <1>0, <2>2, <2>3, <2>4, AuditStays
<1>6. ASSUME NEW a \in Admins, updateConfig(a)
      PROVE  Audited(r)'
  <2>1. raffle[r].status = "drawn"
    BY <1>6, UpdateEffect DEF OnlyRow
  <2>2. raffle'[r] = raffle[r]
    BY <2>1, DrawStandsStep
  <2>3. EntriesOf(r)' = EntriesOf(r) /\ pool' = pool
    BY <1>6 DEF updateConfig, EntriesOf
  <2> QED
    BY <1>0, <2>1, <2>2, <2>3, AuditStays
<1>7. ASSUME NEW a \in Admins, cancel(a)
      PROVE  Audited(r)'
  <2>1. r # asking[a].raffle /\ raffle'[r] = raffle[r]
    BY <1>7, CancelEffect DEF OnlyRow
  <2>2. /\ \A e \in asking[a].doomed : e.raffle # r
        /\ entries' = entries \ asking[a].doomed /\ pool' = pool
    BY <1>7, <2>1 DEF cancel, DeletionsHoldTheirEntries
  <2>3. EntriesOf(r)' = EntriesOf(r)
    BY <2>2 DEF EntriesOf
  <2> QED
    BY <1>0, <2>1, <2>2, <2>3, AuditStays
<1>8. ASSUME NEW a \in Admins, draw(a)
      PROVE  Audited(r)'
  <2> DEFINE g == asking[a].raffle
  <2>1. /\ g \in Raffles /\ OnlyRow(g)
        /\ raffle'[g].winners \in drawWinners(Numbers(asking[a].seen))
    BY <1>8, DrawEffect, Zenon
  <2>2. /\ pool' = [pool EXCEPT ![g] = Numbers(asking[a].seen)] /\ entries' = entries
        /\ asking[a].seen = EntriesOf(g)
    BY <1>8 DEF draw, Flag
  <2>3. CASE r = g
    <3>1. pool'[r] = Numbers(EntriesOf(r)) /\ raffle'[r].winners \in drawWinners(pool'[r])
      BY <2>1, <2>2, <2>3 DEF Shapes
    <3>2. EntriesOf(r)' = EntriesOf(r)
      BY <2>2 DEF EntriesOf
    <3> QED
      BY <3>1, <3>2 DEF Audited, drawWinners, Numbers
  <2>4. CASE r # g
    <3>1. raffle'[r] = raffle[r] /\ pool'[r] = pool[r]
      BY <2>1, <2>2, <2>4 DEF OnlyRow, Shapes
    <3>2. EntriesOf(r)' = EntriesOf(r)
      BY <2>2 DEF EntriesOf
    <3> QED
      BY <1>0, <3>1, <3>2, AuditStays
  <2> QED
    BY <2>3, <2>4
<1> QED
  BY StepCases, <1>1, <1>2, <1>3, <1>4, <1>5, <1>6, <1>7, <1>8, Zenon

-----------------------------------------------------------------------------
(* Numbers.                                                                *)

Mine(d) == {e \in entries : e.donation = d}

(* Only a donation that has been paid has numbers, or a delivery.          *)
NobodyBeforePaying ==
  /\ \A e \in entries : donation[e.donation] # "none"
  /\ \A w \in Relays : grant[w].op = "grant" => donation[grant[w].donation] # "none"

Once(d) ==
  /\ granted[d] => \E r : {e.raffle : e \in Mine(d)} = {r}
  /\ donation[d] = "paid" /\ Mine(d) # {} => granted[d]

OnceEach == Has("status") \/ Has("seen") \/ Has("grant") \/ \A d \in Donations : Once(d)

LEMMA DonationMoves ==
  ASSUME Shapes, [RafflesNext]_raffleVars, NEW d \in Donations
  PROVE  /\ donation'[d] = "none" => donation[d] = "none"
         /\ donation'[d] = "paid" => donation[d] \in {"none", "paid"}
<1>1. CASE \E k \in Donations : donationPaid(k) \/ donationRefunded(k)
  BY <1>1 DEF donationPaid, donationRefunded, Shapes
<1> QED
  BY <1>1, Unwritten

(* The donations a backfill serves, in one raffle, and no others.          *)
Backfilled(g) ==
  \E D \in SUBSET {d \in Donations : donation[d] = "paid" /\ ~granted[d]} : \E B :
    /\ \A e \in B : e.raffle = g /\ e.donation \in D
    /\ \A d \in D : \E e \in B : e.donation = d
    /\ entries' = entries \cup B
    /\ granted' = [d \in Donations |-> granted[d] \/ d \in D]

LEMMA BackfillSteps ==
  ASSUME Shapes, NEW a \in Admins, create(a) \/ reopen(a)
  PROVE  \E g : Backfilled(g)
<1>1. ASSUME NEW g \in Raffles, NEW R, R[g].cents \in Prices,
             \E b \in Backfills(R, g) :
               /\ entries' = entries \cup b.blocks
               /\ granted' = [d \in Donations |-> granted[d] \/ d \in b.donors]
      PROVE  Backfilled(g)
  <2>1. PICK b \in Backfills(R, g) :
          /\ entries' = entries \cup b.blocks
          /\ granted' = [d \in Donations |-> granted[d] \/ d \in b.donors]
    BY <1>1
  <2> DEFINE D == b.donors
             B == b.blocks
  <2>2. /\ D \in SUBSET {d \in Donations : donation[d] = "paid" /\ ~granted[d]}
        /\ \A e \in B : e.raffle = g /\ e.donation \in D
        /\ \A d \in D : \E e \in B : e.donation = d
    BY <1>1, BackfillsFacts
  <2>3. entries' = entries \cup B /\ granted' = [d \in Donations |-> granted[d] \/ d \in D]
    BY <2>1
  <2> HIDE DEF B, D
  <2> QED
    BY <2>2, <2>3, Zenon DEF Backfilled
<1>2. CASE create(a)
  <2>1. PICK g \in Raffles, c \in Config :
          \E b \in Backfills([raffle EXCEPT ![g] = RowOf(c)], g) :
            /\ entries' = entries \cup b.blocks
            /\ granted' = [d \in Donations |-> granted[d] \/ d \in b.donors]
    BY <1>2, CreateEffect, Zenon
  <2>2. [raffle EXCEPT ![g] = RowOf(c)][g].cents \in Prices
    BY ConfigFields DEF RowOf, Shapes
  <2> QED
    BY <1>1, <2>1, <2>2, Zenon
<1>3. CASE reopen(a)
  <2>1. PICK g \in Raffles :
          \E R : /\ R[g].cents \in Prices
                 /\ \E b \in Backfills(R, g) :
                      /\ entries' = entries \cup b.blocks
                      /\ granted' = [d \in Donations |-> granted[d] \/ d \in b.donors]
    BY <1>3, ReopenEffect, Zenon
  <2> QED
    BY <1>1, <2>1, Zenon
<1> QED
  BY <1>2, <1>3

LEMMA NobodyBeforePayingStep ==
  ASSUME Shapes, NobodyBeforePaying, [RafflesNext]_raffleVars
  PROVE  NobodyBeforePaying'
<1>1. ASSUME NEW e \in entries'
      PROVE  donation'[e.donation] # "none"
  <2>1. CASE e \in entries
    BY <2>1, DonationMoves DEF NobodyBeforePaying, Shapes
  <2>2. ASSUME NEW w \in Relays, grantWithinTx(w), e \notin entries
        PROVE  donation'[e.donation] # "none"
    <3> DEFINE g == grant[w].raffle
               d == grant[w].donation
    <3>1. PICK count : \/ entries' = entries
                       \/ entries' = entries \cup Block(g, d, raffle[g].next, count)
      BY <2>2, Zenon DEF grantWithinTx
    <3>2. e.donation = d
      BY <2>2, <3>1, BlockFields
    <3>3. donation[d] # "none" /\ d \in Donations
      BY <2>2, DeliveryFields DEF grantWithinTx, NobodyBeforePaying
    <3> QED
      BY <3>2, <3>3, DonationMoves
  <2>3. ASSUME NEW a \in Admins, create(a) \/ reopen(a), e \notin entries
        PROVE  donation'[e.donation] # "none"
    <3>1. PICK g : Backfilled(g)
      BY <2>3, BackfillSteps
    <3>2. e.donation \in Donations /\ donation[e.donation] = "paid"
      BY <2>3, <3>1 DEF Backfilled
    <3> QED
      BY <3>2, DonationMoves
  <2>4. CASE entries' \subseteq entries
    BY <2>1, <2>4
  <2>5. ASSUME NEW a \in Admins, updateConfig(a) \/ cancel(a) \/ draw(a)
        PROVE  entries' \subseteq entries
    BY <2>5 DEF updateConfig, cancel, draw
  <2>6. CASE Reads \/ \E d \in Donations : donationRefunded(d)
    BY <2>1, <2>6 DEF Reads, donationRefunded
  <2> QED
    BY StepCases, <2>1, <2>2, <2>3, <2>4, <2>5, <2>6, Zenon
<1>2. ASSUME NEW w \in Relays, grant'[w].op = "grant"
      PROVE  donation'[grant'[w].donation] # "none"
  <2>1. CASE grant'[w] = grant[w]
    <3>1. grant[w].donation \in Donations
      BY <1>2, <2>1 DEF Shapes, Delivery, NoRequest
    <3> QED
      BY <1>2, <2>1, <3>1, DonationMoves DEF NobodyBeforePaying
  <2>2. ASSUME NEW k \in Relays, NEW d \in Donations, grantRead(k, d)
        PROVE  donation'[grant'[w].donation] # "none"
    <3>1. CASE k = w
      BY <2>2, <3>1 DEF grantRead, Shapes
    <3>2. CASE k # w
      BY <2>1, <2>2, <3>2 DEF grantRead, Shapes
    <3> QED
      BY <3>1, <3>2
  <2>3. ASSUME NEW k \in Relays, grantWithinTx(k)
        PROVE  grant'[w] = grant[w]
    BY <1>2, <2>3 DEF grantWithinTx, Shapes, NoRequest
  <2> QED
    BY Unwritten, <2>1, <2>2, <2>3
<1> QED
  BY <1>1, <1>2 DEF NobodyBeforePaying

(* A step that leaves a donation's entries and its grant alone.            *)
LEMMA OnceStays ==
  ASSUME Shapes, NobodyBeforePaying, [RafflesNext]_raffleVars, NEW d \in Donations, Once(d),
         Mine(d)' = Mine(d), granted'[d] <=> granted[d]
  PROVE  Once(d)'
<1>1. donation'[d] = "paid" => donation[d] = "paid" \/ Mine(d) = {}
  BY DonationMoves DEF Mine, NobodyBeforePaying
<1> QED
  BY <1>1 DEF Once

LEMMA OnceStep ==
  ASSUME Shapes, DeletionsHoldTheirEntries, NobodyBeforePaying, OnceEach, [RafflesNext]_raffleVars
  PROVE  OnceEach'
<1> SUFFICES ASSUME "status" \notin raced', "seen" \notin raced', "grant" \notin raced',
                    NEW d \in Donations
             PROVE  Once(d)'
  BY DEF OnceEach, Has
<1>0. Once(d)
  BY RacedGrows DEF OnceEach, Has
<1>1. CASE Reads
  <2>1. Mine(d)' = Mine(d) /\ (granted'[d] <=> granted[d])
    BY <1>1 DEF Reads, Mine
  <2> QED
    BY <1>0, <2>1, OnceStays
<1>2. ASSUME NEW k \in Donations, donationRefunded(k)
      PROVE  Once(d)'
  <2>1. CASE d = k
    <3>1. donation'[d] = "refunded" /\ granted'[d] = FALSE
      BY <1>2, <2>1 DEF donationRefunded, Shapes
    <3> QED
      BY <3>1 DEF Once
  <2>2. CASE d # k
    <3>1. Mine(d)' = Mine(d) /\ (granted'[d] <=> granted[d])
      BY <1>2, <2>2 DEF donationRefunded, Mine, Shapes
    <3> QED
      BY <1>0, <3>1, OnceStays
  <2> QED
    BY <2>1, <2>2
<1>3. ASSUME NEW w \in Relays, grantWithinTx(w)
      PROVE  Once(d)'
  <2> DEFINE r == grant[w].raffle
             k == grant[w].donation
             count == Worth(k, grant[w].cents)
             new == Block(r, k, raffle[r].next, count)
  <2>1. CASE UNCHANGED <<granted, entries>>
    <3>1. Mine(d)' = Mine(d) /\ (granted'[d] <=> granted[d])
      BY <2>1 DEF Mine
    <3> QED
      BY <1>0, <3>1, OnceStays
  <2>2. CASE /\ ~granted[k] /\ new # {} /\ donation[k] = "paid"
             /\ granted' = [granted EXCEPT ![k] = TRUE] /\ entries' = entries \cup new
    <3>1. \A e \in new : e.raffle = r /\ e.donation = k
      BY BlockFields
    <3> HIDE DEF new
    <3>2. CASE d = k
      <4>1. Mine(d) = {}
        BY <1>0, <2>2, <3>2 DEF Once
      <4>2. Mine(d)' = new
        BY <2>2, <3>1, <3>2, <4>1 DEF Mine
      <4>3. {e.raffle : e \in Mine(d)'} = {r}
        BY <2>2, <3>1, <4>2
      <4>4. granted'[d]
        BY <2>2, <3>2 DEF Shapes
      <4> QED
        BY <4>3, <4>4 DEF Once
    <3>3. CASE d # k
      <4>1. Mine(d)' = Mine(d) /\ (granted'[d] <=> granted[d])
        BY <2>2, <3>1, <3>3 DEF Mine, Shapes
      <4> QED
        BY <1>0, <4>1, OnceStays
    <3> QED
      BY <3>2, <3>3
  <2>3. \/ UNCHANGED <<granted, entries>>
        \/ /\ ~granted[k] /\ new # {}
           /\ granted' = [granted EXCEPT ![k] = TRUE] /\ entries' = entries \cup new
           /\ raced' = raced \cup Flag(donation[k] # "paid", "grant")
                             \cup Flag(raffle[r].cents # grant[w].cents, "price")
    BY <1>3 DEF grantWithinTx, GrantTakes
  <2> HIDE DEF new, r, k
  <2>4. \/ UNCHANGED <<granted, entries>>
        \/ /\ ~granted[k] /\ new # {} /\ donation[k] = "paid"
           /\ granted' = [granted EXCEPT ![k] = TRUE] /\ entries' = entries \cup new
    BY <2>3 DEF Flag
  <2> QED
    BY <2>1, <2>2, <2>4
<1>4. ASSUME NEW a \in Admins, create(a) \/ reopen(a)
      PROVE  Once(d)'
  <2>1. PICK g : Backfilled(g)
    BY <1>4, BackfillSteps
  <2>2. PICK D \in SUBSET {k \in Donations : donation[k] = "paid" /\ ~granted[k]} : \E B :
          /\ \A e \in B : e.raffle = g /\ e.donation \in D
          /\ \A k \in D : \E e \in B : e.donation = k
          /\ entries' = entries \cup B
          /\ granted' = [k \in Donations |-> granted[k] \/ k \in D]
    BY <2>1 DEF Backfilled
  <2>3. PICK B :
          /\ \A e \in B : e.raffle = g /\ e.donation \in D
          /\ \A k \in D : \E e \in B : e.donation = k
          /\ entries' = entries \cup B
          /\ granted' = [k \in Donations |-> granted[k] \/ k \in D]
    BY <2>2
  <2>4. CASE d \in D
    <3>1. Mine(d) = {}
      BY <1>0, <2>4 DEF Once
    <3>2. Mine(d)' = {e \in B : e.donation = d}
      BY <2>3, <3>1 DEF Mine
    <3>3. {e.raffle : e \in Mine(d)'} = {g}
      BY <2>3, <2>4, <3>2
    <3>4. granted'[d]
      BY <2>3, <2>4
    <3> QED
      BY <3>3, <3>4 DEF Once
  <2>5. CASE d \notin D
    <3>1. Mine(d)' = Mine(d)
      BY <2>3, <2>5 DEF Mine
    <3>2. granted'[d] <=> granted[d]
      BY <2>3, <2>5
    <3> QED
      BY <1>0, <3>1, <3>2, OnceStays
  <2> QED
    BY <2>4, <2>5
<1>5. ASSUME NEW a \in Admins, updateConfig(a) \/ draw(a)
      PROVE  Once(d)'
  <2>1. Mine(d)' = Mine(d) /\ (granted'[d] <=> granted[d])
    BY <1>5 DEF updateConfig, draw, Mine
  <2> QED
    BY <1>0, <2>1, OnceStays
<1>6. ASSUME NEW a \in Admins, cancel(a)
      PROVE  Once(d)'
  <2> DEFINE r      == asking[a].raffle
             seen   == asking[a].seen
             doomed == asking[a].doomed
  <2>1. /\ entries' = entries \ doomed
        /\ granted' = [k \in Donations |-> granted[k] /\ k \notin seen]
        /\ EntriesOf(r) \subseteq doomed /\ seen = Donors(doomed)
    BY <1>6 DEF cancel, Flag
  <2>2. doomed = EntriesOf(r)
    BY <1>6, <2>1 DEF cancel, DeletionsHoldTheirEntries, EntriesOf
  <2> HIDE DEF r, seen, doomed
  <2>3. Mine(d)' = {e \in Mine(d) : e.raffle # r}
    BY <2>1, <2>2 DEF Mine, EntriesOf
  <2>4. d \in seen <=> \E e \in Mine(d) : e.raffle = r
    BY <2>1, <2>2 DEF Donors, Mine, EntriesOf
  <2>5. CASE d \in seen
    <3>1. ~granted'[d] /\ (granted[d] => Mine(d)' = {})
      BY <1>0, <2>1, <2>3, <2>4, <2>5 DEF Once
    <3>2. donation' = donation
      BY <1>6 DEF cancel
    <3>3. donation[d] = "paid" => granted[d]
      BY <1>0, <2>4, <2>5 DEF Once
    <3> QED
      BY <3>1, <3>2, <3>3 DEF Once
  <2>6. CASE d \notin seen
    <3>1. Mine(d)' = Mine(d)
      BY <2>3, <2>4, <2>6
    <3>2. granted'[d] <=> granted[d]
      BY <2>1, <2>6
    <3> QED
      BY <1>0, <3>1, <3>2, OnceStays
  <2> QED
    BY <2>5, <2>6
<1> QED
  BY StepCases, <1>1, <1>2, <1>3, <1>4, <1>5, <1>6, Zenon

-----------------------------------------------------------------------------
(* The theorems.                                                           *)

RafflesInv ==
  /\ Shapes /\ DrawsHoldTheirRow /\ DeletionsHoldTheirEntries /\ NobodyBeforePaying
  /\ WindowsDisjoint /\ Auditable /\ OnceEach

(* The rows and the requests keep their shape, a draw keeps its row and a  *)
(* deletion its entries, and nobody gets numbers before paying: what the   *)
(* properties below rest on, in every reachable state.                     *)
THEOREM RafflesInductive == RafflesSpec => []RafflesInv
<1>1. RafflesInit => RafflesInv
  <2> SUFFICES ASSUME RafflesInit PROVE RafflesInv
    OBVIOUS
  <2>1. /\ entries = {} /\ \A a \in Admins : asking[a] = NoRequest
        /\ \A w \in Relays : grant[w] = NoRequest
        /\ \A d \in Donations : granted[d] = FALSE
    BY DEF RafflesInit
  <2>2. DrawsHoldTheirRow /\ DeletionsHoldTheirEntries /\ NobodyBeforePaying
    BY <2>1 DEF DrawsHoldTheirRow, DeletionsHoldTheirEntries, NobodyBeforePaying, NoRequest
  <2>3. OnceEach
    BY <2>1 DEF OnceEach, Once, Mine
  <2>4. \A r \in Raffles : raffle[r].status # "drawn" /\ (r # 1 => raffle[r].status = "none")
    BY DEF RafflesInit, FirstRaffle, RowOf, NoRow
  <2>5. WindowsDisjoint /\ Auditable
    BY <2>4 DEF WindowsDisjoint, Auditable
  <2> QED
    BY ShapesInit, <2>2, <2>3, <2>5 DEF RafflesInv
<1>2. RafflesInv /\ [RafflesNext]_raffleVars => RafflesInv'
  <2> SUFFICES ASSUME RafflesInv, [RafflesNext]_raffleVars PROVE RafflesInv'
    OBVIOUS
  <2> USE DEF RafflesInv
  <2>1. Shapes'
    BY ShapesStep
  <2>2. DrawsHoldTheirRow' /\ DeletionsHoldTheirEntries'
    BY DrawsHoldTheirRowStep, DeletionsHoldTheirEntriesStep
  <2>3. NobodyBeforePaying' /\ OnceEach'
    BY NobodyBeforePayingStep, OnceStep
  <2>4. WindowsDisjoint' /\ Auditable'
    BY WindowsStep, AuditableStep
  <2> QED
    BY <2>1, <2>2, <2>3, <2>4
<1> QED
  BY <1>1, <1>2, PTL DEF RafflesSpec

(* Two raffles that are not cancelled never share a moment, unless a       *)
(* request committed on a reading in which a window now in its way was not *)
(* there yet (assertWindowFree, raffles.repository.ts:129).                *)
THEOREM WindowsStayApart == RafflesSpec => []WindowsDisjoint
<1>1. RafflesInv => WindowsDisjoint
  BY DEF RafflesInv
<1> QED
  BY RafflesInductive, <1>1, PTL

(* The entries of a drawn raffle stay the pool of its draw, and its        *)
(* winners stay among them (draw, raffles.repository.ts:362).              *)
THEOREM DrawsAreAuditable == RafflesSpec => []Auditable
<1>1. RafflesInv => Auditable
  BY DEF RafflesInv
<1> QED
  BY RafflesInductive, <1>1, PTL

(* A drawn raffle is not touched again, unless by a request whose guard    *)
(* had read the row with another status than it now has (setStatus,        *)
(* raffles.repository.ts:252).                                             *)
THEOREM DrawsStand == RafflesSpec => DrawStands
<1>1. RafflesInv /\ [RafflesNext]_raffleVars =>
        [\A r \in Raffles :
           raffle[r].status = "drawn" => raffle'[r] = raffle[r] \/ "status" \in raced']_raffleVars
  BY DrawStandsStep DEF RafflesInv
<1> QED
  BY RafflesInductive, <1>1, PTL DEF RafflesSpec, DrawStands

(* A donation is marked granted exactly while it holds numbers, and holds  *)
(* them in one raffle (grantWithinTx, raffles.repository.ts:63).           *)
THEOREM NumbersAreGivenOnce == RafflesSpec => []NumbersOnce
<1>1. RafflesInv => NumbersOnce
  <2> SUFFICES ASSUME OnceEach PROVE NumbersOnce
    BY DEF RafflesInv
  <2>1. ASSUME NEW d \in Donations, Once(d), granted[d]
        PROVE  Cardinality({e.raffle : e \in Mine(d)}) = 1
    BY <2>1, FS_Singleton DEF Once
  <2> QED
    BY <2>1 DEF OnceEach, Once, Mine, NumbersOnce
<1> QED
  BY RafflesInductive, <1>1, PTL

=============================================================================
