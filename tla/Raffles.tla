------------------------------- MODULE Raffles -------------------------------
(***************************************************************************)
(* The raffles of one campaign: who gets numbers, and what a draw leaves   *)
(* behind (src/src/http/api/raffles).                                      *)
(*                                                                         *)
(* Every operation of the repository is a database transaction that reads  *)
(* first and writes later, under READ COMMITTED, and only some of the      *)
(* writes repeat the condition that was read.  So a request is two or      *)
(* three steps here: what it reads without a lock, the entries it has      *)
(* deleted but not committed, and its commit.  The draw holds the row of   *)
(* its raffle from its claim to its commit; whoever updates the row waits. *)
(*                                                                         *)
(* Times are ticks.  A null ends_at compares as later than every time, and *)
(* is Forever.                                                             *)
(***************************************************************************)
EXTENDS Integers, FiniteSets, FiniteSetsExt

CONSTANTS
  MaxRaffles,    \* raffles are numbered by their sequence in the campaign
  MaxDonations,  \* donations are numbered by created_at
  Admins,        \* requests of the store's administrators, at most one each at a time
  Relays,        \* ticks of the outbox relay that deliver donation.received
  Amount,        \* the value of each donation
  Prices,        \* the values of cents_per_number
  MaxNumbers,    \* RAFFLE_MAX_NUMBERS_PER_DONATION
  PrizeCount,    \* prizes of a raffle
  MaxTime,       \* the last tick
  MaxRequests    \* the number of administrators' requests

Raffles   == 1..MaxRaffles
Donations == 1..MaxDonations
Times     == 1..MaxTime
Forever   == MaxTime + 1

ASSUME RafflesAssumption ==
  /\ MaxRaffles \in Nat /\ MaxDonations \in Nat /\ MaxRequests \in Nat
  /\ MaxTime \in Nat \ {0}
  /\ Amount \in [Donations -> Nat]
  /\ Prices \subseteq Nat \ {0} /\ Prices # {}
  /\ MaxNumbers \in Nat \ {0} /\ PrizeCount \in Nat \ {0}

VARIABLES
  now,
  donation,   \* donations.status; "none" until the payment is confirmed
  paidAt,     \* donations.paid_at
  granted,    \* donations.raffle_granted
  raffle,     \* the rows of raffles, "none" before they exist
  entries,    \* the rows of raffle_entries
  pool,       \* history: the numbers each draw chose its winners from
  asking,     \* what each administrator's request has read and not yet committed
  grant,      \* the same for each delivery of donation.received
  delivered,  \* donations whose donation.received has been delivered at least once
  asked,      \* administrators' requests made so far
  raced       \* history: the kinds of stale reads some commit has acted on

raffleVars == <<now, donation, paidAt, granted, raffle, entries, pool, asking, grant, delivered,
                asked, raced>>

-----------------------------------------------------------------------------
Config == [starts : Times, ends : 2..Forever, cents : Prices]

Row == [status : {"none", "open", "drawn", "cancelled"},
        starts : Times, ends : 1..Forever, cents : Prices,
        next : Nat, winners : SUBSET Nat]

NoRow == [status |-> "none", starts |-> 1, ends |-> Forever,
          cents |-> CHOOSE p \in Prices : TRUE, next |-> 1, winners |-> {}]

NoRequest == [op |-> "none"]

Kinds == {"status", "seen", "window", "price", "grant", "draw"}

EntriesOf(r) == {e \in entries : e.raffle = r}
Numbers(es)  == {e.number : e \in es}
Donors(es)   == {e.donation : e \in es}
Flag(cond, kind) == IF cond THEN {kind} ELSE {}

(* The draw's UPDATE holds the row until the transaction ends.             *)
Locked(r) == \E a \in Admins : asking[a].op = "draw" /\ asking[a].raffle = r

(* Entries deleted and not yet committed: whoever deletes them too waits.  *)
Doomed == UNION {asking[a].doomed : a \in {b \in Admins : asking[b].op = "cancelling"}}

(* A campaign may be created together with its first raffle, before any    *)
(* donation: campaigns.repository.ts writes both in one transaction.       *)
RowOf(c) == [status |-> "open", starts |-> c.starts, ends |-> c.ends, cents |-> c.cents,
             next |-> 1, winners |-> {}]

FirstRaffle == {[r \in Raffles |-> NoRow]}
               \cup {[r \in Raffles |-> IF r = 1 THEN RowOf(c) ELSE NoRow] :
                       c \in {k \in Config : k.starts < k.ends}}

RafflesInit ==
  /\ now = 1
  /\ donation = [d \in Donations |-> "none"]
  /\ paidAt = [d \in Donations |-> 1]
  /\ granted = [d \in Donations |-> FALSE]
  /\ raffle \in FirstRaffle
  /\ entries = {}
  /\ pool = [r \in Raffles |-> {}]
  /\ asking = [a \in Admins |-> NoRequest]
  /\ grant = [w \in Relays |-> NoRequest]
  /\ delivered = {}
  /\ asked = 0
  /\ raced = {}

-----------------------------------------------------------------------------
(* The rules of raffle-window.ts and of the numbers a donation is worth.   *)

(* The candidates findFirst may return: the raffles whose window holds the *)
(* payment, drawn ones too, else the open ones that start next after it.   *)
resolveRaffleForDonation(R, t) ==
  LET containing == {r \in Raffles : /\ R[r].status \in {"open", "drawn"}
                                     /\ R[r].starts <= t /\ t < R[r].ends}
      later      == {r \in Raffles : R[r].status = "open" /\ t < R[r].starts}
  IN IF containing # {} THEN containing
     ELSE {r \in later : \A s \in later : R[r].starts <= R[s].starts}

Overlap(c, d) == c.starts < d.ends /\ d.starts < c.ends

(* The raffles other than r whose window collides with c; cancelled ones   *)
(* do not count.                                                           *)
findWindowConflict(R, c, r) ==
  {s \in Raffles \ {r} : R[s].status \in {"open", "drawn"} /\ Overlap(R[s], c)}

(* A window that is in the way now, and that the check which read rows did *)
(* not see: its raffle was created, reopened or moved meanwhile.  One that *)
(* a draw has closed since was seen.                                       *)
Unseen(rows, r) ==
  {s \in Raffles \ {r} :
     /\ raffle[s].status \in {"open", "drawn"}
     /\ ~ /\ rows[s].status \in {"open", "drawn"}
          /\ rows[s].starts <= raffle[s].starts /\ raffle[s].ends <= rows[s].ends}

Worth(d, cents) == LET uncapped == Amount[d] \div cents
                   IN IF uncapped < MaxNumbers THEN uncapped ELSE MaxNumbers

TotalWorth(D, cents) == MapThenSumSet(LAMBDA d : Worth(d, cents), D)

Block(r, d, start, count) ==
  {[raffle |-> r, donation |-> d, number |-> start + i] : i \in 0..(count - 1)}

(* Of the paid donations without numbers, those that resolve to raffle r,  *)
(* get consecutive blocks in the order of created_at.  Overlapping windows *)
(* leave a choice to findFirst.                                            *)
Backfills(R, r) ==
  LET pending == {d \in Donations : donation[d] = "paid" /\ ~granted[d]}
      may     == {d \in pending : r \in resolveRaffleForDonation(R, paidAt[d])}
      must    == {d \in may : resolveRaffleForDonation(R, paidAt[d]) = {r}}
      worthy(D) == {d \in D : Worth(d, R[r].cents) >= 1}
      count(D) == TotalWorth(D, R[r].cents)
      blocks(D) == UNION {Block(r, d, R[r].next + count({e \in D : e < d}),
                                Worth(d, R[r].cents)) : d \in D}
  IN {[donors |-> D, blocks |-> blocks(D), next |-> R[r].next + count(D)] :
        D \in {worthy(must \cup extra) : extra \in SUBSET may}}

(* @@unique([raffleId, number]): a duplicate makes the transaction throw.  *)
Unique(es, new) == \A e \in es, f \in new : e.raffle = f.raffle => e.number # f.number

-----------------------------------------------------------------------------
(* Donations, as far as raffles see them; the module Donations has the     *)
(* rest of their life.                                                     *)

Tick ==
  /\ now < MaxTime
  /\ now' = now + 1
  /\ UNCHANGED <<donation, paidAt, granted, raffle, entries, pool, asking, grant, delivered,
                 asked, raced>>

donationPaid(d) ==
  /\ donation[d] = "none"
  /\ donation' = [donation EXCEPT ![d] = "paid"]
  /\ paidAt' = [paidAt EXCEPT ![d] = now]
  /\ UNCHANGED <<now, granted, raffle, entries, pool, asking, grant, delivered, asked, raced>>

(* The numbers go back only while the raffle is open as this transaction   *)
(* sees it: a draw that has not committed does not stop it.                *)
donationRefunded(d) ==
  /\ donation[d] = "paid"
  /\ \A e \in Doomed : e.donation = d => raffle[e.raffle].status # "open"
  /\ donation' = [donation EXCEPT ![d] = "refunded"]
  /\ granted' = [granted EXCEPT ![d] = FALSE]
  /\ entries' = {e \in entries : e.donation = d => raffle[e.raffle].status # "open"}
  /\ UNCHANGED <<now, paidAt, raffle, pool, asking, grant, delivered, asked, raced>>

-----------------------------------------------------------------------------
(* Granting the numbers of one donation: the delivery reads the donation   *)
(* and its raffle, then claims, reserves and inserts.                      *)

grantRead(w, d) ==
  /\ grant[w] = NoRequest
  /\ donation[d] = "paid"
  /\ \E r \in resolveRaffleForDonation(raffle, paidAt[d]) :
       /\ raffle[r].status = "open"
       /\ grant' = [grant EXCEPT ![w] = [op |-> "grant", donation |-> d, raffle |-> r,
                                         cents |-> raffle[r].cents]]
  /\ UNCHANGED <<now, donation, paidAt, granted, raffle, entries, pool, asking, delivered,
                 asked, raced>>

(* No raffle takes the donation, or it is no longer paid: the delivery is  *)
(* over.                                                                   *)
grantNothing(d) ==
  /\ d \notin delivered
  /\ \/ donation[d] = "refunded"
     \/ /\ donation[d] = "paid"
        /\ LET R == resolveRaffleForDonation(raffle, paidAt[d])
           IN R = {} \/ \E r \in R : raffle[r].status # "open"
  /\ delivered' = delivered \cup {d}
  /\ UNCHANGED <<now, donation, paidAt, granted, raffle, entries, pool, asking, grant, asked,
                 raced>>

(* Mutants: the claim does not ask whether the donation has its numbers,    *)
(* and the reservation does not ask whether the raffle is still open.       *)
Faulty_GrantUnclaimed(d, r, new) ==
  raffle[r].status = "open" /\ new # {} /\ Unique(entries, new)

Faulty_GrantUnguarded(d, r, new) ==
  ~granted[d] /\ new # {} /\ Unique(entries, new)

(* The claim on raffle_granted and the guard on the raffle's status are    *)
(* repeated under the row's lock; that the donation is still paid is not.  *)
GrantTakes(d, r, new) ==
  /\ ~granted[d]
  /\ raffle[r].status = "open"
  /\ new # {}
  /\ Unique(entries, new)

grantWithinTx(w) ==
  /\ grant[w].op = "grant"
  /\ LET d     == grant[w].donation
         r     == grant[w].raffle
         count == Worth(d, grant[w].cents)
         new   == Block(r, d, raffle[r].next, count)
     IN /\ ~Locked(r)
        /\ \/ /\ GrantTakes(d, r, new)
              /\ granted' = [granted EXCEPT ![d] = TRUE]
              /\ raffle' = [raffle EXCEPT ![r].next = @ + count]
              /\ entries' = entries \cup new
              /\ raced' = raced \cup Flag(donation[d] # "paid", "grant")
                                \cup Flag(raffle[r].cents # grant[w].cents, "price")
           \/ /\ ~GrantTakes(d, r, new)
              /\ UNCHANGED <<granted, raffle, entries, raced>>
  /\ grant' = [grant EXCEPT ![w] = NoRequest]
  /\ delivered' = delivered \cup {grant[w].donation}
  /\ UNCHANGED <<now, donation, paidAt, pool, asking, asked>>

-----------------------------------------------------------------------------
(* Requests of the store.  Ask is the part of a request that only reads.   *)

Ask(a, req) ==
  /\ asking[a] = NoRequest
  /\ asked < MaxRequests
  /\ asked' = asked + 1
  /\ asking' = [asking EXCEPT ![a] = req]
  /\ UNCHANGED <<now, donation, paidAt, granted, raffle, entries, pool, grant, delivered, raced>>

Done(a) == asking' = [asking EXCEPT ![a] = NoRequest]

(* The request fails, its process dies, or the database makes it the       *)
(* victim of a deadlock: nothing of its transaction stays.                 *)
requestAbort(a) ==
  /\ asking[a].op \in {"cancelling", "draw"}
  /\ Done(a)
  /\ UNCHANGED <<now, donation, paidAt, granted, raffle, entries, pool, grant, delivered,
                 asked, raced>>

(* Mutant: a raffle is created without asking whose the period is.          *)
Faulty_createCheck(a, c) ==
  /\ c.starts < c.ends
  /\ Ask(a, [op |-> "create", config |-> c, rows |-> raffle])

createCheck(a, c) ==
  /\ c.starts < c.ends
  /\ findWindowConflict(raffle, c, 0) = {}
  /\ Ask(a, [op |-> "create", config |-> c, rows |-> raffle])

(* The sequence is max + 1, and the unique index on it lets one of two     *)
(* concurrent inserts through.                                             *)
create(a) ==
  /\ asking[a].op = "create"
  /\ \E r \in Raffles :
       LET c == asking[a].config
           R == [raffle EXCEPT ![r] = RowOf(c)]
       IN /\ raffle[r].status = "none"
          /\ \A s \in Raffles : s < r => raffle[s].status # "none"
          /\ \E b \in Backfills(R, r) :
               /\ raffle' = [R EXCEPT ![r].next = b.next]
               /\ entries' = entries \cup b.blocks
               /\ granted' = [d \in Donations |-> granted[d] \/ d \in b.donors]
          /\ raced' = raced \cup Flag(Unseen(asking[a].rows, r) # {}, "window")
  /\ Done(a)
  /\ UNCHANGED <<now, donation, paidAt, pool, grant, delivered, asked>>

(* Mutant: the controller does not ask whether the raffle is open.          *)
Faulty_putCheck(a, r, c) ==
  /\ c.starts < c.ends
  /\ raffle[r].status # "none"
  /\ EntriesOf(r) # {} => c.cents = raffle[r].cents
  /\ findWindowConflict(raffle, c, r) = {}
  /\ Ask(a, [op |-> "put", raffle |-> r, config |-> c, rows |-> raffle,
             taken |-> EntriesOf(r) # {}])

(* The controller reads the raffle and counts its entries, the transaction *)
(* looks for a colliding window: all before the row is written.            *)
putCheck(a, r, c) ==
  /\ c.starts < c.ends
  /\ raffle[r].status = "open"
  /\ EntriesOf(r) # {} => c.cents = raffle[r].cents
  /\ findWindowConflict(raffle, c, r) = {}
  /\ Ask(a, [op |-> "put", raffle |-> r, config |-> c, rows |-> raffle,
             taken |-> EntriesOf(r) # {}])

(* The prizes are replaced whole, and with them the winners they name.     *)
updateConfig(a) ==
  /\ asking[a].op = "put"
  /\ LET r == asking[a].raffle
         c == asking[a].config
         rows == asking[a].rows
     IN /\ ~Locked(r)
        /\ raffle' = [raffle EXCEPT ![r].starts = c.starts, ![r].ends = c.ends,
                                    ![r].cents = c.cents, ![r].winners = {}]
        /\ raced' = raced
             \cup Flag(raffle[r].status # rows[r].status, "status")
             \cup Flag(\/ asking[a].taken # (EntriesOf(r) # {})
                       \/ raffle[r].cents # rows[r].cents, "price")
             \cup Flag(Unseen(rows, r) # {}, "window")
  /\ Done(a)
  /\ UNCHANGED <<now, donation, paidAt, granted, entries, pool, grant, delivered, asked>>

cancelAsk(a, r) ==
  /\ raffle[r].status = "open"
  /\ Ask(a, [op |-> "cancel", raffle |-> r, was |-> raffle[r].status,
             seen |-> Donors(EntriesOf(r))])

cancelDelete(a) ==
  /\ asking[a].op = "cancel"
  /\ LET q == asking[a]
     IN /\ EntriesOf(q.raffle) \cap Doomed = {}
        /\ asking' = [asking EXCEPT ![a] = [op |-> "cancelling", raffle |-> q.raffle,
                                            was |-> q.was, seen |-> q.seen,
                                            doomed |-> EntriesOf(q.raffle)]]
  /\ UNCHANGED <<now, donation, paidAt, granted, raffle, entries, pool, grant, delivered,
                 asked, raced>>

(* The row is cancelled by its id alone.  A prize whose winning entry is   *)
(* deleted keeps no winner (the reference is set null).                    *)
cancel(a) ==
  /\ asking[a].op = "cancelling"
  /\ LET r      == asking[a].raffle
         seen   == asking[a].seen
         doomed == asking[a].doomed
     IN /\ ~Locked(r)
        /\ entries' = entries \ doomed
        /\ granted' = [d \in Donations |-> granted[d] /\ d \notin seen]
        /\ raffle' = [raffle EXCEPT ![r].status = "cancelled", ![r].next = 1,
                                    ![r].winners = @ \ Numbers(doomed)]
        /\ raced' = raced \cup Flag(raffle[r].status # asking[a].was, "status")
                          \cup Flag(\/ ~EntriesOf(r) \subseteq doomed
                                    \/ Donors(doomed) # seen, "seen")
  /\ Done(a)
  /\ UNCHANGED <<now, donation, paidAt, pool, grant, delivered, asked>>

reopenRead(a, r) ==
  /\ raffle[r].status = "cancelled"
  /\ findWindowConflict(raffle, raffle[r], r) = {}
  /\ Ask(a, [op |-> "reopen", raffle |-> r, rows |-> raffle])

reopen(a) ==
  /\ asking[a].op = "reopen"
  /\ LET r    == asking[a].raffle
         rows == asking[a].rows
         R    == [raffle EXCEPT ![r].status = "open"]
     IN /\ ~Locked(r)
        /\ \E b \in Backfills(R, r) :
             /\ Unique(entries, b.blocks)
             /\ raffle' = [R EXCEPT ![r].next = b.next]
             /\ entries' = entries \cup b.blocks
             /\ granted' = [d \in Donations |-> granted[d] \/ d \in b.donors]
        /\ raced' = raced \cup Flag(raffle[r].status # rows[r].status, "status")
                          \cup Flag(\/ Unseen(rows, r) # {}
                                    \/ raffle[r].starts # rows[r].starts
                                    \/ raffle[r].ends # rows[r].ends, "window")
  /\ Done(a)
  /\ UNCHANGED <<now, donation, paidAt, pool, grant, delivered, asked>>

(* The claim: the row is locked from here on.  A raffle without entries is *)
(* refused, which undoes the claim.                                        *)
drawClaim(a, r) ==
  /\ raffle[r].status = "open"
  /\ ~Locked(r)
  /\ EntriesOf(r) # {}
  /\ Ask(a, [op |-> "draw", raffle |-> r, at |-> now, seen |-> EntriesOf(r)])

(* Any set of distinct numbers of the pool, as many as there are prizes:   *)
(* which one is the seed's matter.  A winner that is gone, or going, fails *)
(* the reference of its prize, and with it the draw.                       *)
drawWinners(numbers) ==
  {W \in SUBSET numbers : Cardinality(W) = IF Cardinality(numbers) < PrizeCount
                                           THEN Cardinality(numbers) ELSE PrizeCount}

draw(a) ==
  /\ asking[a].op = "draw"
  /\ LET r    == asking[a].raffle
         seen == asking[a].seen
     IN \E winners \in drawWinners(Numbers(seen)) :
          /\ winners \subseteq Numbers(EntriesOf(r) \ Doomed)
          /\ raffle' = [raffle EXCEPT ![r].status = "drawn", ![r].winners = winners,
                                      ![r].ends = IF @ = Forever THEN asking[a].at ELSE @]
          /\ pool' = [pool EXCEPT ![r] = Numbers(seen)]
          /\ raced' = raced \cup Flag(seen # EntriesOf(r), "draw")
  /\ Done(a)
  /\ UNCHANGED <<now, donation, paidAt, granted, entries, grant, delivered, asked>>

-----------------------------------------------------------------------------
RafflesNext ==
  \/ Tick
  \/ \E d \in Donations : donationPaid(d) \/ donationRefunded(d) \/ grantNothing(d)
  \/ \E w \in Relays : (\E d \in Donations : grantRead(w, d)) \/ grantWithinTx(w)
  \/ \E a \in Admins :
       \/ \E c \in Config : createCheck(a, c) \/ (\E r \in Raffles : putCheck(a, r, c))
       \/ \E r \in Raffles : cancelAsk(a, r) \/ reopenRead(a, r) \/ drawClaim(a, r)
       \/ create(a) \/ updateConfig(a) \/ cancelDelete(a) \/ cancel(a)
       \/ reopen(a) \/ draw(a) \/ requestAbort(a)

RafflesSpec == RafflesInit /\ [][RafflesNext]_raffleVars

-----------------------------------------------------------------------------
(* The properties.  raced names the reads that were stale when they were   *)
(* acted on; each property says which of them it survives.                 *)

Has(kind) == kind \in raced

(* The columns have the values of their types, a row in progress is one a  *)
(* request can have, and no number is at or past the next one of an open   *)
(* raffle that no race touched.                                            *)
RafflesTypeOK ==
  /\ now \in Times /\ asked \in 0..MaxRequests /\ raced \subseteq Kinds
  /\ donation \in [Donations -> {"none", "paid", "refunded"}]
  /\ granted \in [Donations -> BOOLEAN]
  /\ raffle \in [Raffles -> Row]
  /\ \A e \in entries : /\ e.raffle \in Raffles /\ e.donation \in Donations
                        /\ raffle[e.raffle].status # "none"
                        /\ ~Has("status") /\ ~Has("seen") => e.number < raffle[e.raffle].next

(* Two raffles of a campaign that are not cancelled never share a moment   *)
(* (raffles.repository.ts:129), unless a request acted on a check that had *)
(* not seen a window another request committed meanwhile.  Closing a drawn *)
(* raffle's window, reopening a cancelled one, in whose period another may *)
(* have been created, and moving an open one all keep it.                  *)
WindowsDisjoint ==
  \A r, s \in Raffles :
    \/ r = s \/ Has("window")
    \/ {raffle[r].status, raffle[s].status} \cap {"none", "cancelled"} # {}
    \/ ~Overlap(raffle[r], raffle[s])

(* The same money never competes twice: a donation is marked granted       *)
(* exactly while it holds numbers, and holds them in one raffle, through   *)
(* repeated deliveries, backfills, cancellations and refunds.  Only a      *)
(* cancellation that deleted other entries than those it had read, or a    *)
(* status (of the raffle, of the donation) read too early, breaks it.      *)
NumbersOnce ==
  Has("status") \/ Has("seen") \/ Has("grant")
  \/ \A d \in Donations :
       LET mine == {e \in entries : e.donation = d}
       IN /\ granted[d] => Cardinality({e.raffle : e \in mine}) = 1
          /\ donation[d] = "paid" /\ mine # {} => granted[d]

(* Anyone can redo a draw from its seed and the published numbers          *)
(* (draw.ts:6): the entries of a drawn raffle stay the pool the winners    *)
(* were drawn from, and the winners stay among them, unless entries left   *)
(* while the draw ran or its status was overwritten.                       *)
Auditable ==
  Has("draw") \/ Has("status")
  \/ \A r \in Raffles : raffle[r].status = "drawn" =>
       /\ Numbers(EntriesOf(r)) = pool[r]
       /\ raffle[r].winners \in drawWinners(pool[r])

(* A drawn raffle does not come back (raffles.repository.ts:252), its      *)
(* winners are not replaced and its window does not move, unless a request *)
(* commits that had read it before the draw, with another status.          *)
DrawStands ==
  [][\A r \in Raffles :
       raffle[r].status = "drawn" => raffle'[r] = raffle[r] \/ "status" \in raced']_raffleVars

(* A donation is never left behind (raffles.repository.ts:60, 257): when   *)
(* nothing is in progress, a paid donation whose delivery is over and that *)
(* belongs to an open raffle holds its numbers.                            *)
NobodyLeftOut ==
  /\ raced = {}
  /\ \A a \in Admins : asking[a] = NoRequest
  /\ \A w \in Relays : grant[w] = NoRequest
  => \A d \in delivered :
       donation[d] = "paid" /\ ~granted[d] =>
         \A r \in resolveRaffleForDonation(raffle, paidAt[d]) :
           raffle[r].status = "open" => Worth(d, raffle[r].cents) = 0

=============================================================================
