------------------------------ MODULE MCGiving ------------------------------
(***************************************************************************)
(* What is given to a campaign, as money and as raffle numbers.  The two   *)
(* modules share no variable, so that their behaviours side by side would  *)
(* only multiply the states: a behaviour of this module is a behaviour of  *)
(* one of them, chosen in the initial state, while the other stays in an   *)
(* initial state of its own.                                               *)
(***************************************************************************)
EXTENDS Donations, MCRaffles

VARIABLE part

\* The same two model values are runs of the webhook in one part and
\* administrators in the other.
GivingSymmetry == Permutations(Runs)

\* Which gift an idle request to cancel names means nothing: one of them is enough.
GivingInit ==
  /\ part \in {"money", "numbers"}
  /\ DonationsInit
  /\ \A k \in Cancellers : cancelling[k][2] \in Monthlies
  /\ RafflesInit
  /\ part = "money" => raffle = [r \in Raffles |-> NoRow]

GivingNext ==
  \/ part = "money" /\ DonationsNext /\ UNCHANGED <<part, raffleVars>>
  \/ part = "numbers" /\ RafflesNext /\ UNCHANGED <<part, vars>>

(* Behaviours that differ only in what no later step and no property of    *)
(* this module reads are explored once: when a donation that is no longer  *)
(* paid was paid, whether its delivery is over (grantNothing, whose only   *)
(* effect is to say so, is all that asks), and, of the rows an             *)
(* administrator has read, what concerns the price and the numbers, which  *)
(* only the flag of a stale price would tell apart.                        *)
WindowsRead(req) ==
  IF req.op \in {"create", "put", "reopen"}
  THEN [op |-> req.op, of |-> IF req.op = "create" THEN 0 ELSE req.raffle,
        config |-> IF req.op = "reopen" THEN <<>> ELSE req.config,
        rows |-> [r \in Raffles |->
                    <<req.rows[r].status, req.rows[r].starts, req.rows[r].ends>>]]
  ELSE req

GivingView ==
  <<part, vars, now, donation, [d \in Donations |-> IF donation[d] = "paid" THEN paidAt[d] ELSE 0],
    granted, raffle, entries, pool, [a \in Admins |-> WindowsRead(asking[a])], grant, asked,
    raced \ {"price"}>>

GivingSpec == GivingInit /\ [][GivingNext]_<<part, vars, raffleVars>>
=============================================================================
