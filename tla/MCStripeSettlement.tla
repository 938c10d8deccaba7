------------------------- MODULE MCStripeSettlement -------------------------
(***************************************************************************)
(* One payment: its row, the ticks of two processes, and the people who    *)
(* ask for its refund.                                                     *)
(***************************************************************************)
EXTENDS StripeSettlement, TLC

SameInstant == [e \in Rows |-> 0]

OnePayment == [e \in Rows |-> CHOOSE p \in Payments : TRUE]

\* Nothing tells one tick, or one admin, from the other.
SettlementSymmetry == Permutations(Ticks) \cup Permutations(Admins)
=============================================================================
