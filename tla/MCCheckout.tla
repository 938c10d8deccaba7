----------------------------- MODULE MCCheckout -----------------------------
(***************************************************************************)
(* An instance of Checkout: one order, two runs of the webhook processor   *)
(* and up to two admins.                                                   *)
(***************************************************************************)
EXTENDS Checkout, TLC

\* Every row starts with one unit.
OneUnitEach == [i \in Items |-> 1]

\* Runs, and admins, are interchangeable.
ActorSymmetry == Permutations(Runs) \cup Permutations(Admins)
=============================================================================
