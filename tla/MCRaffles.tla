------------------------------ MODULE MCRaffles ------------------------------
(* The first donation is worth one number and the second two, of which the *)
(* limit leaves one.                                                       *)
EXTENDS Raffles, TLC

MCAmount == [d \in Donations |-> d]
=============================================================================
