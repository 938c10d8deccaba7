---------------------------- MODULE MCStatement ----------------------------
(***************************************************************************)
(* A store of two events of two seats: a course led by ana and a dinner    *)
(* led by bia, each of whom has a part of the price.                       *)
(***************************************************************************)
EXTENDS Statement

EventsOfStore == {"course", "dinner"}
Agreement     == [course |-> "ana", dinner |-> "bia"]
CentsEach     == [course |-> 5, dinner |-> 7]
PartEach      == [course |-> 2, dinner |-> 3]
TwoSeatsEach  == [course |-> 2, dinner |-> 2]
=============================================================================
