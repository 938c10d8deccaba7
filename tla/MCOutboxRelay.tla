--------------------------- MODULE MCOutboxRelay ---------------------------
(***************************************************************************)
(* Two processes and two rows of the same instant, read one at a time, so  *)
(* that the candidates of the two ticks need not be the same.              *)
(***************************************************************************)
EXTENDS OutboxRelay

SameInstant == [e \in Rows |-> 0]
=============================================================================
