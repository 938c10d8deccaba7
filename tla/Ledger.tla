-------------------------------- MODULE Ledger --------------------------------
(***************************************************************************)
(* What the API promises about the money of a charge, whatever the charge  *)
(* pays for: it is announced only when the provider really took it, it is  *)
(* announced once, as income or as an orphan that somebody has to give     *)
(* back, and once given back it stays so.                                  *)
(***************************************************************************)
CONSTANT Charges

VARIABLES
  taken,     \* charges the provider has captured
  told,      \* what the outbox was told of each charge
  returned   \* charges whose payment is recorded as refunded

vars == <<taken, told, returned>>

Init ==
  /\ taken = {}
  /\ told = [c \in Charges |-> "nothing"]
  /\ returned = {}

Capture(c) ==
  /\ c \notin taken
  /\ taken' = taken \cup {c}
  /\ UNCHANGED <<told, returned>>

Announce(c) ==
  /\ c \in taken
  /\ told[c] = "nothing"
  /\ \E news \in {"received", "orphaned"} : told' = [told EXCEPT ![c] = news]
  /\ UNCHANGED <<taken, returned>>

Return(c) ==
  /\ told[c] \in {"received", "orphaned"}
  /\ c \notin returned
  /\ returned' = returned \cup {c}
  /\ UNCHANGED <<taken, told>>

Next == \E c \in Charges : Capture(c) \/ Announce(c) \/ Return(c)

Spec == Init /\ [][Next]_vars

=============================================================================
