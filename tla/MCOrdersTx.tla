----------------------------- MODULE MCOrdersTx -----------------------------
(***************************************************************************)
(* Two orders of up to two items, paid through one provider, over two       *)
(* connections of the pool.                                                *)
(***************************************************************************)
EXTENDS OrdersTx

MCStock == [i \in Items |-> 2]

\* Any enumeration of the items serves as their ids.
MCItemId == CHOOSE f \in [Items -> 1..Cardinality(Items)] :
              \A i, j \in Items : f[i] = f[j] => i = j

\* A provider matters to one column only; two orders are paid through the same.
OneProvider == \A o \in Orders : provider[o] = "stripe"

TxSymmetry == Permutations(Txs) \cup Permutations(Orders)
=============================================================================
