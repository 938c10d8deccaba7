------------------------------ MODULE MCPixKey ------------------------------
(***************************************************************************)
(* One store of PixKey, its two keys, and a charge whose split names the   *)
(* first of them.                                                          *)
(***************************************************************************)
EXTENDS PixKey, TLC

PixSymmetry == Permutations(Keys)
=============================================================================
