------------------------------ MODULE MCRedeem ------------------------------
(* Small instances of RedeemSystem for TLC: model values and bounds.         *)
EXTENDS RedeemLife, TLC

Symmetric == Permutations(Worker) \union Permutations(Order)
OrderSymmetric == Permutations(Order)
=============================================================================
