------------------------------- MODULE MCDev -------------------------------
(* Small instances of DevRedeem for TLC: model values and bounds.            *)
EXTENDS DevRedeem, TLC

DevSymmetric == Permutations(Voucher) \union Permutations(Nonce)
                  \union Permutations(PublicId) \union Permutations(Request)
=============================================================================
