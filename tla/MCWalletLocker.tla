--------------------------- MODULE MCWalletLocker ---------------------------
(***************************************************************************)
(* Callers and passphrases are model values and nothing tells two of them  *)
(* apart, so that a safety run may permute them.                           *)
(***************************************************************************)
EXTENDS WalletLocker, TLC

CONSTANTS c1, c2, p1, p2

MC_Symmetry == Permutations({c1, c2}) \cup Permutations({p1, p2})
=============================================================================
