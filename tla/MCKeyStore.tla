----------------------------- MODULE MCKeyStore -----------------------------
(* Instance of KeyStore for TLC. *)
EXTENDS KeyStore, TLC

CONSTANTS p1, p2

Symmetry == Permutations({p1, p2})
=============================================================================
