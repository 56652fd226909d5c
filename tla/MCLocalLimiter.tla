--------------------------- MODULE MCLocalLimiter ---------------------------
(* Small instances of LocalLimiter for TLC. *)
EXTENDS LocalLimiter, TLC

CONSTANTS u1, c1, c2

Symmetry == Permutations(Call)
=============================================================================
