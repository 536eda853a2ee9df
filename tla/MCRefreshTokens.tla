--------------------------- MODULE MCRefreshTokens ---------------------------
(* Instances of RefreshTokens for TLC.                                      *)
EXTENDS RefreshTokens, TLC

CONSTANTS q1, q2, f1

Symmetry == Permutations({q1, q2})
=============================================================================
