------------------------------- MODULE MCRelay -------------------------------
(* Instances of Relay for TLC.                                             *)
EXTENDS Relay, TLC

CONSTANTS e1, e2, r1, r2

Symmetry == Permutations({e1, e2}) \union Permutations({r1, r2})
=============================================================================
