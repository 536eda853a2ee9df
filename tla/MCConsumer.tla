----------------------------- MODULE MCConsumer -----------------------------
(* Instances of Consumer for TLC.                                          *)
EXTENDS Consumer, TLC

CONSTANTS e1, p1, w1, w2

Symmetry == Permutations({w1, w2})
=============================================================================
