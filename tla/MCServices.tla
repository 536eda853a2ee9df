----------------------------- MODULE MCServices ------------------------------
(* An instance of Services for TLC.                                        *)
EXTENDS Services, TLC

CONSTANTS c1, v1, v2, w1, w2, h1, h2, h3, p1, p2, q1, q2, api, relay,
          i1, i2, k1, k2, f1

Amounts == {-3, 2, 5}

(* The tokens of a login and its refreshes. *)
OneFamily == [t \in 1 .. MaxToken |-> f1]
=============================================================================
