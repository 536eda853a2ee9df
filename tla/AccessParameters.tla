--------------------------- MODULE AccessParameters --------------------------
(* The constants of Access and what it assumes of them; Services has the   *)
(* same ones for all of its modules.                                       *)
EXTENDS Integers

CONSTANTS Client,      \* each has one request in flight and at most one socket
          MaxToken,    \* bound: access tokens, numbered as they are signed
          Family, FamilyOf,  \* FamilyOf[t]: the claim fid
          PerSecond,   \* ticks of the clock per second
          AccessTtl,   \* ACCESS_TTL_SEC
          MaxTime      \* bound: the clock, in ticks

ASSUME AccessAssumption == /\ MaxToken \in Nat
                           /\ FamilyOf \in [1 .. MaxToken -> Family]
                           /\ PerSecond \in Nat \ {0}
                           /\ AccessTtl \in Nat \ {0}
                           /\ MaxTime \in Nat
=============================================================================
