-------------------------- MODULE MCOrderPlacement --------------------------
(* Instances of OrderPlacement for TLC.                                     *)
EXTENDS OrderPlacement, TLC

CONSTANTS k1, k2, p1, p2, u1, u2, b1, b2, bad

Create(k, b) == [op |-> "create", key |-> k, body |-> b]
Checkout(u, p, q) == [op |-> "checkout", user |-> u, product |-> p, qty |-> q]
Update(o, s) == [op |-> "update", target |-> o, status |-> s]

(* Retries under one key, another body, a body that fails, another key, a   *)
(* status change racing with them.                                          *)
CreateArgs ==
  (1 :> Create(k1, b1)) @@ (2 :> Create(k1, b1)) @@ (3 :> Create(k1, b2)) @@
  (4 :> Create(k1, bad)) @@ (5 :> Create(k2, b1)) @@
  (6 :> Update(1, "shipped"))

(* Two users and two products, with enough for some of the requests only;   *)
(* 6 asks for nothing.                                                      *)
CheckoutArgs ==
  (1 :> Checkout(u1, p1, 1)) @@ (2 :> Checkout(u2, p1, 2)) @@
  (3 :> Checkout(u1, p2, 1)) @@ (4 :> Checkout(u2, p2, 1)) @@
  (5 :> Checkout(u1, p1, 1)) @@ (6 :> Checkout(u1, p1, -1))

CheckoutPrice == (p1 :> 2) @@ (p2 :> 3)
CheckoutStock == (p1 :> 2) @@ (p2 :> 1)
CheckoutBalance == (u1 :> 5) @@ (u2 :> 5)

(* Both paths side by side, and a status change of an order that one of     *)
(* them may create.                                                         *)
MixedArgs ==
  (1 :> Create(k1, b1)) @@ (2 :> Create(k1, b1)) @@
  (3 :> Checkout(u1, p1, 1)) @@ (4 :> Checkout(u2, p1, 2)) @@
  (5 :> Checkout(u1, p2, 1)) @@ (6 :> Update(3, "shipped"))

Workloads == {CreateArgs, CheckoutArgs, MixedArgs}
ReplayWorkload == {CreateArgs}
=============================================================================
