--------------------------- MODULE MCPaymentFlow ---------------------------
(***************************************************************************)
(* Instances of PaymentFlow for TLC: payments of one order.                *)
(***************************************************************************)
EXTENDS PaymentFlow, TLC

CONSTANTS p1, p2, o1, h1, h2

SameOrder == [p \in Payment |-> o1]

HandlerSymmetry == Permutations(Handler)
=============================================================================
