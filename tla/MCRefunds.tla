------------------------------ MODULE MCRefunds ------------------------------
(***************************************************************************)
(* Instances of Refunds for TLC.  Amounts are in half pesos, the unit of   *)
(* the EPSILON of 0.5.                                                     *)
(***************************************************************************)
EXTENDS Refunds, TLC

CONSTANTS p1, p2, o1, r1, r2, r3, h1, h2

OnePayment == {p1}
TwoPayments == {p1, p2}

(* p1 and p2 pay the same order: a buyer with two tabs. *)
SameOrder == [p \in Payment |-> o1]

(* One charge of two pesos. *)
TwoPesos == [p \in Payment |-> 4]

OnePeso == [p \in Payment |-> 2]

RowSymmetry == Permutations(Refund)

RowAndHookSymmetry == Permutations(Refund) \cup Permutations(Hook)
=============================================================================
