------------------------------- MODULE MCStock -------------------------------
(***************************************************************************)
(* Instances of Stock: two orders of one product, with one unit too few    *)
(* for both, and a second payment of the first order, which pays its       *)
(* shipping too.                                                           *)
(***************************************************************************)
EXTENDS Stock, TLC

CONSTANTS o1, o2, p1, p2, p3

PaysOrder == p1 :> o1 @@ p2 :> o2 @@ p3 :> o1
PaidBy == o1 :> p1 @@ o2 :> p2
Units21 == [o \in Order |-> [i \in Product |-> IF o = o1 THEN 2 ELSE 1]]
OneEach == [i \in Product |-> 1]
TwoEach == [i \in Product |-> 2]
Charges == p1 :> 3 @@ p2 :> 2 @@ p3 :> 3
Asked == p1 :> 3 @@ p2 :> 0 @@ p3 :> 3
=============================================================================
