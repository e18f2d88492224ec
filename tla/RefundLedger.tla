---------------------------- MODULE RefundLedger ----------------------------
(***************************************************************************)
(* What the refund machinery promises about each payment, with no rows,    *)
(* jobs or webhooks: part of the charge is claimed by refunds, part of     *)
(* what is claimed has been returned.  A claim is released only before it  *)
(* is returned, and what was returned stays returned.                      *)
(***************************************************************************)
EXTENDS Integers

CONSTANTS Payment, Limit   \* Limit: the most that may be claimed of each

VARIABLES claimed, returned

Claim(p) == \E a \in 1..(Limit[p] - claimed[p]) :
  /\ claimed' = [claimed EXCEPT ![p] = @ + a]
  /\ UNCHANGED returned

Release(p) == \E a \in 1..(claimed[p] - returned[p]) :
  /\ claimed' = [claimed EXCEPT ![p] = @ - a]
  /\ UNCHANGED returned

Return(p) == \E a \in 1..(claimed[p] - returned[p]) :
  /\ returned' = [returned EXCEPT ![p] = @ + a]
  /\ UNCHANGED claimed

(* Returned without having been claimed first: the store's own refund. *)
ClaimAndReturn(p) == \E a \in 1..(Limit[p] - claimed[p]) :
  /\ claimed' = [claimed EXCEPT ![p] = @ + a]
  /\ returned' = [returned EXCEPT ![p] = @ + a]

Init ==
  /\ claimed = [p \in Payment |-> 0]
  /\ returned = [p \in Payment |-> 0]

Next == \E p \in Payment : Claim(p) \/ Release(p) \/ Return(p) \/ ClaimAndReturn(p)

Spec == Init /\ [][Next]_<<claimed, returned>>
=============================================================================
