----------------------------- MODULE OrderLife -----------------------------
(***************************************************************************)
(* What paying promises about each order, with no requests, webhooks or    *)
(* sweep: an order that waits for its payment is paid or canceled, a paid  *)
(* one may be refunded, and an order that was paid is sold by one of its   *)
(* payments, once.                                                         *)
(***************************************************************************)
CONSTANTS Payment, Order, OrderOf

VARIABLES order, sold

Pay(o) ==
  /\ order[o] = "PENDING_PAYMENT"
  /\ order' = [order EXCEPT ![o] = "PAID"]
  /\ UNCHANGED sold

Cancel(o) ==
  /\ order[o] = "PENDING_PAYMENT"
  /\ order' = [order EXCEPT ![o] = "CANCELED"]
  /\ UNCHANGED sold

Refund(o) ==
  /\ order[o] = "PAID"
  /\ order' = [order EXCEPT ![o] = "REFUNDED"]
  /\ UNCHANGED sold

Sell(p) ==
  /\ order[OrderOf[p]] \in {"PAID", "REFUNDED"}
  /\ \A q \in sold : OrderOf[q] # OrderOf[p]
  /\ sold' = sold \cup {p}
  /\ UNCHANGED order

Init ==
  /\ order = [o \in Order |-> "PENDING_PAYMENT"]
  /\ sold = {}

Next ==
  \/ \E o \in Order : Pay(o) \/ Cancel(o) \/ Refund(o)
  \/ \E p \in Payment : Sell(p)

Spec == Init /\ [][Next]_<<order, sold>>
=============================================================================
