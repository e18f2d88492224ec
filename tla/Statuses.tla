------------------------------ MODULE Statuses ------------------------------
(***************************************************************************)
(* The status enumerations of prisma/schema.prisma, and the status groups  *)
(* the services test for.                                                  *)
(***************************************************************************)

PaymentStatus ==
  {"PENDING", "PROCESSING", "COMPLETED", "FAILED", "CANCELLED", "REFUNDED",
   "PARTIALLY_REFUNDED", "EXPIRED"}

OrderStatus == {"PENDING_PAYMENT", "PAID", "CANCELED", "REFUNDED"}

RefundStatus == {"PENDING", "PROCESSING", "COMPLETED", "FAILED", "CANCELLED"}

(* A payment that was charged and still has something to give back. *)
Refundable == {"COMPLETED", "PARTIALLY_REFUNDED"}

(* Refund rows that claim part of their payment. *)
OpenOrDone == {"PENDING", "PROCESSING", "COMPLETED"}

(* Refund rows a run of the refund job still acts on. *)
Executable == {"PENDING", "PROCESSING"}
=============================================================================
