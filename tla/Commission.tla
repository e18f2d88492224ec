----------------------------- MODULE Commission -----------------------------
(***************************************************************************)
(* splitCommission of src/payments/commission.service.ts: EKORU's share of *)
(* a sale and the seller's.  Rates are whole percents and amounts whole    *)
(* pesos, so the product of the two is exact.                              *)
(***************************************************************************)
EXTENDS Integers

MaxRate == 99

(* A rate that is not positive is none, one above the cap is a typo. *)
SafeRate(rate) == IF rate > MaxRate THEN MaxRate ELSE IF rate > 0 THEN rate ELSE 0

(* Math.round takes a half up. *)
Fee(amount, rate) == (amount * SafeRate(rate) + 50) \div 100

Net(amount, rate) == amount - Fee(amount, rate)
=============================================================================
