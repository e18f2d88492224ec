------------------------------ MODULE MCQuotes ------------------------------
(* Two ways to pay one quotation, and a membership. *)
EXTENDS Quotes

CONSTANTS mp, wp, ms, q1

MCQuoteOf == [p \in Payment |-> IF p = ms THEN None ELSE q1]

MCProvider == [p \in Payment |-> IF p # mp THEN "WEBPAY" ELSE "MERCADOPAGO"]
=============================================================================
