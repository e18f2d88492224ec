------------------------------- MODULE MCDeals -------------------------------
(***************************************************************************)
(* Instances of Deals: a bicycle that ana offers, which beto would buy and *)
(* carla would exchange for her cheaper coat.                              *)
(***************************************************************************)
EXTENDS Deals, TLC

CONSTANTS ana, beto, carla, bike, coat, d1, d2

Owners == bike :> ana @@ coat :> carla
Prices == bike :> 2 @@ coat :> 1
Proposals ==
  d1 :> [buyer |-> beto, wanted |-> bike, offered |-> None] @@
  d2 :> [buyer |-> carla, wanted |-> bike, offered |-> coat]
=============================================================================
