------------------------------ MODULE MCOrders ------------------------------
(* Two orders of a store, one with its own seller's used product, a person
   of its panel, and a rate typed a hundred times too high. *)
EXTENDS Orders, TLC

CONSTANTS o1, o2, used, new, ana, shop, aide

MCBuyer == o1 :> ana @@ o2 :> shop

MCCart == o1 :> (used :> 0 @@ new :> 2) @@ o2 :> (used :> 1 @@ new :> 0)

MCSellerOf == used :> ana @@ new :> shop

MCPrice == used :> 1 @@ new :> 30

MCOfferPrice == used :> 1 @@ new :> 20

MCShippingCost == o1 :> 10 @@ o2 :> 0

MCStaffOf == ana :> None @@ shop :> None @@ aide :> shop

Symmetry == Permutations(Handler)
=============================================================================
