-------------------------------- MODULE MCShop --------------------------------
(* Small instances of Shop for TLC. *)
EXTENDS Shop, TLC

CONSTANTS u1, u2, u3, p1, p2, p3, mug

OneBuyer == p1 :> u1 @@ p2 :> u1
ThreeBuyers == p1 :> u1 @@ p2 :> u2 @@ p3 :> u3
Prices == [i \in Items |-> IF i = Ticket THEN 2 ELSE 1]
=============================================================================
