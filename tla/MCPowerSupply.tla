--------------------------- MODULE MCPowerSupply ---------------------------
(* Instances of PowerSupply for TLC: a phone's charger and one with EPR,   *)
(* few heads.                                                              *)
EXTENDS PowerSupply

Pdo(variant, min, max, ma) ==
  [variant |-> variant, mv_min |-> min, mv_max |-> max, ma |-> ma, pdp |-> 0]
Fixed(mv, ma) == Pdo("FIXED", mv, mv, ma)

Unknown == Pdo("UNKNOWN", 0, 0, 0)
Brick  == <<Fixed(5000, 3000), Fixed(9000, 3000), Fixed(20000, 5000),
            Unknown, Unknown, Unknown, Unknown, Fixed(28000, 5000)>>
Phone  == <<Fixed(5000, 3000), Fixed(9000, 2000), Pdo("PPS", 3300, 11000, 3000)>>
TwoOffers == [none |-> <<>>, brick |-> Brick, phone |-> Phone]
TwoHeads == {0, 3500, 7000}
Powers   == {0, 15000, 80000}
=============================================================================
