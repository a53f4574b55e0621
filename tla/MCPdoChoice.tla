---------------------------- MODULE MCPdoChoice ----------------------------
(***************************************************************************)
(* Chargers as they are sold, heaters from hot to cold.                    *)
(***************************************************************************)
EXTENDS PdoChoice

Pdo(variant, min, max, ma, pdp) ==
  [variant |-> variant, mv_min |-> min, mv_max |-> max, ma |-> ma, pdp |-> pdp]
Fixed(mv, ma) == Pdo("FIXED", mv, mv, ma, 0)
Unknown == Pdo("UNKNOWN", 0, 0, 0, 0)

Plain   == <<Fixed(5000, 3000)>>
Laptop  == <<Fixed(5000, 3000), Fixed(9000, 3000), Fixed(15000, 3000), Fixed(20000, 3250)>>
Phone   == <<Fixed(5000, 3000), Fixed(9000, 2000), Pdo("PPS", 3300, 11000, 3000, 0)>>
Dual    == <<Fixed(5000, 3000), Fixed(9000, 2770), Pdo("PPS", 3300, 5900, 3000, 0),
             Pdo("PPS", 3300, 11000, 2250, 0)>>
Desktop == <<Fixed(5000, 3000), Fixed(9000, 3000), Fixed(12000, 3000), Fixed(15000, 3000),
             Fixed(20000, 5000), Pdo("PPS", 5000, 21000, 5000, 0)>>
Avs     == <<Fixed(5000, 3000), Fixed(9000, 3000), Fixed(15000, 3000),
             Pdo("SPR_AVS", 9000, 15000, 3000, 0)>>
Epr     == <<Fixed(5000, 3000), Fixed(9000, 3000), Fixed(15000, 5000), Fixed(20000, 5000),
             Unknown, Unknown, Unknown, Fixed(28000, 5000), Unknown, Unknown,
             Pdo("EPR_AVS", 15000, 28000, 0, 140)>>
\* At 6.67 Ohm the 20 V profile and the PPS are equally strong.
Cross   == <<Fixed(5000, 3000), Fixed(9000, 3000), Fixed(15000, 3000), Fixed(20000, 3250),
             Pdo("PPS", 3300, 21000, 3000, 0)>>

AllChargers == {Plain, Laptop, Phone, Dual, Desktop, Avs, Epr, Cross}
Heaters == {1100, 1750, 2500, 3200, 3500, 5200, 6500, 6700, 7000, 10000, 30000}
Wattages == {0, 2000, 5000, 8000, 9000, 15000, 17000, 25000, 32000, 45000, 62000, 63000, 64000,
             90000, 140000}
=============================================================================
