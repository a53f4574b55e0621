------------------------------ MODULE PdoSelect -----------------------------
(***************************************************************************)
(* ProfileSelector (heater/profile_selector.hpp): which of the PDOs that   *)
(* the charger offers feeds the heater, at what voltage and duty.  Pure    *)
(* operators over a table of descriptors, in mV, mA, mW and mOhm as in the *)
(* code.  A profile is named by its position, 1 being the 5 V profile that *)
(* every charger has (the code counts current_index from 0).               *)
(***************************************************************************)
EXTENDS Integers, Sequences

Apdos    == {"PPS", "SPR_AVS", "EPR_AVS"}
Variants == Apdos \cup {"FIXED", "UNKNOWN"}

DefaultDesired  == 6000      \* DEFAULT_MV_DESIRED
DefaultFallback == 5000      \* DEFAULT_MV_FALLBACK

UpSource   == 5              \* PROFILE_UP_SRC_POWER_THRESHOLD_PCT
UpTarget   == 10             \* PROFILE_UP_DST_POWER_RESERVE_PCT
DownTarget == 40             \* PROFILE_DOWN_DST_POWER_RESERVE_PCT
InMargin   == 3              \* PROFILE_IN_CURRENT_MARGIN_PCT
OutMargin  == 1              \* PROFILE_OUT_CURRENT_MARGIN_PCT

Lesser(a, b)  == IF a < b THEN a ELSE b
Greater(a, b) == IF a < b THEN b ELSE a
First(S) == CHOOSE i \in S : \A j \in S : i <= j
Last(S)  == CHOOSE i \in S : \A j \in S : j <= i

(***************************************************************************)
(* load_pdos.                                                              *)
(***************************************************************************)

\* PDOs as the PD library reports them (get_src_pdo_limits), and what USB PD lets
\* a source send: 5 V first (profile_selector.hpp:172), fixed voltages ascending.
\* A current has ten bits of 10 mA at most.
MaxCurrent == 10230
Pdos == [variant : Variants, mv_min : Nat, mv_max : Nat, ma : 0..MaxCurrent, pdp : Nat]
WellFormed(pdos) ==
  /\ pdos \in Seq(Pdos) /\ pdos # <<>>
  /\ pdos[1].variant = "FIXED" /\ pdos[1].mv_min = 5000
  /\ \A i \in DOMAIN pdos : pdos[i].variant = "FIXED" => pdos[i].mv_min = pdos[i].mv_max
  /\ \A i, j \in DOMAIN pdos :
       i < j /\ pdos[i].variant = "FIXED" /\ pdos[j].variant = "FIXED" =>
         pdos[i].mv_max < pdos[j].mv_max

\* What an unsupported PDO leaves in the table, to keep the positions.
Hole == [variant |-> "UNKNOWN", mv_min |-> 0, mv_max |-> 0, ma_max |-> 0, pdp_mw |-> 0]

\* A PDO as the selector keeps it. An EPR AVS declares a power and no current.
Descriptor(pdo) ==
  LET mv_min == Greater(5000, pdo.mv_min) IN
  IF pdo.variant = "UNKNOWN" THEN Hole
  ELSE [variant |-> pdo.variant, mv_min |-> mv_min, mv_max |-> pdo.mv_max,
        ma_max |-> IF pdo.ma > 0 THEN pdo.ma
                   ELSE Lesser(5000, (pdo.pdp * 1000000) \div mv_min),
        pdp_mw |-> pdo.pdp * 1000]

LoadPdos(pdos) == [i \in DOMAIN pdos |-> Descriptor(pdos[i])]

\* Mutant: the index of the profile is taken for its position, and back.
DefaultShifted(ds) ==
  LET six == {i \in 2..Len(ds) : /\ ds[i].mv_min <= DefaultDesired
                                 /\ ds[i].mv_max >= DefaultDesired} IN
  IF six = {} THEN [pos |-> 1, mv |-> DefaultFallback]
              ELSE [pos |-> Last(six) + 1, mv |-> DefaultDesired]

\* The contract to begin with: the last profile that gives 6 V, or the first
\* one at 5 V.
Default(ds) ==
  LET six == {i \in 2..Len(ds) : /\ ds[i].mv_min <= DefaultDesired
                                 /\ ds[i].mv_max >= DefaultDesired} IN
  IF six = {} THEN [pos |-> 1, mv |-> DefaultFallback]
              ELSE [pos |-> Last(six), mv |-> DefaultDesired]

(***************************************************************************)
(* What a profile can do for a load of r mOhm.                             *)
(***************************************************************************)
IsApdo(d) == d.variant \in Apdos

\* mw_max: limited by voltage, by current and by the power of the source.
MwMax(d, r) ==
  LET byVoltage == (d.mv_max * d.mv_max) \div r
      byCurrent == (((d.ma_max * d.ma_max) \div 1000) * r) \div 1000
      mw == Lesser(byVoltage, byCurrent)
  IN IF d.pdp_mw > 0 THEN Lesser(mw, d.pdp_mw) ELSE mw

WithReserve(d, r, pct) == (MwMax(d, r) * (100 - pct)) \div 100

\* has_current_margin. A profile without current has an unreachable mohms_min.
HasMargin(d, r, pct) ==
  /\ d.ma_max > 0
  /\ r >= (((d.mv_min * 1000) \div d.ma_max) * (100 + pct)) \div 100

\* is_apdo_min_voltage_trap: even at its lowest voltage it gives too much.
Trapped(d, r, mw, mv) ==
  /\ IsApdo(d) /\ d.mv_min > mv
  /\ (d.mv_min * d.mv_min) \div r > (mw * 103) \div 100

(***************************************************************************)
(* better_pdo_available.                                                   *)
(***************************************************************************)

\* What scan_up and the search for an APDO may take.
Allowed(ds, r, mw) ==
  {i \in DOMAIN ds : HasMargin(ds[i], r, InMargin)
                     /\ ~Trapped(ds[i], r, mw, Default(ds).mv)}
Serving(ds, r, mw, pct) ==
  {i \in Allowed(ds, r, mw) : IsApdo(ds[i]) /\ mw <= WithReserve(ds[i], r, pct)}

\* Mutant: for want of an APDO the strongest profile, whatever it draws.
ScanUpBlind(ds, from, r, mw) ==
  LET power(i) == WithReserve(ds[i], r, UpTarget)
      known == {i \in DOMAIN ds : ds[i].variant # "UNKNOWN"}
      apdos == Serving(ds, r, mw, UpTarget)
  IN IF apdos # {} THEN Last(apdos)
     ELSE First({i \in known : \A j \in known : power(i) >= power(j)})

\* scan_up: the last APDO that serves, else the first profile that does, else
\* the strongest one.
ScanUp(ds, from, r, mw) ==
  LET power(i) == WithReserve(ds[i], r, UpTarget)
      known  == {i \in Allowed(ds, r, mw) : ds[i].variant # "UNKNOWN"}
      apdos  == Serving(ds, r, mw, UpTarget)
      enough == {i \in known : power(i) > mw}
      better == {i \in known : power(i) > power(from)}
  IN IF apdos # {} THEN Last(apdos)
     ELSE IF enough # {} THEN First(enough)
     ELSE IF better # {} THEN First({i \in better : \A j \in better : power(i) >= power(j)})
     ELSE from

\* Mutant: a lower profile is taken without a reserve.
ScanDownTight(ds, from, r, mw) ==
  LET apdos == Serving(ds, r, mw, DownTarget)
      lower == {i \in DOMAIN ds : /\ ds[i].variant = "FIXED"
                                  /\ HasMargin(ds[i], r, InMargin)
                                  /\ ds[i].mv_max < ds[from].mv_max
                                  /\ mw <= WithReserve(ds[i], r, 0)}
  IN IF apdos # {} THEN First(apdos)
     ELSE IF lower # {} THEN First(lower) ELSE from

\* scan_down: the first APDO that serves with a large reserve, else the first
\* lower fixed profile that does.
ScanDown(ds, from, r, mw) ==
  LET apdos == Serving(ds, r, mw, DownTarget)
      lower == {i \in DOMAIN ds : /\ ds[i].variant = "FIXED"
                                  /\ HasMargin(ds[i], r, InMargin)
                                  /\ ds[i].mv_max < ds[from].mv_max
                                  /\ mw <= WithReserve(ds[i], r, DownTarget)}
  IN IF apdos # {} THEN First(apdos)
     ELSE IF lower # {} THEN First(lower) ELSE from

\* The profile to search from: the current one, unless it is not known, is close
\* to its current limit or gives too much even at its lowest voltage.
Base(ds, cur, r, mw) ==
  IF \/ cur \notin DOMAIN ds
     \/ ds[cur].variant = "UNKNOWN"
     \/ ~HasMargin(ds[cur], r, OutMargin)
     \/ Trapped(ds[cur], r, mw, Default(ds).mv)
  THEN 1 ELSE cur

\* Mutant: the headroom of an upgrade has the wrong sign.
BetterPdoLate(ds, cur, r, mw) ==
  LET idx == Base(ds, cur, r, mw) IN
  IF ds = <<>> \/ r = 0 THEN cur
  ELSE IF mw > WithReserve(ds[idx], r, 0 - UpSource) THEN ScanUp(ds, idx, r, mw)
  ELSE IF ds[idx].variant = "FIXED" THEN ScanDown(ds, idx, r, mw)
  ELSE idx

\* The profile to go to, or to stay at: up when the target comes close to what
\* the profile has, down from fixed profiles only.
BetterPdo(ds, cur, r, mw) ==
  LET idx == Base(ds, cur, r, mw) IN
  IF ds = <<>> \/ r = 0 THEN cur
  ELSE IF mw > WithReserve(ds[idx], r, UpSource) THEN ScanUp(ds, idx, r, mw)
  ELSE IF ds[idx].variant = "FIXED" THEN ScanDown(ds, idx, r, mw)
  ELSE idx

(***************************************************************************)
(* get_pdo_usage_params.                                                   *)
(***************************************************************************)

\* isqrt64, bit by bit: what is left, the root so far and the digits to go.
\* 4^15 is the highest power of four that TLC can hold.
Partial == [x : Nat, r : Nat, k : 0..16]
Root[p \in Partial] ==
  IF p.k = 0 THEN p.r
  ELSE LET bit == 4 ^ (p.k - 1) IN
       Root[IF p.x >= p.r + bit
            THEN [x |-> p.x - (p.r + bit), r |-> p.r \div 2 + bit, k |-> p.k - 1]
            ELSE [x |-> p.x, r |-> p.r \div 2, k |-> p.k - 1]]
Isqrt(n) == Root[[x |-> n, r |-> 0, k |-> 16]]

\* What these digits are enough for, as far as TLC counts. The code has 64 bits.
Rootable(n) == n <= 2147483647

\* The voltage of an adjustable profile for mw into r: V = sqrt(P * R).
ApdoMv(d, r, mw, mv) ==
  Greater(mv, Lesser(d.mv_max, Greater(d.mv_min, Isqrt(mw * r))))

\* Mutant: the duty is computed for what was asked, not for what can be had.
UsageGreedy(ds, idx, r, mw) ==
  IF idx \notin DOMAIN ds \/ r = 0 \/ ds[idx].variant = "UNKNOWN"
  THEN [idx |-> idx, mv |-> 0, duty |-> 0]
  ELSE LET d  == ds[idx]
           mv == IF IsApdo(d) THEN ApdoMv(d, r, mw, Default(ds).mv) ELSE d.mv_min
       IN [idx |-> idx, mv |-> mv, duty |-> Lesser(1000, (mw * 1000) \div ((mv * mv) \div r))]

\* The duty that gives mw, or the most the profile has, at its voltage.
Usage(ds, idx, r, mw) ==
  IF idx \notin DOMAIN ds \/ r = 0 \/ ds[idx].variant = "UNKNOWN"
  THEN [idx |-> idx, mv |-> 0, duty |-> 0]
  ELSE LET d == ds[idx]
           possible == Lesser(mw, MwMax(d, r))
           mv == IF IsApdo(d) THEN ApdoMv(d, r, possible, Default(ds).mv)
                 ELSE d.mv_min
           full == (mv * mv) \div r
       IN [idx |-> idx, mv |-> mv,
           duty |-> IF full = 0 THEN 0 ELSE Lesser(1000, (possible * 1000) \div full)]

\* plan_power.
PlanPower(ds, cur, r, mw) == Usage(ds, BetterPdo(ds, cur, r, mw), r, mw)
=============================================================================
