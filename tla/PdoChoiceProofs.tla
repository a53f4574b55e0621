--------------------------- MODULE PdoChoiceProofs --------------------------
(***************************************************************************)
(* Proofs about PdoChoice, for any chargers, loads and targets: a profile  *)
(* is always there to be chosen, the one that is chosen serves the target  *)
(* if any does, within its current, delivers what is asked but for the     *)
(* rounding, is not given up by itself and not for what it replaced; the   *)
(* pulses make the planned duty.  The first half are lemmas about the      *)
(* operators of PdoSelect, some of which PowerSupplyProofs cites: the      *)
(* types of tables and plans, what the search for a better profile may     *)
(* come back with, that isqrt64 is the root, and what voltage and duty     *)
(* lose by rounding.                                                       *)
(***************************************************************************)
EXTENDS PdoChoice, WellFoundedInduction, TLAPS

(***************************************************************************)
(* The first, the last and the strongest of a set of positions.            *)
(***************************************************************************)

\* Any numbers have a least one among them.
LEMMA LeastNumber ==
  ASSUME NEW T \in SUBSET Nat, T # {}
  PROVE  \E m \in T : \A x \in T : m <= x
<1>1. PICK m \in T : \A x \in T : ~(<<x, m>> \in OpToRel(<, Nat))
  BY WFMin, NatLessThanWellFounded, Zenon
<1>2. \A x \in T : x < m => <<x, m>> \in OpToRel(<, Nat)
  BY Zenon DEF OpToRel
<1>3. \A x \in T : ~(x < m)
  BY <1>1, <1>2, Zenon
<1>4. \A x \in T : m <= x
  BY <1>3
<1> QED  BY <1>4

\* First and Last of positions are among them.
LEMMA FirstFound ==
  ASSUME NEW S \in SUBSET Nat, S # {}
  PROVE  First(S) \in S /\ \A j \in S : First(S) <= j
<1>1. PICK m \in S : \A x \in S : m <= x
  BY LeastNumber
<1> QED  BY <1>1 DEF First

LEMMA LastFound ==
  ASSUME NEW n \in Nat, NEW S \in SUBSET (1..n), S # {}
  PROVE  Last(S) \in S /\ \A j \in S : j <= Last(S)
<1> DEFINE T == {n - i : i \in S}
<1>1. T \in SUBSET Nat /\ T # {}
  <2>1. \A i \in S : n - i \in Nat
    OBVIOUS
  <2> QED  BY <2>1
<1>2. PICK t \in T : \A x \in T : t <= x
  <2> HIDE DEF T
  <2> QED  BY <1>1, LeastNumber
<1>3. PICK i \in S : t = n - i
  BY <1>2
<1>4. \A j \in S : n - i <= n - j
  BY <1>2, <1>3
<1>5. \A j \in S : j <= i
  BY <1>4
<1> QED  BY <1>5 DEF Last

\* One of finitely many profiles is the strongest. The least n for which it is not so
\* would have a profile to leave out.
LEMMA StrongestFound ==
  ASSUME NEW n \in Nat, NEW power \in [1..n -> Nat], NEW S \in SUBSET (1..n), S # {}
  PROVE  \E m \in S : \A j \in S : power[m] >= power[j]
<1> DEFINE Has(k) == \A T \in SUBSET (S \cap 1..k) :
                       T # {} => \E m \in T : \A j \in T : power[m] >= power[j]
           Bad == {k \in Nat : ~Has(k)}
<1>1. ASSUME Bad # {} PROVE FALSE
  <2>1. PICK k \in Bad : \A x \in Bad : k <= x
    <3>1. Bad \in SUBSET Nat /\ Bad # {}
      BY <1>1
    <3> HIDE DEF Bad
    <3> QED  BY <3>1, LeastNumber
  <2>2. PICK T \in SUBSET (S \cap 1..k) :
          T # {} /\ ~(\E m \in T : \A j \in T : power[m] >= power[j])
    BY <2>1
  <2>3. k \in Nat /\ k # 0
    <3>1. k \in Nat
      BY <2>1
    <3>2. PICK j \in T : j \in 1..k
      BY <2>2
    <3> QED  BY <3>1, <3>2
  <2>4. Has(k - 1)
    <3>1. k - 1 \in Nat /\ ~(k <= k - 1)
      BY <2>3
    <3> QED  BY <2>1, <3>1
  <2> DEFINE U == T \ {k}
  <2>5. U \in SUBSET (S \cap 1..(k - 1))
    BY <2>2, <2>3
  <2>6. \A j \in T : power[j] \in Nat
    BY <2>2
  <2>7. U # {}
    BY <2>2, <2>6
  <2>8. PICK m \in U : \A j \in U : power[m] >= power[j]
    BY <2>4, <2>5, <2>7
  <2>9. k \in T
    BY <2>2, <2>8
  <2>10. CASE power[m] >= power[k]
    BY <2>2, <2>8, <2>10
  <2>11. CASE ~(power[m] >= power[k])
    <3>1. \A j \in T : power[k] >= power[j]
      BY <2>6, <2>8, <2>9, <2>11
    <3> QED  BY <2>2, <2>9, <3>1
  <2> QED  BY <2>10, <2>11
<1>2. Has(n)
  BY <1>1
<1> QED  BY <1>2

(***************************************************************************)
(* The table.                                                              *)
(***************************************************************************)
Descriptors == [variant : Variants, mv_min : Nat, mv_max : Nat, ma_max : Nat, pdp_mw : Nat]

LEMMA CurrentsTyped == MaxCurrent \in Nat /\ 5000 <= MaxCurrent
BY SMT DEF MaxCurrent

LEMMA Arithmetic ==
  /\ \A a, b \in Nat : a * b \in Nat
  /\ \A a \in Nat, b \in Nat \ {0} : a \div b \in Nat
  /\ \A a, b \in Nat : Lesser(a, b) \in Nat /\ Greater(a, b) \in Nat
  /\ \A a, b \in Nat : /\ Lesser(a, b) <= a /\ Lesser(a, b) <= b
                       /\ a <= Greater(a, b) /\ b <= Greater(a, b)
BY DEF Lesser, Greater

LEMMA DescriptorTyped ==
  ASSUME NEW pdo \in Pdos
  PROVE  /\ Descriptor(pdo) \in Descriptors
         /\ Descriptor(pdo).variant = pdo.variant
         /\ Descriptor(pdo).ma_max <= MaxCurrent
         /\ pdo.variant # "UNKNOWN" => /\ Descriptor(pdo).mv_max = pdo.mv_max
                                       /\ Descriptor(pdo).mv_min = Greater(5000, pdo.mv_min)
<1>1. pdo.variant \in Variants /\ pdo.mv_min \in Nat /\ pdo.mv_max \in Nat
      /\ pdo.ma \in Nat /\ pdo.ma <= MaxCurrent /\ pdo.pdp \in Nat
  BY CurrentsTyped DEF Pdos
<1>2. CASE pdo.variant = "UNKNOWN"
  BY <1>2, CurrentsTyped, SMT DEF Descriptor, Hole, Descriptors, Variants
<1>3. CASE pdo.variant # "UNKNOWN"
  <2> DEFINE mv_min == Greater(5000, pdo.mv_min)
             ma == IF pdo.ma > 0 THEN pdo.ma
                   ELSE Lesser(5000, (pdo.pdp * 1000000) \div mv_min)
  <2>1. mv_min \in Nat \ {0}
    BY <1>1 DEF Greater
  <2>2. pdo.pdp * 1000000 \in Nat /\ pdo.pdp * 1000 \in Nat
    BY <1>1, SMT
  <2>3. ma \in Nat /\ ma <= MaxCurrent
    <3>1. (pdo.pdp * 1000000) \div mv_min \in Nat
      <4> HIDE DEF mv_min
      <4> QED  BY <2>1, <2>2, SMT
    <3> DEFINE x == (pdo.pdp * 1000000) \div mv_min
    <3>2. x \in Nat /\ ma = IF pdo.ma > 0 THEN pdo.ma ELSE Lesser(5000, x)
      BY <3>1, SMT
    <3> HIDE DEF x, ma
    <3> QED  BY <1>1, <3>2, CurrentsTyped, SMT DEF Lesser
  <2> HIDE DEF mv_min, ma
  <2>4. [variant |-> pdo.variant, mv_min |-> mv_min, mv_max |-> pdo.mv_max,
         ma_max |-> ma, pdp_mw |-> pdo.pdp * 1000] \in Descriptors
    BY <1>1, <2>1, <2>2, <2>3 DEF Descriptors
  <2> QED  BY <1>3, <2>3, <2>4, SMT DEF Descriptor, mv_min, ma
<1> QED  BY <1>2, <1>3

LEMMA TableTyped ==
  ASSUME NEW pdos \in Seq(Pdos)
  PROVE  /\ LoadPdos(pdos) \in Seq(Descriptors)
         /\ Len(LoadPdos(pdos)) = Len(pdos)
         /\ DOMAIN LoadPdos(pdos) = 1..Len(pdos)
         /\ \A i \in 1..Len(pdos) : LoadPdos(pdos)[i] = Descriptor(pdos[i])
BY DescriptorTyped DEF LoadPdos

\* The contract to begin with is one of the table, at one of two voltages.
LEMMA DefaultTyped ==
  ASSUME NEW t \in Seq(Descriptors)
  PROVE  /\ Default(t).pos = 1 \/ Default(t).pos \in DOMAIN t
         /\ Default(t).mv \in {DefaultFallback, DefaultDesired}
<1> DEFINE six == {i \in 2..Len(t) : /\ t[i].mv_min <= DefaultDesired
                                      /\ t[i].mv_max >= DefaultDesired}
<1>1. Len(t) \in Nat /\ DOMAIN t = 1..Len(t)
  OBVIOUS
<1>2. six \in SUBSET (1..Len(t))
  BY <1>1
<1>3. six # {} => Last(six) \in six
  <2> HIDE DEF six
  <2> QED  BY <1>1, <1>2, LastFound
<1>4. CASE six = {}
  BY <1>4 DEF Default
<1>5. CASE six # {}
  <2>1. Last(six) \in DOMAIN t
    BY <1>1, <1>2, <1>3, <1>5
  <2>2. Default(t) = [pos |-> Last(six), mv |-> DefaultDesired]
    BY <1>5 DEF Default
  <2> QED  BY <2>1, <2>2
<1> QED  BY <1>4, <1>5
(***************************************************************************)
(* What a profile can do.                                                  *)
(***************************************************************************)
LEMMA MwMaxTyped ==
  ASSUME NEW d \in Descriptors, NEW r \in Nat \ {0}
  PROVE  MwMax(d, r) \in Nat
<1> DEFINE vv == d.mv_max * d.mv_max
           cc == d.ma_max * d.ma_max
           perOhm == cc \div 1000
           drop == perOhm * r
           byVoltage == vv \div r
           byCurrent == drop \div 1000
<1>1. d.mv_max \in Nat /\ d.ma_max \in Nat /\ d.pdp_mw \in Nat
  BY DEF Descriptors
<1>2. vv \in Nat /\ cc \in Nat
  BY <1>1, Arithmetic
<1>3. MwMax(d, r) = IF d.pdp_mw > 0 THEN Lesser(Lesser(byVoltage, byCurrent), d.pdp_mw)
                                    ELSE Lesser(byVoltage, byCurrent)
  BY DEF MwMax
<1> HIDE DEF vv, cc
<1>4. byVoltage \in Nat /\ perOhm \in Nat
  BY <1>2
<1> HIDE DEF byVoltage, perOhm
<1>5. drop \in Nat
  BY <1>4
<1> HIDE DEF drop
<1>6. byCurrent \in Nat
  BY <1>5
<1> HIDE DEF byCurrent
<1> QED  BY <1>1, <1>3, <1>4, <1>6 DEF Lesser

\* A larger reserve leaves less, and none leaves more than there is.
LEMMA Reserves ==
  ASSUME NEW d \in Descriptors, NEW r \in Nat \ {0}
  PROVE  /\ \A pct \in {UpSource, UpTarget, DownTarget} : WithReserve(d, r, pct) \in Nat
         /\ WithReserve(d, r, DownTarget) <= WithReserve(d, r, UpTarget)
         /\ WithReserve(d, r, UpTarget) <= WithReserve(d, r, UpSource)
         /\ WithReserve(d, r, UpSource) <= MwMax(d, r)
         /\ WithReserve(d, r, DownTarget) = WithReserve(d, r, UpTarget) =>
              WithReserve(d, r, UpTarget) <= 1
<1>1. MwMax(d, r) \in Nat
  BY MwMaxTyped
<1>2. \A m \in Nat :
        /\ (m * (100 - 5)) \div 100 \in Nat /\ (m * (100 - 10)) \div 100 \in Nat
        /\ (m * (100 - 40)) \div 100 \in Nat
  OBVIOUS
<1>3. \A m \in Nat :
        /\ (m * (100 - 40)) \div 100 <= (m * (100 - 10)) \div 100
        /\ (m * (100 - 10)) \div 100 <= (m * (100 - 5)) \div 100
        /\ (m * (100 - 5)) \div 100 <= m
  OBVIOUS
<1>4. \A m \in Nat : (m * (100 - 40)) \div 100 = (m * (100 - 10)) \div 100 =>
                       (m * (100 - 10)) \div 100 <= 1
  <2> TAKE m \in Nat
  <2> DEFINE down == (m * (100 - 40)) \div 100
             up   == (m * (100 - 10)) \div 100
  <2>1. down \in Nat /\ 100 * down <= 60 * m /\ up \in Nat /\ 100 * up <= 90 * m /\ 90 * m < 100 * up + 100
    OBVIOUS
  <2> HIDE DEF down, up
  <2>2. down = up => up <= 1
    BY <2>1
  <2> QED  BY <2>2 DEF down, up
<1> QED  BY <1>1, <1>2, <1>3, <1>4 DEF WithReserve, UpSource, UpTarget, DownTarget

\* Who may be entered may be stayed at.
LEMMA Margins ==
  ASSUME NEW d \in Descriptors, NEW r \in Nat, HasMargin(d, r, InMargin)
  PROVE  HasMargin(d, r, OutMargin)
<1>1. d.mv_min \in Nat /\ d.ma_max \in Nat /\ d.ma_max > 0
  BY DEF Descriptors, HasMargin
<1>2. (d.mv_min * 1000) \div d.ma_max \in Nat
  <2>1. d.mv_min * 1000 \in Nat /\ d.ma_max \in Nat \ {0}
    BY <1>1
  <2> DEFINE a == d.mv_min * 1000
             b == d.ma_max
  <2> HIDE DEF a, b
  <2>2. a \div b \in Nat
    BY <2>1 DEF a, b
  <2> QED  BY <2>2 DEF a, b
<1>3. \A q \in Nat : (q * (100 + 1)) \div 100 <= (q * (100 + 3)) \div 100
                     /\ (q * (100 + 1)) \div 100 \in Nat /\ (q * (100 + 3)) \div 100 \in Nat
  OBVIOUS
<1> DEFINE q == (d.mv_min * 1000) \div d.ma_max
<1>4. r >= (q * (100 + 3)) \div 100
  BY DEF HasMargin, InMargin
<1>5. r >= (q * (100 + 1)) \div 100
  <2> HIDE DEF q
  <2>1. q \in Nat
    BY <1>2 DEF q
  <2> QED  BY <1>3, <1>4, <2>1
<1> QED  BY <1>1, <1>5 DEF HasMargin, OutMargin

(***************************************************************************)
(* What the searches come back with.                                       *)
(***************************************************************************)
Known(t, r, mw)  == {i \in Allowed(t, r, mw) : t[i].variant # "UNKNOWN"}
Power(t, r, i)   == WithReserve(t[i], r, UpTarget)
Lower(t, from, r, mw) ==
  {i \in DOMAIN t : /\ t[i].variant = "FIXED"
                     /\ HasMargin(t[i], r, InMargin)
                     /\ t[i].mv_max < t[from].mv_max
                     /\ mw <= WithReserve(t[i], r, DownTarget)}

LEMMA ScanUpFinds ==
  ASSUME NEW t \in Seq(Descriptors), NEW r \in Nat \ {0}, NEW mw \in Nat,
         NEW from \in DOMAIN t,
         NEW P, P = ScanUp(t, from, r, mw)
  PROVE  \/ P \in Serving(t, r, mw, UpTarget)
         \/ /\ Serving(t, r, mw, UpTarget) = {}
            /\ P \in Known(t, r, mw) /\ Power(t, r, P) > mw
            /\ \A j \in Known(t, r, mw) : Power(t, r, j) > mw => P <= j
         \/ /\ Serving(t, r, mw, UpTarget) = {}
            /\ \A j \in Known(t, r, mw) : ~(Power(t, r, j) > mw)
            /\ P \in Known(t, r, mw) /\ Power(t, r, P) > Power(t, r, from)
            /\ \A j \in Known(t, r, mw) : Power(t, r, P) >= Power(t, r, j)
         \/ /\ Serving(t, r, mw, UpTarget) = {}
            /\ \A j \in Known(t, r, mw) : ~(Power(t, r, j) > mw)
            /\ \A j \in Known(t, r, mw) : ~(Power(t, r, j) > Power(t, r, from))
            /\ P = from
<1> DEFINE apdos  == Serving(t, r, mw, UpTarget)
           known  == Known(t, r, mw)
           power(i) == Power(t, r, i)
           enough == {i \in known : power(i) > mw}
           better == {i \in known : power(i) > power(from)}
           best   == {i \in better : \A j \in better : power(i) >= power(j)}
<1>1. P = IF apdos # {} THEN Last(apdos)
          ELSE IF enough # {} THEN First(enough)
          ELSE IF better # {} THEN First(best) ELSE from
  BY DEF ScanUp, Known, Power
<1>2. Len(t) \in Nat /\ DOMAIN t = 1..Len(t) /\ 1..Len(t) \in SUBSET Nat
  OBVIOUS
<1>3. known \subseteq 1..Len(t) /\ apdos \subseteq 1..Len(t)
  BY <1>2 DEF Known, Serving, Allowed
<1>4. \A i \in 1..Len(t) : power(i) \in Nat
  BY Reserves DEF Power
<1>5. CASE apdos # {}
  <2>1. Last(apdos) \in apdos
    <3> HIDE DEF apdos
    <3> QED  BY <1>2, <1>3, <1>5, LastFound
  <2> QED  BY <1>1, <1>5, <2>1
<1>6. CASE apdos = {} /\ enough # {}
  <2>1. enough \in SUBSET Nat
    BY <1>2, <1>3
  <2>2. First(enough) \in enough /\ \A j \in enough : First(enough) <= j
    <3> HIDE DEF enough
    <3> QED  BY <1>6, <2>1, FirstFound
  <2> QED  BY <1>1, <1>6, <2>2
<1>7. CASE apdos = {} /\ enough = {} /\ better # {}
  <2>1. better \in SUBSET (1..Len(t))
    BY <1>3
  <2>2. best # {}
    <3> DEFINE f == [i \in 1..Len(t) |-> power(i)]
    <3>1. f \in [1..Len(t) -> Nat]
      BY <1>4
    <3>2. PICK m \in better : \A j \in better : f[m] >= f[j]
      <4> HIDE DEF better, f
      <4> QED  BY <1>2, <1>7, <2>1, <3>1, StrongestFound
    <3>3. \A j \in better : power(m) >= power(j)
      BY <2>1, <3>2
    <3> QED  BY <3>3
  <2>3. First(best) \in best
    <3>1. best \in SUBSET Nat
      BY <1>2, <2>1
    <3> HIDE DEF best
    <3> QED  BY <2>2, <3>1, FirstFound
  <2>4. P \in best
    BY <1>1, <1>7, <2>3
  <2>5. \A j \in known : power(P) >= power(j)
    <3> SUFFICES ASSUME NEW j \in known PROVE power(P) >= power(j)
      OBVIOUS
    <3>1. CASE j \in better
      BY <2>4, <3>1
    <3>2. CASE j \notin better
      <4>1. ~(power(j) > power(from)) /\ power(P) > power(from)
        BY <2>4, <3>2
      <4>2. power(j) \in Nat /\ power(P) \in Nat /\ power(from) \in Nat
        <5>1. P \in 1..Len(t) /\ j \in 1..Len(t) /\ from \in 1..Len(t)
          BY <1>2, <1>3, <2>1, <2>4
        <5> QED  BY <1>4, <5>1
      <4> QED  BY <4>1, <4>2
    <3> QED  BY <3>1, <3>2
  <2> QED  BY <1>7, <2>4, <2>5
<1>8. CASE apdos = {} /\ enough = {} /\ better = {}
  BY <1>1, <1>8
<1> QED  BY <1>5, <1>6, <1>7, <1>8

LEMMA ScanDownFinds ==
  ASSUME NEW t \in Seq(Descriptors), NEW r \in Nat \ {0}, NEW mw \in Nat,
         NEW from \in DOMAIN t,
         NEW P, P = ScanDown(t, from, r, mw)
  PROVE  \/ P \in Serving(t, r, mw, DownTarget)
         \/ /\ Serving(t, r, mw, DownTarget) = {}
            /\ P \in Lower(t, from, r, mw)
            /\ \A j \in Lower(t, from, r, mw) : P <= j
         \/ /\ Serving(t, r, mw, DownTarget) = {} /\ Lower(t, from, r, mw) = {}
            /\ P = from
<1> DEFINE apdos == Serving(t, r, mw, DownTarget)
           lower == Lower(t, from, r, mw)
<1>1. P = IF apdos # {} THEN First(apdos) ELSE IF lower # {} THEN First(lower) ELSE from
  BY DEF ScanDown, Lower
<1>2. apdos \in SUBSET Nat /\ lower \in SUBSET Nat
  <2>1. DOMAIN t \subseteq Nat
    OBVIOUS
  <2> QED  BY <2>1 DEF Serving, Allowed, Lower
<1> HIDE DEF apdos, lower
<1>3. apdos # {} => First(apdos) \in apdos
  BY <1>2, FirstFound
<1>4. lower # {} => First(lower) \in lower /\ \A j \in lower : First(lower) <= j
  BY <1>2, FirstFound
<1> QED  BY <1>1, <1>3, <1>4 DEF apdos, lower
\* The profile to search from is known, and is the one to search from itself.
LEMMA BaseFound ==
  ASSUME NEW t \in Seq(Descriptors), t # <<>>, t[1].variant = "FIXED",
         NEW from, NEW r, NEW mw
  PROVE  /\ Base(t, from, r, mw) \in DOMAIN t
         /\ t[Base(t, from, r, mw)].variant # "UNKNOWN"
         /\ Base(t, Base(t, from, r, mw), r, mw) = Base(t, from, r, mw)
<1>1. 1 \in DOMAIN t
  OBVIOUS
<1> QED  BY <1>1 DEF Base

\* Placeholders are never chosen.
LEMMA BetterFound ==
  ASSUME NEW t \in Seq(Descriptors), t # <<>>, t[1].variant = "FIXED",
         NEW from, NEW r \in Nat \ {0}, NEW mw \in Nat
  PROVE  /\ BetterPdo(t, from, r, mw) \in DOMAIN t
         /\ t[BetterPdo(t, from, r, mw)].variant # "UNKNOWN"
<1> DEFINE base == Base(t, from, r, mw)
           P == BetterPdo(t, from, r, mw)
<1>1. base \in DOMAIN t /\ t[base].variant # "UNKNOWN"
  BY BaseFound
<1>2. P = ScanUp(t, base, r, mw) \/ P = ScanDown(t, base, r, mw) \/ P = base
  BY DEF BetterPdo
<1> HIDE DEF base, P
<1>3. \A i : IsApdo(t[i]) => t[i].variant # "UNKNOWN"
  BY DEF IsApdo, Apdos
<1>4. CASE P = ScanUp(t, base, r, mw)
  <2>1. P \in Serving(t, r, mw, UpTarget) \/ P \in Known(t, r, mw) \/ P = base
    BY <1>1, <1>4, ScanUpFinds
  <2> QED  BY <1>1, <1>3, <2>1 DEF Serving, Known, Allowed, P
<1>5. CASE P = ScanDown(t, base, r, mw)
  <2>1. P \in Serving(t, r, mw, DownTarget) \/ P \in Lower(t, base, r, mw) \/ P = base
    BY <1>1, <1>5, ScanDownFinds
  <2> QED  BY <1>1, <1>3, <2>1 DEF Serving, Lower, Allowed, P
<1>6. CASE P = base
  BY <1>1, <1>6 DEF P
<1> QED  BY <1>2, <1>4, <1>5, <1>6

(***************************************************************************)
(* The root.                                                               *)
(***************************************************************************)
Digit(p) ==
  LET bit == 4 ^ (p.k - 1) IN
  IF p.x >= p.r + bit
  THEN [x |-> p.x - (p.r + bit), r |-> p.r \div 2 + bit, k |-> p.k - 1]
  ELSE [x |-> p.x, r |-> p.r \div 2, k |-> p.k - 1]
IsRoot(f) == f = [p \in Partial |-> IF p.k = 0 THEN p.r ELSE f[Digit(p)]]

LEMMA PowersOfFour == \A n \in 0..15 : 4 ^ n \in Nat
<1>1. /\ 4^0 \in Nat /\ 4^1 \in Nat /\ 4^2 \in Nat /\ 4^3 \in Nat /\ 4^4 \in Nat /\ 4^5 \in Nat
      /\ 4^6 \in Nat /\ 4^7 \in Nat /\ 4^8 \in Nat /\ 4^9 \in Nat /\ 4^10 \in Nat
      /\ 4^11 \in Nat /\ 4^12 \in Nat /\ 4^13 \in Nat /\ 4^14 \in Nat /\ 4^15 \in Nat
  OBVIOUS
<1>2. \A n \in 0..15 : n \in {0, 1, 2, 3, 4, 5, 6, 7, 8, 9, 10, 11, 12, 13, 14, 15}
  OBVIOUS
<1> QED  BY <1>1, <1>2, Zenon

LEMMA DigitTyped ==
  ASSUME NEW p \in Partial, p.k # 0
  PROVE  Digit(p) \in Partial /\ Digit(p).k = p.k - 1
<1> DEFINE bit == 4 ^ (p.k - 1)
<1>1. p.x \in Nat /\ p.r \in Nat /\ p.k \in 1..16 /\ p.k - 1 \in 0..15
  BY DEF Partial
<1>2. bit \in Nat
  BY <1>1, PowersOfFour
<1>3. Digit(p) = IF p.x >= p.r + bit
                THEN [x |-> p.x - (p.r + bit), r |-> p.r \div 2 + bit, k |-> p.k - 1]
                ELSE [x |-> p.x, r |-> p.r \div 2, k |-> p.k - 1]
  BY DEF Digit
<1> HIDE DEF bit
<1>4. p.r \div 2 \in Nat /\ p.k - 1 \in 0..16
  BY <1>1
<1> QED  BY <1>1, <1>2, <1>3, <1>4 DEF Partial

\* There is a function that meets the recursive definition: one that meets it for
\* up to k digits can be changed to meet it for one more.
LEMMA RootExists == IsRoot(Root)
<1> DEFINE Meets(f, k) == \A p \in Partial : p.k <= k =>
                            f[p] = IF p.k = 0 THEN p.r ELSE f[Digit(p)]
           Has(k) == \E f : f = [p \in Partial |-> f[p]] /\ Meets(f, k)
           Bad == {k \in 0..16 : ~Has(k)}
<1>1. ASSUME Bad # {} PROVE FALSE
  <2>1. PICK k \in Bad : \A x \in Bad : k <= x
    <3>1. Bad \in SUBSET Nat /\ Bad # {}
      <4> HIDE DEF Has
      <4>1. 0..16 \subseteq Nat
        OBVIOUS
      <4> QED  BY <1>1, <4>1
    <3> HIDE DEF Bad
    <3> QED  BY <3>1, LeastNumber
  <2>2. k \in 0..16 /\ ~Has(k)
    BY <2>1
  <2>3. CASE k = 0
    <3> DEFINE f == [p \in Partial |-> p.r]
    <3>1. f = [p \in Partial |-> f[p]]
      OBVIOUS
    <3>2. Meets(f, 0)
      BY DEF Partial
    <3> QED  BY <2>2, <2>3, <3>1, <3>2
  <2>4. CASE k # 0
    <3>1. k - 1 \in 0..16 /\ ~(k <= k - 1)
      BY <2>2, <2>4
    <3>2. Has(k - 1)
      BY <2>1, <3>1
    <3>3. PICK f : f = [p \in Partial |-> f[p]] /\ Meets(f, k - 1)
      BY <3>2
    <3> DEFINE g == [p \in Partial |-> IF p.k = k THEN f[Digit(p)] ELSE f[p]]
    <3>4. g = [p \in Partial |-> g[p]]
      OBVIOUS
    <3>5. Meets(g, k)
      <4> SUFFICES ASSUME NEW p \in Partial, p.k <= k
                   PROVE  g[p] = IF p.k = 0 THEN p.r ELSE g[Digit(p)]
        OBVIOUS
      <4>1. p.k \in 0..16
        BY DEF Partial
      <4>2. p.k # 0 => g[Digit(p)] = f[Digit(p)]
        BY <2>2, <4>1, DigitTyped
      <4>3. p.k # k => f[p] = IF p.k = 0 THEN p.r ELSE f[Digit(p)]
        BY <2>2, <3>3, <4>1
      <4> QED  BY <2>4, <4>1, <4>2, <4>3
    <3> HIDE DEF g
    <3> QED  BY <2>2, <3>4, <3>5
  <2> QED  BY <2>3, <2>4
<1>2. Has(16)
  BY <1>1
<1>3. PICK f : f = [p \in Partial |-> f[p]] /\ Meets(f, 16)
  BY <1>2
<1>4. IsRoot(f)
  <2>1. \A p \in Partial : p.k <= 16
    BY DEF Partial
  <2>2. \A p \in Partial : f[p] = IF p.k = 0 THEN p.r ELSE f[Digit(p)]
    BY <1>3, <2>1
  <2> QED  BY <1>3, <2>2, Zenon DEF IsRoot
<1>5. Root = CHOOSE h : IsRoot(h)
  BY Zenon DEF Root, IsRoot, Digit
<1> QED  BY <1>4, <1>5, Zenon

LEMMA IsqrtTyped ==
  ASSUME NEW n \in Nat
  PROVE  Isqrt(n) \in Nat
<1> DEFINE Bad == {k \in 0..16 : \E p \in Partial : p.k = k /\ Root[p] \notin Nat}
<1>1. \A p \in Partial : Root[p] = IF p.k = 0 THEN p.r ELSE Root[Digit(p)]
  BY RootExists, Zenon DEF IsRoot
<1>2. ASSUME Bad # {} PROVE FALSE
  <2>1. PICK k \in Bad : \A x \in Bad : k <= x
    <3>1. Bad \in SUBSET Nat /\ Bad # {}
      <4>1. 0..16 \subseteq Nat
        OBVIOUS
      <4> QED  BY <1>2, <4>1
    <3> HIDE DEF Bad
    <3> QED  BY <3>1, LeastNumber
  <2>2. PICK p \in Partial : p.k = k /\ Root[p] \notin Nat
    BY <2>1
  <2>3. k # 0 /\ k \in 0..16
    BY <1>1, <2>1, <2>2 DEF Partial
  <2>4. Digit(p) \in Partial /\ Digit(p).k = k - 1 /\ Root[Digit(p)] \notin Nat
    BY <1>1, <2>2, <2>3, DigitTyped
  <2>5. k - 1 \in 0..16 /\ ~(k <= k - 1)
    BY <2>3
  <2>6. k - 1 \in Bad
    BY <2>4, <2>5
  <2> QED  BY <2>1, <2>5, <2>6
<1>3. \A p \in Partial : Root[p] \in Nat
  BY <1>2 DEF Partial
<1>4. [x |-> n, r |-> 0, k |-> 16] \in Partial
  BY DEF Partial
<1> QED  BY <1>3, <1>4 DEF Isqrt

LEMMA PowersOfTwo ==
  \A n \in 0..15 : 2 ^ n \in Nat /\ 4 ^ n = 2 ^ n * 2 ^ n /\ 2 ^ (n + 1) = 2 * 2 ^ n
<1> DEFINE Fits(n) == 2 ^ n \in Nat /\ 4 ^ n = 2 ^ n * 2 ^ n /\ 2 ^ (n + 1) = 2 * 2 ^ n
<1>1. /\ Fits(0) /\ Fits(1) /\ Fits(2) /\ Fits(3) /\ Fits(4) /\ Fits(5) /\ Fits(6) /\ Fits(7)
      /\ Fits(8) /\ Fits(9) /\ Fits(10) /\ Fits(11) /\ Fits(12) /\ Fits(13) /\ Fits(14)
      /\ Fits(15)
  OBVIOUS
<1>2. \A n \in 0..15 : n \in {0, 1, 2, 3, 4, 5, 6, 7, 8, 9, 10, 11, 12, 13, 14, 15}
  OBVIOUS
<1> HIDE DEF Fits
<1>3. \A n \in 0..15 : Fits(n)
  BY <1>1, <1>2, Zenon
<1> QED  BY <1>3 DEF Fits

\* With k digits to go, p.r is the root so far times 2^k, and p.x what its square
\* leaves: the square of the root is never too large.
LEMMA RootBelow ==
  ASSUME NEW p \in Partial, NEW a \in Nat, p.r = a * 2 ^ p.k
  PROVE  Root[p] * Root[p] <= a * a + p.x
<1> DEFINE Fails(k) == \E q \in Partial, b \in Nat :
                         /\ q.k = k /\ q.r = b * 2 ^ k
                         /\ ~(Root[q] * Root[q] <= b * b + q.x)
           Bad == {k \in 0..16 : Fails(k)}
<1>1. \A q \in Partial : Root[q] = IF q.k = 0 THEN q.r ELSE Root[Digit(q)]
  BY RootExists, Zenon DEF IsRoot
<1>2. ASSUME Bad # {} PROVE FALSE
  <2>1. PICK k \in Bad : \A x \in Bad : k <= x
    <3>1. Bad \in SUBSET Nat /\ Bad # {}
      <4> HIDE DEF Fails
      <4>1. 0..16 \subseteq Nat
        OBVIOUS
      <4> QED  BY <1>2, <4>1
    <3> HIDE DEF Bad
    <3> QED  BY <3>1, LeastNumber
  <2>2. k \in 0..16 /\ Fails(k)
    BY <2>1
  <2>3. PICK q \in Partial, b \in Nat :
          /\ q.k = k /\ q.r = b * 2 ^ k
          /\ ~(Root[q] * Root[q] <= b * b + q.x)
    BY <2>2
  <2>4. q.x \in Nat /\ q.r \in Nat
    BY DEF Partial
  <2>5. k # 0
    <3>1. ASSUME k = 0 PROVE FALSE
      <4>1. q.r = b
        BY <2>3, <3>1
      <4>2. Root[q] = b
        BY <1>1, <2>3, <3>1, <4>1
      <4>3. b * b \in Nat
        BY Arithmetic
      <4> HIDE DEF Bad
      <4> QED  BY <2>3, <2>4, <4>2, <4>3
    <3> QED  BY <3>1
  <2> DEFINE t == 2 ^ (k - 1)
             bt == b * t
             tt == t * t
             bb == b * b
  <2>6. t \in Nat /\ 4 ^ (k - 1) = tt /\ 2 ^ k = 2 * t
    <3>1. k - 1 \in 0..15 /\ (k - 1) + 1 = k
      BY <2>2, <2>5
    <3> QED  BY <3>1, PowersOfTwo
  <2> HIDE DEF t
  <2>7. bt \in Nat /\ tt \in Nat /\ bb \in Nat
    BY <2>6, Arithmetic
  <2>8. q.r = 2 * bt
    BY <2>3, <2>6
  <2>9. (b + t) * t = bt + tt /\ (b + t) * (b + t) = bb + 2 * bt + tt
    BY <2>6
  <2>10. Digit(q) \in Partial /\ Digit(q).k = k - 1
    BY <2>3, <2>5, DigitTyped
  <2>11. \A c \in Nat : Digit(q).r = c * t =>
           Root[q] * Root[q] <= c * c + Digit(q).x
    <3>1. k - 1 \in 0..16 /\ ~(k <= k - 1)
      BY <2>2, <2>5
    <3>2. ~Fails(k - 1)
      BY <2>1, <3>1
    <3>3. Root[q] = Root[Digit(q)]
      BY <1>1, <2>3, <2>5
    <3> QED  BY <2>10, <3>2, <3>3 DEF t
  <2> HIDE DEF bt, tt, bb
  <2>12. CASE q.x >= q.r + tt
    <3>1. Digit(q).x = q.x - (q.r + tt) /\ Digit(q).r = q.r \div 2 + tt
      BY <2>3, <2>6, <2>12 DEF Digit
    <3>2. Digit(q).r = (b + t) * t /\ b + t \in Nat
      BY <2>6, <2>7, <2>8, <2>9, <3>1
    <3>3. Root[q] * Root[q] <= (b + t) * (b + t) + Digit(q).x
      BY <2>11, <3>2
    <3>4. (b + t) * (b + t) + Digit(q).x = bb + q.x
      BY <2>4, <2>7, <2>8, <2>9, <3>1
    <3> QED  BY <2>3, <3>3, <3>4 DEF bb
  <2>13. CASE ~(q.x >= q.r + tt)
    <3>1. Digit(q).x = q.x /\ Digit(q).r = q.r \div 2
      BY <2>3, <2>6, <2>13 DEF Digit
    <3>2. Digit(q).r = b * t
      BY <2>7, <2>8, <3>1 DEF bt
    <3> QED  BY <2>3, <2>11, <3>1, <3>2 DEF bb
  <2> QED  BY <2>12, <2>13
<1>3. p.k \in 0..16
  BY DEF Partial
<1>4. ~Fails(p.k)
  BY <1>2, <1>3
<1> QED  BY <1>4

\* The root of a number is not above the real one.
LEMMA IsqrtBelow ==
  ASSUME NEW n \in Nat
  PROVE  Isqrt(n) * Isqrt(n) <= n
<1> DEFINE p == [x |-> n, r |-> 0, k |-> 16]
<1>1. p \in Partial
  BY DEF Partial
<1>2. 0 = 0 * 2 ^ 16 /\ 0 * 0 + n = n
  OBVIOUS
<1>3. p.r = 0 * 2 ^ p.k /\ p.x = n
  BY <1>2
<1> HIDE DEF p
<1>4. Root[p] * Root[p] <= 0 * 0 + p.x
  BY <1>1, <1>3, RootBelow
<1> QED  BY <1>2, <1>3, <1>4 DEF Isqrt, p

\* Nor does it leave as much as the next digit would take.
LEMMA RootAbove ==
  ASSUME NEW p \in Partial, NEW a \in Nat, p.r = a * 2 ^ p.k,
         p.k # 0, p.x < 2 * p.r + 4 * 4 ^ (p.k - 1)
  PROVE  a * a + p.x < (Root[p] + 1) * (Root[p] + 1)
<1> DEFINE Fails(k) == \E q \in Partial, b \in Nat, t \in Nat :
                         /\ q.k = k /\ t = 2 ^ k /\ q.r = b * t /\ q.x < 2 * q.r + t * t
                         /\ ~(b * b + q.x < (Root[q] + 1) * (Root[q] + 1))
           Bad == {k \in 0..16 : Fails(k)}
<1>1. \A q \in Partial : Root[q] = IF q.k = 0 THEN q.r ELSE Root[Digit(q)]
  BY RootExists, Zenon DEF IsRoot
<1>2. ASSUME Bad # {} PROVE FALSE
  <2>1. PICK k \in Bad : \A x \in Bad : k <= x
    <3>1. Bad \in SUBSET Nat /\ Bad # {}
      <4> HIDE DEF Fails
      <4>1. 0..16 \subseteq Nat
        OBVIOUS
      <4> QED  BY <1>2, <4>1
    <3> HIDE DEF Bad
    <3> QED  BY <3>1, LeastNumber
  <2>2. k \in 0..16 /\ Fails(k)
    BY <2>1
  <2>3. PICK q \in Partial, b \in Nat, h \in Nat :
          /\ q.k = k /\ h = 2 ^ k /\ q.r = b * h /\ q.x < 2 * q.r + h * h
          /\ ~(b * b + q.x < (Root[q] + 1) * (Root[q] + 1))
    BY <2>2
  <2>4. q.x \in Nat /\ q.r \in Nat
    BY DEF Partial
  <2>5. k # 0
    <3>1. ASSUME k = 0 PROVE FALSE
      <4>1. h = 1
        BY <2>3, <3>1
      <4>2. q.r = b /\ q.x < 2 * b + 1
        BY <2>3, <4>1
      <4>3. Root[q] = b
        BY <1>1, <2>3, <3>1, <4>2
      <4>4. (b + 1) * (b + 1) = b * b + 2 * b + 1 /\ b * b \in Nat
        BY Arithmetic
      <4> HIDE DEF Bad
      <4> QED  BY <2>3, <2>4, <4>2, <4>3, <4>4
    <3> QED  BY <3>1
  <2> DEFINE t == 2 ^ (k - 1)
             bt == b * t
             tt == t * t
             bb == b * b
  <2>6. t \in Nat /\ 4 ^ (k - 1) = tt /\ h = 2 * t
    <3>1. k - 1 \in 0..15 /\ (k - 1) + 1 = k
      BY <2>2, <2>5
    <3> QED  BY <2>3, <3>1, PowersOfTwo
  <2> HIDE DEF t
  <2>7. bt \in Nat /\ tt \in Nat /\ bb \in Nat
    BY <2>6, Arithmetic
  <2>8. q.r = 2 * bt /\ h * h = 4 * tt
    <3>1. b * (2 * t) = 2 * bt /\ (2 * t) * (2 * t) = 4 * tt
      BY <2>6, Arithmetic
    <3> HIDE DEF bt, tt
    <3> QED  BY <2>3, <2>6, <3>1, Zenon
  <2>9. (b + t) * t = bt + tt /\ (b + t) * (b + t) = bb + 2 * bt + tt
    BY <2>6
  <2>10. Digit(q) \in Partial /\ Digit(q).k = k - 1
    BY <2>3, <2>5, DigitTyped
  <2>11. \A c \in Nat : Digit(q).r = c * t /\ Digit(q).x < 2 * Digit(q).r + tt =>
           c * c + Digit(q).x < (Root[q] + 1) * (Root[q] + 1)
    <3>1. k - 1 \in 0..16 /\ ~(k <= k - 1)
      BY <2>2, <2>5
    <3>2. ~Fails(k - 1)
      BY <2>1, <3>1
    <3>3. Root[q] = Root[Digit(q)]
      BY <1>1, <2>3, <2>5
    <3> QED  BY <2>6, <2>10, <3>2, <3>3 DEF t
  <2> HIDE DEF bt, tt, bb
  <2>12. q.x < 4 * bt + 4 * tt
    BY <2>3, <2>4, <2>7, <2>8
  <2>13. CASE q.x >= q.r + tt
    <3>1. Digit(q).x = q.x - (q.r + tt) /\ Digit(q).r = q.r \div 2 + tt
      BY <2>3, <2>6, <2>13 DEF Digit
    <3>2. Digit(q).r = (b + t) * t /\ b + t \in Nat /\ Digit(q).r = bt + tt
      BY <2>6, <2>7, <2>8, <2>9, <3>1
    <3>3. Digit(q).x < 2 * Digit(q).r + tt
      BY <2>4, <2>7, <2>8, <2>12, <3>1, <3>2
    <3>4. (b + t) * (b + t) + Digit(q).x < (Root[q] + 1) * (Root[q] + 1)
      BY <2>11, <3>2, <3>3
    <3>5. (b + t) * (b + t) + Digit(q).x = bb + q.x
      BY <2>4, <2>7, <2>8, <2>9, <3>1
    <3> QED  BY <2>3, <3>4, <3>5 DEF bb
  <2>14. CASE ~(q.x >= q.r + tt)
    <3>1. Digit(q).x = q.x /\ Digit(q).r = q.r \div 2
      BY <2>3, <2>6, <2>14 DEF Digit
    <3>2. Digit(q).r = bt /\ Digit(q).x < 2 * Digit(q).r + tt
      BY <2>4, <2>7, <2>8, <2>14, <3>1
    <3>3. b * b + Digit(q).x < (Root[q] + 1) * (Root[q] + 1)
      BY <2>11, <3>2 DEF bt
    <3> QED  BY <2>3, <3>1, <3>3
  <2> QED  BY <2>13, <2>14
<1>3. p.k \in 0..16 /\ p.k - 1 \in 0..15 /\ (p.k - 1) + 1 = p.k
  BY DEF Partial
<1>4. ~Fails(p.k)
  BY <1>2, <1>3
<1> DEFINE h == 2 ^ (p.k - 1)
           t == 2 ^ p.k
<1>5. h \in Nat /\ t = 2 * h /\ 4 ^ (p.k - 1) = h * h
  BY <1>3, PowersOfTwo
<1>6. t \in Nat /\ t * t = 4 * (h * h)
  <2> HIDE DEF h, t
  <2> QED  BY <1>5
<1>7. p.x < 2 * p.r + t * t
  BY <1>5, <1>6
<1> QED  BY <1>4, <1>6, <1>7

\* The root that the bits are put together to is the integer root, of any number
\* that the model's root has the digits for (lib/isqrt.hpp).
THEOREM IsqrtIsRoot ==
  \A n \in Nat : /\ Isqrt(n) \in Nat
                 /\ Isqrt(n) * Isqrt(n) <= n
                 /\ Rootable(n) => n < (Isqrt(n) + 1) * (Isqrt(n) + 1)
<1>a. \A n \in Nat : Rootable(n) => n < 4 * 4 ^ 15
  <2>1. 4 * 4 ^ 15 = 4294967296
    OBVIOUS
  <2> QED  BY <2>1, SMT DEF Rootable
<1> SUFFICES ASSUME NEW n \in Nat, n < 4 * 4 ^ 15
             PROVE  n < (Isqrt(n) + 1) * (Isqrt(n) + 1)
  BY <1>a, IsqrtTyped, IsqrtBelow, Zenon
<1> DEFINE p == [x |-> n, r |-> 0, k |-> 16]
<1>1. p \in Partial
  BY DEF Partial
<1>2. 0 = 0 * 2 ^ 16 /\ 0 * 0 + n = n
  OBVIOUS
<1>3. p.r = 0 * 2 ^ p.k /\ p.x = n /\ p.k = 16 /\ p.r = 0
  BY <1>2
<1>4. n < 2 * 0 + 4 * 4 ^ 15
  <2> DEFINE b == 4 ^ 15
  <2>1. b \in Nat /\ n < 4 * b
    BY PowersOfFour
  <2> HIDE DEF b
  <2>2. n < 2 * 0 + 4 * b
    BY <2>1
  <2> QED  BY <2>2 DEF b
<1>5. p.x < 2 * p.r + 4 * 4 ^ (p.k - 1) /\ p.k # 0
  <2>1. 16 - 1 = 15
    OBVIOUS
  <2> QED  BY <1>3, <1>4, <2>1
<1> DEFINE a == 0
<1>6. a \in Nat /\ p.r = a * 2 ^ p.k /\ a * a + n = n
  BY <1>2, <1>3
<1> HIDE DEF p, a
<1>7. a * a + p.x < (Root[p] + 1) * (Root[p] + 1)
  BY <1>1, <1>5, <1>6, RootAbove, Zenon
<1>8. n < (Root[p] + 1) * (Root[p] + 1)
  BY <1>3, <1>6, <1>7, Zenon
<1> QED  BY <1>8 DEF Isqrt, p

(***************************************************************************)
(* The plan.                                                               *)
(***************************************************************************)
\* The voltage of an adjustable profile is its own, if it reaches the default.
LEMMA ApdoMvTyped ==
  ASSUME NEW d \in Descriptors, NEW r \in Nat, NEW mw \in Nat, NEW mv \in Nat
  PROVE  /\ ApdoMv(d, r, mw, mv) \in Nat
         /\ d.mv_min <= d.mv_max /\ mv <= d.mv_max =>
              d.mv_min <= ApdoMv(d, r, mw, mv) /\ ApdoMv(d, r, mw, mv) <= d.mv_max
<1>1. d.mv_min \in Nat /\ d.mv_max \in Nat
  BY DEF Descriptors
<1>2. mw * r \in Nat
  BY Arithmetic
<1> DEFINE root == Isqrt(mw * r)
<1>3. root \in Nat
  BY <1>2, IsqrtTyped
<1>4. ApdoMv(d, r, mw, mv) = Greater(mv, Lesser(d.mv_max, Greater(d.mv_min, root)))
  BY DEF ApdoMv
<1> HIDE DEF root
<1> QED  BY <1>1, <1>3, <1>4 DEF Greater, Lesser

LEMMA UsageTyped ==
  ASSUME NEW t \in Seq(Descriptors), NEW idx, NEW r \in Nat, NEW mw \in Nat
  PROVE  /\ Usage(t, idx, r, mw).idx = idx
         /\ Usage(t, idx, r, mw).mv \in Nat /\ Usage(t, idx, r, mw).duty \in 0..1000
<1> DEFINE plan == Usage(t, idx, r, mw)
<1> SUFFICES plan.idx = idx /\ plan.mv \in Nat /\ plan.duty \in 0..1000
  BY Zenon
<1> HIDE DEF plan
<1>1. CASE idx \notin DOMAIN t \/ r = 0 \/ t[idx].variant = "UNKNOWN"
  <2>1. plan = [idx |-> idx, mv |-> 0, duty |-> 0]
    BY <1>1, Zenon DEF Usage, plan
  <2> QED  BY <2>1
<1>2. CASE ~(idx \notin DOMAIN t \/ r = 0 \/ t[idx].variant = "UNKNOWN")
  <2> DEFINE d == t[idx]
             possible == Lesser(mw, MwMax(d, r))
             mv == IF IsApdo(d) THEN ApdoMv(d, r, possible, Default(t).mv) ELSE d.mv_min
             square == mv * mv
             full == square \div r
             most == (possible * 1000) \div full
  <2>1. d \in Descriptors /\ r \in Nat \ {0}
    BY <1>2
  <2>2. possible \in Nat
    BY <2>1, MwMaxTyped, Arithmetic
  <2>3. mv \in Nat
    <3>1. Default(t).mv \in Nat
      BY DefaultTyped, SMT DEF DefaultFallback, DefaultDesired
    <3>2. d.mv_min \in Nat
      BY <2>1 DEF Descriptors
    <3> HIDE DEF d, possible
    <3> QED  BY <2>1, <2>2, <3>1, <3>2, ApdoMvTyped
  <2> DEFINE duty == IF full = 0 THEN 0 ELSE Lesser(1000, most)
  <2>4. plan = [idx |-> idx, mv |-> mv, duty |-> duty]
    BY <1>2 DEF Usage, plan
  <2> HIDE DEF possible, mv
  <2>5. square \in Nat
    BY <2>3, Arithmetic
  <2> HIDE DEF square
  <2>6. full \in Nat
    BY <2>1, <2>5
  <2> HIDE DEF full
  <2>7. full # 0 => most \in Nat
    BY <2>2, <2>6
  <2> HIDE DEF most
  <2>8. duty \in 0..1000
    <3>1. CASE full = 0
      BY <3>1
    <3>2. CASE full # 0
      <4>1. duty = Lesser(1000, most) /\ most \in Nat
        BY <2>7, <3>2
      <4> HIDE DEF duty
      <4> QED  BY <4>1, SMT DEF Lesser
    <3> QED  BY <3>1, <3>2
  <2> HIDE DEF duty
  <2> QED  BY <2>3, <2>4, <2>8
<1> QED  BY <1>1, <1>2

\* What is planned is a profile of the table, unless there is no table or no load.
LEMMA PlanTyped ==
  ASSUME NEW t \in Seq(Descriptors), NEW from, NEW r \in Nat, NEW mw \in Nat,
         t = <<>> \/ t[1].variant = "FIXED"
  PROVE  /\ PlanPower(t, from, r, mw).idx = from \/ PlanPower(t, from, r, mw).idx \in DOMAIN t
         /\ PlanPower(t, from, r, mw).mv \in Nat
         /\ PlanPower(t, from, r, mw).duty \in 0..1000
<1> DEFINE idx == BetterPdo(t, from, r, mw)
<1>1. idx = from \/ idx \in DOMAIN t
  <2>1. CASE t = <<>> \/ r = 0
    BY <2>1 DEF BetterPdo
  <2>2. CASE ~(t = <<>> \/ r = 0)
    BY <2>2, BetterFound
  <2> QED  BY <2>1, <2>2
<1>2. PlanPower(t, from, r, mw) = Usage(t, idx, r, mw)
  BY DEF PlanPower
<1> HIDE DEF idx
<1>3. /\ Usage(t, idx, r, mw).idx = idx
      /\ Usage(t, idx, r, mw).mv \in Nat /\ Usage(t, idx, r, mw).duty \in 0..1000
  BY UsageTyped
<1> QED  BY <1>1, <1>2, <1>3

(***************************************************************************)
(* The current that a voltage makes.                                       *)
(***************************************************************************)
LEMMA ProductsGrow ==
  ASSUME NEW x \in Nat, NEW y \in Nat, NEW z \in Nat, x <= y
  PROVE  x * z <= y * z
<1>1. PICK e \in Nat : y = x + e
  <2>1. y - x \in Nat /\ y = x + (y - x)
    OBVIOUS
  <2> QED  BY <2>1
<1>2. y * z = x * z + e * z
  BY <1>1
<1>3. x * z \in Nat /\ y * z \in Nat /\ e * z \in Nat
  BY <1>1, Arithmetic
<1> QED  BY <1>2, <1>3

LEMMA SquaresGrow ==
  ASSUME NEW x \in Nat, NEW y \in Nat, x * x <= y * y
  PROVE  x <= y
<1> SUFFICES ASSUME y + 1 <= x PROVE FALSE
  OBVIOUS
<1>1. (y + 1) * (y + 1) <= x * (y + 1) /\ (y + 1) * x <= x * x
  BY ProductsGrow
<1>2. (y + 1) * (y + 1) = y * y + 2 * y + 1 /\ x * (y + 1) = (y + 1) * x
  OBVIOUS
<1>3. y * y \in Nat /\ x * x \in Nat /\ (y + 1) * x \in Nat
  BY Arithmetic
<1> QED  BY <1>1, <1>2, <1>3

LEMMA Quotient ==
  ASSUME NEW a \in Nat, NEW b \in Nat \ {0}
  PROVE  /\ a \div b \in Nat
         /\ (a \div b) * b <= a /\ a < (a \div b) * b + b
OBVIOUS

\* A profile that has the current margin can be at its lowest voltage.
LEMMA MarginCurrent ==
  ASSUME NEW d \in Descriptors, NEW r \in Nat, HasMargin(d, r, OutMargin),
         d.ma_max <= MaxCurrent, 5000 <= d.mv_min
  PROVE  d.mv_min * 100 <= (d.ma_max * r) \div 10
<1> DEFINE a == d.mv_min
           m == d.ma_max
           a1000 == a * 1000
           q == a1000 \div m
           qm == q * m
           mr == m * r
<1>1. a \in Nat /\ m \in Nat \ {0} /\ r \in Nat /\ m <= 10230 /\ 5000 <= a
  BY SMT DEF Descriptors, HasMargin, MaxCurrent
<1>2. r >= (q * (100 + 1)) \div 100
  BY DEF HasMargin, OutMargin
<1> HIDE DEF a, m
<1>3. a1000 \in Nat /\ a1000 >= 5000000 /\ a1000 = a * 1000
  BY <1>1, SMT
<1> HIDE DEF a1000
<1>4. q \in Nat /\ qm <= a1000 /\ a1000 < qm + m
  BY <1>1, <1>3, Quotient
<1> HIDE DEF q
<1>5. q >= 100
  <2> SUFFICES ASSUME q <= 100 PROVE FALSE
    BY <1>4
  <2>1. q * m <= 100 * m
    BY <1>1, <1>4, ProductsGrow
  <2> DEFINE x == q * m
  <2>2. x <= 100 * m /\ x = qm
    BY <2>1
  <2>3. x \in Nat
    BY <1>1, <1>4, Arithmetic
  <2> HIDE DEF x, qm
  <2> QED  BY <1>1, <1>3, <1>4, <2>2, <2>3, SMT
<1>6. q + 1 <= r
  <2>1. (q * (100 + 1)) \div 100 >= q + 1 /\ (q * (100 + 1)) \div 100 \in Nat
    BY <1>4, <1>5, SMT
  <2> QED  BY <1>1, <1>2, <1>4, <2>1, SMT
<1>7. qm + m <= mr
  <2>1. (q + 1) * m <= r * m
    BY <1>1, <1>4, <1>6, ProductsGrow
  <2>2. (q + 1) * m = qm + m /\ r * m = mr
    BY <1>1, <1>4
  <2> QED  BY <2>1, <2>2
<1>8. mr \in Nat /\ qm \in Nat
  BY <1>1, <1>4, Arithmetic
<1> HIDE DEF qm, mr
<1>9. a * 100 <= mr \div 10
  BY <1>1, <1>3, <1>4, <1>7, <1>8, SMT
<1> QED  BY <1>9 DEF a, m, mr

\* So can it at the voltage for any power that its current allows.
LEMMA RootCurrent ==
  ASSUME NEW d \in Descriptors, NEW r \in Nat \ {0}, NEW mw \in Nat, mw <= MwMax(d, r)
  PROVE  Isqrt(mw * r) * 100 <= (d.ma_max * r) \div 10
<1> DEFINE m == d.ma_max
           mm == m * m
           k == mm \div 1000
           u == k * r
           v == u \div 1000
           s == Isqrt(mw * r)
           mr == m * r
<1>1. m \in Nat /\ mm \in Nat /\ d.mv_max \in Nat /\ d.pdp_mw \in Nat
  <2>1. m \in Nat /\ d.mv_max \in Nat /\ d.pdp_mw \in Nat
    BY DEF Descriptors
  <2> QED  BY <2>1, Arithmetic
<1>2. mw <= v
  <2> DEFINE byVoltage == (d.mv_max * d.mv_max) \div r
  <2>1. MwMax(d, r) = IF d.pdp_mw > 0 THEN Lesser(Lesser(byVoltage, v), d.pdp_mw)
                      ELSE Lesser(byVoltage, v)
    BY DEF MwMax
  <2>2. byVoltage \in Nat
    <3>1. d.mv_max * d.mv_max \in Nat
      BY <1>1, Arithmetic
    <3> QED  BY <3>1, Quotient
  <2>3. v \in Nat
    <3>1. k \in Nat
      <4> HIDE DEF mm
      <4> QED  BY <1>1
    <3> HIDE DEF k
    <3>2. u \in Nat
      BY <3>1, Arithmetic
    <3> HIDE DEF u
    <3> QED  BY <3>2
  <2> HIDE DEF byVoltage, v
  <2> QED  BY <1>1, <2>1, <2>2, <2>3, SMT DEF Lesser
<1>3. s \in Nat /\ s * s <= mw * r
  <2>1. mw * r \in Nat
    BY Arithmetic
  <2> QED  BY <2>1, IsqrtTyped, IsqrtBelow
<1> HIDE DEF m, s
<1>4. k \in Nat /\ k * 1000 <= mm
  <2> HIDE DEF mm
  <2> QED  BY <1>1, SMT
<1> HIDE DEF k
<1>5. u \in Nat
  BY <1>4, Arithmetic
<1>6. v \in Nat /\ v * 1000 <= u
  <2> HIDE DEF u
  <2> QED  BY <1>5, SMT
<1> HIDE DEF v
<1> DEFINE wr == mw * r
           vr == v * r
           ur == u * r
           rr == r * r
           krr == k * rr
           mmrr == mm * rr
           ss == s * s
<1>7. wr \in Nat /\ vr \in Nat /\ ur \in Nat /\ rr \in Nat /\ krr \in Nat /\ mmrr \in Nat
      /\ ss \in Nat
  BY <1>1, <1>3, <1>4, <1>5, <1>6, Arithmetic
<1>8. ss <= wr /\ wr <= vr
  <2>1. wr <= vr
    BY <1>2, <1>6, ProductsGrow
  <2> QED  BY <1>3, <2>1
<1>9. vr * 1000 <= ur
  <2>1. (v * 1000) * r <= u * r
    <3>1. v * 1000 \in Nat
      BY <1>6
    <3> QED  BY <1>5, <1>6, <3>1, ProductsGrow
  <2>2. (v * 1000) * r = vr * 1000
    BY <1>6
  <2> QED  BY <2>1, <2>2
<1>10. ur = krr
  BY <1>4
<1>11. krr * 1000 <= mmrr
  <2>1. (k * 1000) * rr <= mm * rr
    <3>1. k * 1000 \in Nat
      BY <1>4
    <3> HIDE DEF mm, rr
    <3> QED  BY <1>1, <1>4, <1>7, <3>1, ProductsGrow
  <2>2. (k * 1000) * rr = krr * 1000
    <3> HIDE DEF rr
    <3> QED  BY <1>4, <1>7
  <2> QED  BY <2>1, <2>2
<1>12. mr \in Nat /\ mr * mr = mmrr
  BY <1>1, Arithmetic
<1>13. (s * 1000) * (s * 1000) = ss * 1000000
  BY <1>3, SMT
<1> HIDE DEF wr, vr, ur, krr, mmrr, ss
<1>14. (s * 1000) * (s * 1000) <= mr * mr
  <2>1. ss * 1000000 <= mmrr
    BY <1>7, <1>8, <1>9, <1>10, <1>11, SMT
  <2> QED  BY <1>12, <1>13, <2>1, SMT
<1>15. s * 1000 <= mr
  <2>1. s * 1000 \in Nat
    BY <1>3
  <2> QED  BY <1>12, <1>14, <2>1, SquaresGrow
<1> HIDE DEF mr
<1>16. s * 100 <= mr \div 10
  BY <1>3, <1>12, <1>15, SMT
<1> QED  BY <1>16 DEF s, mr, m

\* Quotients grow with what is divided.
LEMMA QuotientsGrow ==
  ASSUME NEW a \in Nat, NEW b \in Nat, NEW r \in Nat \ {0}, a <= b
  PROVE  a \div r <= b \div r
<1> DEFINE qa == a \div r
           qb == b \div r
           par == qa * r
           pbr == qb * r
<1>1. qa \in Nat /\ par <= a /\ qb \in Nat /\ b < pbr + r
  BY Quotient
<1> HIDE DEF qa, qb
<1>2. par \in Nat /\ pbr \in Nat
  BY <1>1, Arithmetic
<1>3. ASSUME qb + 1 <= qa PROVE FALSE
  <2>1. (qb + 1) * r <= qa * r
    BY <1>1, <1>3, ProductsGrow
  <2>2. (qb + 1) * r = pbr + r
    BY <1>1
  <2> HIDE DEF pbr
  <2>3. pbr + r <= par
    BY <2>1, <2>2
  <2> HIDE DEF par
  <2> QED  BY <1>1, <1>2, <2>3
<1>4. qa <= qb
  BY <1>1, <1>3
<1> QED  BY <1>4 DEF qa, qb

\* What the power at mv into r, full, may be short of a by the rounding of the voltage
\* to the root.
LEMMA RootShort ==
  ASSUME NEW a \in Nat, NEW r \in Nat \ {0}, NEW mv \in Nat,
         Rootable(a * r), Isqrt(a * r) <= mv
  PROVE  a <= (mv * mv) \div r + (2 * mv) \div r + 1
<1> DEFINE ar == a * r
           s == Isqrt(ar)
           mm == mv * mv
           m2 == 2 * mv
           f == mm \div r
           e == m2 \div r
           fr == f * r
           er == e * r
<1>1. ar \in Nat /\ mm \in Nat /\ m2 \in Nat
  BY Arithmetic
<1>2. s \in Nat /\ ar < (s + 1) * (s + 1) /\ s <= mv
  <2>1. Rootable(ar) /\ s <= mv
    OBVIOUS
  <2> HIDE DEF ar
  <2> QED  BY <1>1, <2>1, IsqrtIsRoot, Zenon
<1>3. (s + 1) * (s + 1) <= (mv + 1) * (mv + 1)
  <2> HIDE DEF s
  <2>1. /\ (s + 1) * (s + 1) <= (mv + 1) * (s + 1)
        /\ (s + 1) * (mv + 1) <= (mv + 1) * (mv + 1)
    BY <1>2, ProductsGrow
  <2>2. (mv + 1) * (s + 1) = (s + 1) * (mv + 1)
    BY <1>2
  <2>3. s + 1 \in Nat /\ mv + 1 \in Nat
    BY <1>2
  <2>4. (s + 1) * (s + 1) \in Nat /\ (mv + 1) * (s + 1) \in Nat /\ (mv + 1) * (mv + 1) \in Nat
    BY <2>3, Arithmetic, Zenon
  <2> QED  BY <2>1, <2>2, <2>4
<1>4. (mv + 1) * (mv + 1) = mm + m2 + 1
  OBVIOUS
<1>5. ar < mm + m2 + 1
  <2> DEFINE x == (s + 1) * (s + 1)
             y == (mv + 1) * (mv + 1)
  <2>1. x \in Nat /\ y \in Nat
    <3> HIDE DEF s
    <3>1. s + 1 \in Nat /\ mv + 1 \in Nat
      BY <1>2
    <3> QED  BY <3>1, Arithmetic, Zenon
  <2>2. ar < x /\ x <= y /\ y = mm + m2 + 1
    BY <1>2, <1>3, <1>4
  <2> HIDE DEF x, y, ar, mm, m2
  <2> QED  BY <1>1, <2>1, <2>2
<1>6. f \in Nat /\ e \in Nat /\ mm < fr + r /\ m2 < er + r
  <2> HIDE DEF mm, m2
  <2> QED  BY <1>1, Quotient
<1> HIDE DEF f, e
<1>7. fr \in Nat /\ er \in Nat
  BY <1>6, Arithmetic
<1>8. ASSUME f + e + 2 <= a PROVE FALSE
  <2>1. (f + e + 2) * r <= ar
    BY <1>6, <1>8, ProductsGrow
  <2>2. (f + e + 2) * r = fr + er + 2 * r
    BY <1>6
  <2> HIDE DEF ar, fr, er, mm, m2
  <2>3. fr + er + 2 * r <= ar
    BY <2>1, <2>2
  <2> QED  BY <1>1, <1>5, <1>6, <1>7, <2>3
<1>9. a <= f + e + 1
  BY <1>6, <1>8
<1> QED  BY <1>9 DEF f, e

\* What the duty's rounding loses of a, where full is the power of the whole period.
DutyFor(a, full) == IF full = 0 THEN 0 ELSE Lesser(1000, (a * 1000) \div full)
Given(duty, full) == (duty * full) \div 1000
OneStep(full)     == full \div 1000

LEMMA DutyShort ==
  ASSUME NEW a \in Nat, NEW full \in Nat, NEW e \in Nat, a <= full + e,
         NEW duty, duty = DutyFor(a, full)
  PROVE  a <= Given(duty, full) + OneStep(full) + e + 1
<1> USE DEF DutyFor, Given, OneStep
<1> DEFINE f == full \div 1000
           a1000 == a * 1000
           q == a1000 \div full
           qf == q * full
<1>1. f \in Nat /\ full < f * 1000 + 1000 /\ a1000 \in Nat
  BY SMT
<1>2. CASE full = 0
  <2>1. duty * full = 0
    BY <1>2
  <2> QED  BY <1>1, <1>2, <2>1
<1>3. CASE full # 0
  <2>1. q \in Nat /\ a1000 < qf + full
    <3> HIDE DEF a1000
    <3> QED  BY <1>1, <1>3, Quotient
  <2>2. duty = Lesser(1000, q)
    BY <1>3
  <2> HIDE DEF q
  <2>3. qf \in Nat
    BY <2>1, Arithmetic
  <2>4. CASE duty = q
    <3> DEFINE d == qf \div 1000
    <3>1. (duty * full) \div 1000 = d
      BY <2>4
    <3> HIDE DEF qf, f
    <3>2. d \in Nat /\ qf < d * 1000 + 1000
      BY <2>3, SMT
    <3> HIDE DEF d
    <3>3. a * 1000 < (d + f + 2) * 1000
      BY <1>1, <2>1, <2>3, <3>2
    <3>4. a <= d + f + e + 1
      BY <1>1, <3>2, <3>3
    <3> QED  BY <3>1, <3>4 DEF f
  <2>5. CASE duty = 1000
    <3>1. duty * full = 1000 * full /\ (1000 * full) \div 1000 = full
      BY <2>5
    <3>2. (duty * full) \div 1000 = full
      BY <3>1
    <3> HIDE DEF f
    <3>3. a <= full + f + e + 1
      BY <1>1
    <3> QED  BY <3>2, <3>3 DEF f
  <2> QED  BY <2>2, <2>4, <2>5 DEF Lesser
<1> QED  BY <1>2, <1>3

(***************************************************************************)
(* The table of a charger.                                                 *)
(***************************************************************************)
FixedAt(t) == {i \in DOMAIN t : t[i].variant = "FIXED"}

Offered(t) ==
  /\ t \in Seq(Descriptors) /\ t # <<>> /\ t[1].variant = "FIXED"
  /\ \A i \in DOMAIN t : t[i].ma_max <= MaxCurrent
  /\ \A i \in DOMAIN t : t[i].variant # "UNKNOWN" =>
       5000 <= t[i].mv_min /\ t[i].mv_min <= t[i].mv_max
  /\ \A i \in FixedAt(t) : t[i].mv_min = t[i].mv_max
  /\ \A i, j \in FixedAt(t) : i < j => t[i].mv_max < t[j].mv_max

LEMMA TableOffered ==
  ASSUME NEW c \in Chargers
  PROVE  Offered(LoadPdos(c))
<1> DEFINE t == LoadPdos(c)
<1>1. WellFormed(c)
  BY ChargersAssumption
<1>2. /\ c \in Seq(Pdos) /\ c # <<>>
      /\ c[1].variant = "FIXED" /\ c[1].mv_min = 5000
  BY <1>1 DEF WellFormed
<1>3. \A i \in DOMAIN c : c[i].variant = "FIXED" => c[i].mv_min = c[i].mv_max
  BY <1>1 DEF WellFormed
<1>4. \A i, j \in DOMAIN c : i < j /\ c[i].variant = "FIXED" /\ c[j].variant = "FIXED" =>
        c[i].mv_max < c[j].mv_max
  BY <1>1 DEF WellFormed
<1>5. \A i \in DOMAIN c : c[i].variant \in Apdos =>
        c[i].mv_min <= c[i].mv_max /\ DefaultFallback <= c[i].mv_max
  BY ChargersAssumption
<1>6. /\ t \in Seq(Descriptors) /\ Len(t) = Len(c) /\ DOMAIN t = 1..Len(c)
      /\ \A i \in 1..Len(c) : t[i] = Descriptor(c[i])
  BY <1>2, TableTyped
<1>7. DOMAIN c = 1..Len(c) /\ 1 \in DOMAIN c /\ t # <<>> /\ DOMAIN t = DOMAIN c
      /\ Len(c) \in Nat
  BY <1>2, <1>6
<1>8. \A i \in DOMAIN c : c[i] \in Pdos
  BY <1>2
<1> HIDE DEF t
<1>9. \A i \in DOMAIN c :
        /\ t[i].variant = c[i].variant /\ t[i].ma_max <= MaxCurrent
        /\ c[i].variant # "UNKNOWN" => /\ t[i].mv_max = c[i].mv_max
                                       /\ t[i].mv_min = Greater(5000, c[i].mv_min)
  BY <1>6, <1>7, <1>8, DescriptorTyped
<1>10. \A i \in DOMAIN c : c[i].mv_min \in Nat /\ c[i].mv_max \in Nat /\ c[i].variant \in Variants
  BY <1>8 DEF Pdos
<1>11. \A i \in DOMAIN c : c[i].variant = "FIXED" => 5000 <= c[i].mv_max
  <2> SUFFICES ASSUME NEW i \in DOMAIN c, c[i].variant = "FIXED" PROVE 5000 <= c[i].mv_max
    OBVIOUS
  <2>1. c[1].mv_max = 5000
    BY <1>2, <1>3, <1>7
  <2>2. i = 1 \/ 1 < i
    BY <1>7
  <2>3. CASE 1 < i
    <3>1. c[1].mv_max < c[i].mv_max
      BY <1>2, <1>4, <1>7, <2>3
    <3> QED  BY <1>10, <2>1, <3>1, SMT
  <2> QED  BY <2>1, <2>2, <2>3, SMT
<1>12. \A i \in DOMAIN t : t[i].variant # "UNKNOWN" =>
         /\ 5000 <= t[i].mv_min /\ t[i].mv_min <= t[i].mv_max
         /\ t[i].variant = "FIXED" => t[i].mv_min = t[i].mv_max
  <2> SUFFICES ASSUME NEW i \in DOMAIN c, c[i].variant # "UNKNOWN"
               PROVE  /\ 5000 <= t[i].mv_min /\ t[i].mv_min <= t[i].mv_max
                      /\ c[i].variant = "FIXED" => t[i].mv_min = t[i].mv_max
    BY <1>7, <1>9
  <2>1. t[i].mv_max = c[i].mv_max /\ t[i].mv_min = Greater(5000, c[i].mv_min)
    BY <1>9
  <2>2. CASE c[i].variant = "FIXED"
    <3>1. c[i].mv_min = c[i].mv_max /\ 5000 <= c[i].mv_max
      BY <1>3, <1>11, <2>2
    <3> QED  BY <1>10, <2>1, <3>1, SMT DEF Greater
  <2>3. CASE c[i].variant # "FIXED"
    <3>1. c[i].variant \in Apdos
      BY <1>10, <2>3 DEF Variants
    <3>2. c[i].mv_min <= c[i].mv_max /\ 5000 <= c[i].mv_max
      BY <1>5, <3>1, SMT DEF DefaultFallback
    <3> QED  BY <1>10, <2>1, <2>3, <3>2, SMT DEF Greater
  <2> QED  BY <2>2, <2>3
<1>13. \A i, j \in FixedAt(t) : i < j => t[i].mv_max < t[j].mv_max
  BY <1>4, <1>7, <1>9 DEF FixedAt
<1>14. /\ t \in Seq(Descriptors) /\ t # <<>> /\ t[1].variant = "FIXED"
       /\ \A i \in DOMAIN t : t[i].ma_max <= MaxCurrent
  BY <1>2, <1>6, <1>7, <1>9
<1>15. \A i \in FixedAt(t) : t[i].mv_min = t[i].mv_max
  BY <1>12 DEF FixedAt
<1>16. Offered(t)
  BY <1>12, <1>13, <1>14, <1>15, SMT DEF Offered
<1> QED  BY <1>16 DEF t

(***************************************************************************)
(* The plan, and the types of the state.                                   *)
(***************************************************************************)
LEMMA PlanKnown ==
  ASSUME ChoiceTypeOK
  PROVE  /\ Offered(ds) /\ load \in Nat \ {0} /\ wanted \in Nat
         /\ Plan.idx = BetterPdo(ds, cur, load, wanted)
         /\ Plan.idx \in DOMAIN ds /\ ds[Plan.idx].variant # "UNKNOWN"
         /\ ds[Plan.idx] \in Descriptors
         /\ Plan.mv \in Nat /\ Plan.duty \in 0..1000
<1>1. load \in Nat \ {0} /\ wanted \in Nat
  BY PowersAssumption DEF ChoiceTypeOK
<1>2. Offered(ds)
  BY TableOffered DEF ChoiceTypeOK
<1>3. ds \in Seq(Descriptors) /\ ds # <<>> /\ ds[1].variant = "FIXED"
  BY <1>2 DEF Offered
<1> DEFINE P == BetterPdo(ds, cur, load, wanted)
<1>4. P \in DOMAIN ds /\ ds[P].variant # "UNKNOWN"
  BY <1>1, <1>3, BetterFound
<1>5. Plan = Usage(ds, P, load, wanted)
  BY DEF Plan, PlanPower
<1> HIDE DEF P
<1>6. /\ Usage(ds, P, load, wanted).idx = P
      /\ Usage(ds, P, load, wanted).mv \in Nat /\ Usage(ds, P, load, wanted).duty \in 0..1000
  BY <1>1, <1>3, UsageTyped
<1>7. Plan.idx = P /\ Plan.mv \in Nat /\ Plan.duty \in 0..1000
  BY <1>5, <1>6
<1>8. ds[P] \in Descriptors
  BY <1>3, <1>4
<1> QED  BY <1>1, <1>2, <1>4, <1>7, <1>8 DEF P

LEMMA PlanIs ==
  ASSUME ChoiceTypeOK
  PROVE  /\ Asked \in Nat /\ Full \in Nat /\ Default(ds).mv \in Nat
         /\ Default(ds).mv <= DefaultDesired
         /\ Default(ds).mv \in {DefaultFallback, DefaultDesired}
         /\ Plan.mv = IF IsApdo(ds[Plan.idx])
                      THEN ApdoMv(ds[Plan.idx], load, Asked, Default(ds).mv)
                      ELSE ds[Plan.idx].mv_min
         /\ Plan.duty = IF Full = 0 THEN 0 ELSE Lesser(1000, (Asked * 1000) \div Full)
<1> DEFINE P == Plan.idx
<1>1. /\ ds \in Seq(Descriptors) /\ load \in Nat \ {0} /\ wanted \in Nat
      /\ P = BetterPdo(ds, cur, load, wanted)
      /\ P \in DOMAIN ds /\ ds[P].variant # "UNKNOWN" /\ ds[P] \in Descriptors
      /\ Plan.mv \in Nat
  BY PlanKnown DEF Offered
<1>2. Plan = Usage(ds, P, load, wanted)
  BY <1>1 DEF Plan, PlanPower
<1> DEFINE mv == IF IsApdo(ds[P]) THEN ApdoMv(ds[P], load, Asked, Default(ds).mv)
                 ELSE ds[P].mv_min
           full == (mv * mv) \div load
           duty == IF full = 0 THEN 0 ELSE Lesser(1000, (Asked * 1000) \div full)
<1>3. Asked = Lesser(wanted, MwMax(ds[P], load))
  BY DEF Asked
<1>4. Usage(ds, P, load, wanted) = [idx |-> P, mv |-> mv, duty |-> duty]
  <2> HIDE DEF P
  <2> QED  BY <1>1, <1>3 DEF Usage
<1>5. Plan = [idx |-> P, mv |-> mv, duty |-> duty]
  <2> HIDE DEF P, mv, full, duty
  <2> QED  BY <1>2, <1>4
<1>6. Plan.mv = mv /\ Plan.duty = duty
  <2> HIDE DEF P, mv, full, duty
  <2>1. \A a, b, c : [idx |-> a, mv |-> b, duty |-> c].mv = b
                     /\ [idx |-> a, mv |-> b, duty |-> c].duty = c
    OBVIOUS
  <2> QED  BY <1>5, <2>1, Zenon
<1>7. Full = full
  <2> HIDE DEF mv
  <2> QED  BY <1>6 DEF Full
<1>8. Asked \in Nat
  <2>1. MwMax(ds[P], load) \in Nat
    BY <1>1, MwMaxTyped
  <2> QED  BY <1>1, <1>3, <2>1, Arithmetic
<1>9. Full \in Nat
  BY <1>1, Arithmetic DEF Full
<1>10. /\ Default(ds).mv \in Nat /\ Default(ds).mv <= DefaultDesired
       /\ Default(ds).mv \in {DefaultFallback, DefaultDesired}
  BY <1>1, DefaultTyped, SMT DEF DefaultFallback, DefaultDesired
<1> QED  BY <1>6, <1>7, <1>8, <1>9, <1>10

\* Placeholders are never chosen, and a voltage is one that the profile has, or the
\* default of 6 V.
LEMMA ChoiceFound == ASSUME ChoiceTypeOK PROVE ChoiceExists
<1> DEFINE d == ds[Plan.idx]
           floor == Default(ds).mv
<1>1. /\ d \in Descriptors /\ d.variant # "UNKNOWN" /\ Plan.idx \in DOMAIN ds /\ Offered(ds)
      /\ load \in Nat
  BY PlanKnown
<1>2. d.mv_min \in Nat /\ d.mv_max \in Nat /\ d.variant \in Variants
  BY <1>1 DEF Descriptors
<1>3. d.mv_min <= d.mv_max /\ 5000 <= d.mv_min
  BY <1>1 DEF Offered
<1>4. CASE IsApdo(d)
  <2>1. /\ Asked \in Nat /\ floor \in Nat /\ floor \in {DefaultFallback, DefaultDesired}
        /\ Plan.mv = Greater(floor, Lesser(d.mv_max, Greater(d.mv_min, Isqrt(Asked * load))))
    BY <1>4, PlanIs DEF ApdoMv
  <2>2. Isqrt(Asked * load) \in Nat
    <3>1. Asked * load \in Nat
      BY <1>1, <2>1, Arithmetic, Zenon
    <3> QED  BY <3>1, IsqrtTyped
  <2> DEFINE low == d.mv_min
             high == d.mv_max
             root == Isqrt(Asked * load)
  <2> HIDE DEF low, high, root, floor
  <2>3. /\ Plan.mv = Greater(floor, Lesser(high, Greater(low, root)))
        /\ low \in Nat /\ high \in Nat /\ root \in Nat /\ floor \in Nat /\ low <= high
    BY <1>2, <1>3, <2>1, <2>2 DEF low, high, root
  <2>4. low <= Plan.mv /\ (high < Plan.mv => Plan.mv = floor)
    BY <2>3 DEF Greater, Lesser
  <2>5. high < Plan.mv => Plan.mv = DefaultDesired
    <3>1. DefaultFallback <= high
      BY <1>2, <1>3, SMT DEF DefaultFallback, high
    <3> QED  BY <2>1, <2>3, <2>4, <3>1, SMT
  <2> QED  BY <1>1, <1>4, <2>4, <2>5 DEF ChoiceExists, d, low, high
<1>5. CASE ~IsApdo(d)
  <2>1. Plan.mv = d.mv_min
    BY <1>5, PlanIs
  <2> QED  BY <1>1, <1>2, <1>3, <2>1 DEF ChoiceExists
<1> QED  BY <1>4, <1>5

(***************************************************************************)
(* The pulses.  What is owed is what the carry stands for, give or take    *)
(* where the two began.                                                    *)
(***************************************************************************)
CarryIsOwed == owed - err \in -499..500
Duties  == 0..1000
Carries == -500..499
Expressible(d) == ~(d * Period < MinPulse * 1000)
Left(d, e, idle) == d * Period + e - PulseTicks(d, e, idle) * 1000

\* Above the shortest pulse the clamps never cut: the carry is exact.
LEMMA CarryExact ==
  ASSUME NEW d \in Duties, NEW e \in Carries, NEW idle \in BOOLEAN,
         Expressible(d)
  PROVE  /\ PulseTicks(d, e, idle) \in Int
         /\ Carry(d, e, idle) = Left(d, e, idle)
         /\ Carry(d, e, idle) \in Carries
<1> USE DEF Duties, Carries
<1> DEFINE ticks == (d * 100 + e + 500) \div 1000
<1>1. d * 100 >= 6000
  BY SMT DEF Expressible, Period, MinPulse
<1>2. ticks \in 6..100 /\ d * 100 + e - ticks * 1000 \in -500..499
  BY <1>1, SMT
<1>3. d # 0
  BY <1>1, SMT
<1>4. PulseTicks(d, e, idle) = ticks
  <2>1. PulseTicks(d, e, idle) = IF ticks < 6 THEN 6 ELSE IF ticks > 100 THEN 100 ELSE ticks
    BY <1>3, SMT DEF PulseTicks, IsIdle, Clamp, Period, MinPulse
  <2> HIDE DEF ticks
  <2> QED  BY <1>2, <2>1, SMT
<1>5. Carry(d, e, idle) = d * 100 + e - ticks * 1000
  <2>1. Carry(d, e, idle) = LET c == d * 100 + e - ticks * 1000
                            IN  IF c < -500 THEN -500 ELSE IF c > 499 THEN 499 ELSE c
    BY <1>3, <1>4, SMT DEF Carry, IsIdle, Clamp, Period
  <2> HIDE DEF ticks
  <2> QED  BY <1>2, <2>1, SMT
<1> HIDE DEF ticks
<1> QED  BY <1>2, <1>4, <1>5, SMT DEF Period, Left

\* The carry is always less than half a tick.
LEMMA CarrySmall ==
  ASSUME NEW d \in Duties, NEW e \in Carries, NEW idle \in BOOLEAN
  PROVE  Carry(d, e, idle) \in Carries
<1> USE DEF Duties, Carries
<1> DEFINE c == d * Period + e - PulseTicks(d, e, idle) * 1000
<1>1. PulseTicks(d, e, idle) \in Int
  BY SMT DEF PulseTicks, Clamp, Period, MinPulse
<1>2. c \in Int
  BY <1>1, SMT DEF Period
<1>3. Carry(d, e, idle) = IF IsIdle(d, idle) THEN 0
                          ELSE IF c < -500 THEN -500 ELSE IF c > 499 THEN 499 ELSE c
  BY SMT DEF Carry, Clamp
<1> HIDE DEF c
<1> QED  BY <1>2, <1>3, SMT

ChoiceInv == ChoiceTypeOK /\ CarryIsOwed

LEMMA InitChoice == ChoiceInit => ChoiceInv
<1> SUFFICES ASSUME ChoiceInit PROVE ChoiceInv
  OBVIOUS
<1>1. Offered(ds)
  BY TableOffered DEF ChoiceInit
<1>2. ds \in Seq(Descriptors) /\ 1 \in DOMAIN ds
  BY <1>1 DEF Offered
<1>3. cur \in DOMAIN ds
  BY <1>2, DefaultTyped DEF ChoiceInit
<1>4. err \in -500..499 /\ owed \in Int /\ CarryIsOwed
  BY SMT DEF ChoiceInit, CarryIsOwed
<1> QED  BY <1>3, <1>4 DEF ChoiceInit, ChoiceInv, ChoiceTypeOK

LEMMA StepChoice == ASSUME ChoiceInv, [ChoiceNext]_choiceVars PROVE ChoiceInv'
<1> USE DEF ChoiceInv, ChoiceTypeOK, CarryIsOwed
<1>1. CASE Regulate \/ Drift \/ UNCHANGED choiceVars
  <2>1. UNCHANGED <<ds, cur, err, owed>>
    BY <1>1 DEF Regulate, Drift, choiceVars, pulseVars
  <2>2. load' \in Resistances /\ wanted' \in Powers
    BY <1>1 DEF Regulate, Drift, choiceVars
  <2> QED  BY <2>1, <2>2
<1>2. CASE Switch
  <2>1. Plan.idx \in DOMAIN ds
    BY PlanKnown
  <2>2. err' \in -500..499 /\ owed' \in Int /\ owed' - err' \in -499..500
    BY <1>2, SMT DEF Switch
  <2> QED  BY <1>2, <2>1, <2>2 DEF Switch
<1>3. ASSUME NEW idle \in BOOLEAN, PlannedPulse(idle) PROVE ChoiceInv'
  <2> DEFINE d == Plan.duty
  <2>1. d \in Duties /\ err \in Carries
    BY PlanKnown DEF Duties, Carries
  <2>2. UNCHANGED <<ds, cur, load, wanted>> /\ err' = Carry(d, err, idle)
    BY <1>3 DEF PlannedPulse
  <2>3. owed' = IF d * Period < MinPulse * 1000 THEN 0
                ELSE owed + d * Period - 1000 * PulseTicks(d, err, idle)
    BY <1>3 DEF PlannedPulse
  <2> HIDE DEF d
  <2>4. CASE d * Period < MinPulse * 1000
    <3>1. Carry(d, err, idle) \in Carries
      BY <2>1, CarrySmall, Zenon
    <3>2. owed' = 0 /\ err' \in Carries
      BY <2>2, <2>3, <2>4, <3>1, Zenon
    <3>3. \A o, e : o = 0 /\ e \in Carries => o \in Int /\ o - e \in -499..500
      BY SMT DEF Carries
    <3>4. owed' \in Int /\ owed' - err' \in -499..500
      BY <3>2, <3>3
    <3> QED  BY <2>2, <3>2, <3>4 DEF Carries
  <2>5. CASE Expressible(d)
    <3> DEFINE k == PulseTicks(d, err, idle)
               p == d * Period
    <3>1. p \in Int
      BY <2>1, SMT DEF Period, Duties
    <3>2. /\ k \in Int /\ Carry(d, err, idle) = Left(d, err, idle)
          /\ Carry(d, err, idle) \in Carries
      BY <2>1, <2>5, CarryExact, Zenon
    <3>3. owed' = owed + p - 1000 * k
      BY <2>3, <2>5 DEF Expressible
    <3>4. err' = p + err - k * 1000 /\ err' \in -500..499
      BY <2>2, <3>2, SMT DEF Carries, Left
    <3> HIDE DEF k, p
    <3>5. owed' \in Int /\ owed' - err' = owed - err
      BY <3>1, <3>2, <3>3, <3>4, SMT
    <3> QED  BY <2>2, <3>4, <3>5
  <2> QED  BY <2>4, <2>5 DEF Expressible
<1> QED  BY <1>1, <1>2, <1>3 DEF ChoiceNext

LEMMA ChoiceInvariance == ChoiceSpec => []ChoiceInv
BY InitChoice, StepChoice, PTL DEF ChoiceSpec

\* The state keeps its types, and whatever the charger, the head and the target,
\* the plan is of a profile that is there, at a voltage that it has.
THEOREM ChoiceIsOK == ChoiceSpec => []ChoiceOK
<1>1. ChoiceInv => ChoiceOK
  BY ChoiceFound DEF ChoiceInv, ChoiceOK
<1> QED  BY <1>1, ChoiceInvariance, PTL

\* Over any number of pulses the heater gets the ticks that were planned, but for one.
THEOREM DutyIsGivenAlways == ChoiceSpec => []DutyIsGiven
<1>1. ChoiceInv => DutyIsGiven
  BY SMT DEF ChoiceInv, ChoiceTypeOK, CarryIsOwed, DutyIsGiven
<1> QED  BY <1>1, ChoiceInvariance, PTL

(***************************************************************************)
(* What the search comes to, wherever it starts.                           *)
(***************************************************************************)

\* Reserves, for the profiles of a table.
LEMMA TableReserves ==
  ASSUME NEW t \in Seq(Descriptors), NEW i \in DOMAIN t, NEW r \in Nat \ {0}
  PROVE  /\ MwMax(t[i], r) \in Nat
         /\ WithReserve(t[i], r, DownTarget) \in Nat /\ Power(t, r, i) \in Nat
         /\ WithReserve(t[i], r, UpSource) \in Nat
         /\ WithReserve(t[i], r, DownTarget) <= Power(t, r, i)
         /\ Power(t, r, i) <= WithReserve(t[i], r, UpSource)
         /\ WithReserve(t[i], r, UpSource) <= MwMax(t[i], r)
         /\ WithReserve(t[i], r, DownTarget) = Power(t, r, i) => Power(t, r, i) <= 1
<1>1. t[i] \in Descriptors
  OBVIOUS
<1> QED  BY <1>1, Reserves, MwMaxTyped DEF Power

\* If a profile serves the target with the reserve of an upgrade, the one that is
\* chosen serves it.
LEMMA SearchServes ==
  ASSUME NEW t, Offered(t), NEW from, NEW r \in Nat \ {0}, NEW mw \in Nat,
         \E i \in Known(t, r, mw) : mw < Power(t, r, i)
  PROVE  mw <= MwMax(t[BetterPdo(t, from, r, mw)], r)
<1> DEFINE base == Base(t, from, r, mw)
           P == BetterPdo(t, from, r, mw)
<1>1. t \in Seq(Descriptors) /\ t # <<>> /\ t[1].variant = "FIXED"
  BY DEF Offered
<1>2. base \in DOMAIN t /\ P \in DOMAIN t
  BY <1>1, BaseFound, BetterFound
<1>3. P = IF mw > WithReserve(t[base], r, UpSource) THEN ScanUp(t, base, r, mw)
          ELSE IF t[base].variant = "FIXED" THEN ScanDown(t, base, r, mw) ELSE base
  BY <1>1 DEF BetterPdo
<1> SUFFICES mw <= MwMax(t[P], r)
  OBVIOUS
<1> HIDE DEF base, P
<1>4. ASSUME NEW i \in DOMAIN t,
             \/ mw <= WithReserve(t[i], r, DownTarget) \/ mw <= Power(t, r, i)
             \/ mw <= WithReserve(t[i], r, UpSource)
      PROVE  mw <= MwMax(t[i], r)
  <2> DEFINE m == MwMax(t[i], r)
             down == WithReserve(t[i], r, DownTarget)
             up == Power(t, r, i)
             stay == WithReserve(t[i], r, UpSource)
  <2>1. /\ m \in Nat /\ down \in Nat /\ up \in Nat /\ stay \in Nat
        /\ down <= up /\ up <= stay /\ stay <= m
    BY <1>1, TableReserves
  <2>2. mw <= down \/ mw <= up \/ mw <= stay
    BY <1>4
  <2> HIDE DEF m, down, up, stay
  <2>3. mw <= m
    BY <2>1, <2>2
  <2> QED  BY <2>3 DEF m
<1>5. CASE mw > WithReserve(t[base], r, UpSource)
  <2>1. P = ScanUp(t, base, r, mw)
    BY <1>3, <1>5
  <2>2. PICK i \in Known(t, r, mw) : mw < Power(t, r, i)
    OBVIOUS
  <2>3. i \in DOMAIN t
    BY <2>2 DEF Known, Allowed
  <2>4. \/ P \in Serving(t, r, mw, UpTarget)
        \/ P \in Known(t, r, mw) /\ Power(t, r, P) > mw
        \/ \A j \in Known(t, r, mw) : ~(Power(t, r, j) > mw)
    BY <1>1, <1>2, <2>1, ScanUpFinds
  <2>5. Power(t, r, i) \in Nat /\ Power(t, r, P) \in Nat
    BY <1>1, <1>2, <2>3, TableReserves
  <2>6. CASE P \in Serving(t, r, mw, UpTarget)
    <3>1. mw <= Power(t, r, P)
      BY <2>6 DEF Serving, Power
    <3> QED  BY <1>2, <1>4, <3>1
  <2>7. CASE Power(t, r, P) > mw
    <3>1. mw <= Power(t, r, P)
      BY <2>5, <2>7
    <3> QED  BY <1>2, <1>4, <3>1
  <2>8. CASE \A j \in Known(t, r, mw) : ~(Power(t, r, j) > mw)
    <3>1. ~(Power(t, r, i) > mw)
      BY <2>2, <2>8
    <3> QED  BY <2>2, <2>5, <3>1
  <2> QED  BY <2>4, <2>6, <2>7, <2>8
<1>6. CASE ~(mw > WithReserve(t[base], r, UpSource))
  <2>1. mw <= MwMax(t[base], r)
    <3>1. WithReserve(t[base], r, UpSource) \in Nat
      BY <1>1, <1>2, TableReserves
    <3>2. mw <= WithReserve(t[base], r, UpSource)
      BY <1>6, <3>1
    <3> QED  BY <1>2, <1>4, <3>2
  <2>2. CASE P = ScanDown(t, base, r, mw)
    <3>1. P \in Serving(t, r, mw, DownTarget) \/ P \in Lower(t, base, r, mw) \/ P = base
      BY <1>1, <1>2, <2>2, ScanDownFinds
    <3>2. mw <= WithReserve(t[P], r, DownTarget) \/ P = base
      BY <3>1 DEF Serving, Lower
    <3>3. CASE P = base
      BY <2>1, <3>3
    <3>4. CASE mw <= WithReserve(t[P], r, DownTarget)
      BY <1>2, <1>4, <3>4
    <3> QED  BY <3>2, <3>3, <3>4
  <2>3. CASE P = base
    BY <2>1, <2>3
  <2> QED  BY <1>3, <1>6, <2>2, <2>3
<1> QED  BY <1>5, <1>6

\* Whenever some profile serves the target with the reserve of an upgrade, the
\* planned one serves it, however the search got there.
THEOREM ServedAlways == ChoiceSpec => []ServedIfPossible
<1>1. ASSUME ChoiceTypeOK PROVE ServedIfPossible
  <2>1. /\ Offered(ds) /\ load \in Nat \ {0} /\ wanted \in Nat
        /\ Plan.idx = BetterPdo(ds, cur, load, wanted)
    BY <1>1, PlanKnown
  <2> SUFFICES ASSUME NEW i \in DOMAIN ds, ds[i].variant # "UNKNOWN",
                      HasMargin(ds[i], load, InMargin),
                      ~Trapped(ds[i], load, wanted, Default(ds).mv),
                      wanted < WithReserve(ds[i], load, UpTarget)
               PROVE  wanted <= MwMax(ds[Plan.idx], load)
    BY DEF ServedIfPossible, Servable
  <2>2. i \in Known(ds, load, wanted) /\ wanted < Power(ds, load, i)
    BY DEF Known, Allowed, Power
  <2> QED  BY <2>1, <2>2, SearchServes
<1> QED  BY <1>1, ChoiceInvariance, PTL DEF ChoiceInv

(***************************************************************************)
(* The search comes to rest: searched from where it ended, it stays.  At   *)
(* a target of 1 mW it may not: a profile of 2 mW has 1 mW left by the     *)
(* reserve of an upgrade and by that of a downgrade, and is too weak for   *)
(* the one and strong enough for the other.                                *)
(***************************************************************************)

\* A profile that the searches may take is one to search from.
LEMMA TakenIsBase ==
  ASSUME NEW t, Offered(t), NEW r \in Nat \ {0}, NEW mw \in Nat, NEW p \in DOMAIN t,
         t[p].variant # "UNKNOWN",
         HasMargin(t[p], r, InMargin), ~Trapped(t[p], r, mw, Default(t).mv)
  PROVE  Base(t, p, r, mw) = p
<1>1. t[p] \in Descriptors /\ r \in Nat
  BY DEF Offered
<1>2. HasMargin(t[p], r, OutMargin)
  BY <1>1, Margins
<1> QED  BY <1>2 DEF Base

\* Fixed profiles are never trapped, and the voltages ascend.
LEMMA FixedKnown ==
  ASSUME NEW t, Offered(t), NEW r \in Nat \ {0}, NEW mw \in Nat, NEW from,
         NEW j \in Lower(t, from, r, mw)
  PROVE  /\ j \in Known(t, r, mw) /\ j \in FixedAt(t)
         /\ ~Trapped(t[j], r, mw, Default(t).mv)
         /\ mw <= WithReserve(t[j], r, DownTarget)
         /\ t[j].mv_max < t[from].mv_max
<1>1. j \in DOMAIN t /\ t[j].variant = "FIXED" /\ HasMargin(t[j], r, InMargin)
  BY DEF Lower
<1>2. ~IsApdo(t[j])
  BY <1>1 DEF IsApdo, Apdos
<1> QED  BY <1>1, <1>2 DEF Lower, Known, Allowed, Trapped, FixedAt

LEMMA LowerIsBefore ==
  ASSUME NEW t, Offered(t), NEW i \in FixedAt(t), NEW j \in FixedAt(t),
         t[i].mv_max < t[j].mv_max
  PROVE  i < j
<1>1. i \in Nat /\ j \in Nat /\ i \in DOMAIN t /\ j \in DOMAIN t
  BY DEF Offered, FixedAt
<1>2. t[i].mv_max \in Nat /\ t[j].mv_max \in Nat
  <2>1. t[i] \in Descriptors /\ t[j] \in Descriptors
    BY <1>1 DEF Offered
  <2> QED  BY <2>1 DEF Descriptors
<1>3. j < i => t[j].mv_max < t[i].mv_max
  BY DEF Offered
<1>4. i # j /\ ~(j < i)
  <2>1. i # j
    BY <1>2
  <2>2. ~(j < i)
    BY <1>2, <1>3
  <2> QED  BY <2>1, <2>2
<1> QED  BY <1>1, <1>4

\* Whoever serves with the reserve of a downgrade serves with that of an upgrade.
LEMMA ServingDown ==
  ASSUME NEW t, Offered(t), NEW r \in Nat \ {0}, NEW mw \in Nat
  PROVE  Serving(t, r, mw, DownTarget) \subseteq Serving(t, r, mw, UpTarget)
<1> SUFFICES ASSUME NEW i \in Serving(t, r, mw, DownTarget)
             PROVE  i \in Serving(t, r, mw, UpTarget)
  OBVIOUS
<1>1. i \in Allowed(t, r, mw) /\ i \in DOMAIN t /\ IsApdo(t[i])
      /\ mw <= WithReserve(t[i], r, DownTarget)
  BY DEF Serving, Allowed
<1> DEFINE down == WithReserve(t[i], r, DownTarget)
           up == WithReserve(t[i], r, UpTarget)
<1>2. down \in Nat /\ up \in Nat /\ down <= up /\ mw <= down
  BY <1>1, TableReserves DEF Offered, Power
<1> HIDE DEF down, up
<1>3. mw <= up
  BY <1>2
<1> QED  BY <1>1, <1>3 DEF Serving, up

\* A profile that serves with either reserve is not left for a stronger one.
LEMMA NotUp ==
  ASSUME NEW t, Offered(t), NEW r \in Nat \ {0}, NEW mw \in Nat, NEW p \in DOMAIN t,
         mw <= WithReserve(t[p], r, DownTarget) \/ mw <= Power(t, r, p)
  PROVE  ~(mw > WithReserve(t[p], r, UpSource))
<1> DEFINE down == WithReserve(t[p], r, DownTarget)
           up == Power(t, r, p)
           stay == WithReserve(t[p], r, UpSource)
<1>1. down \in Nat /\ up \in Nat /\ stay \in Nat /\ down <= up /\ up <= stay
      /\ (mw <= down \/ mw <= up)
  BY TableReserves DEF Offered
<1> HIDE DEF down, up, stay
<1>2. ~(mw > stay)
  BY <1>1
<1> QED  BY <1>2 DEF stay

\* A profile that an upgrade found too weak is not one to go down to.
LEMMA TooWeak ==
  ASSUME NEW t, Offered(t), NEW r \in Nat \ {0}, NEW mw \in Nat \ {0, 1}, NEW j \in DOMAIN t,
         mw <= WithReserve(t[j], r, DownTarget)
  PROVE  Power(t, r, j) > mw
<1> DEFINE down == WithReserve(t[j], r, DownTarget)
           up == Power(t, r, j)
<1>1. down \in Nat /\ up \in Nat /\ down <= up /\ mw <= down /\ (down = up => up <= 1)
  <2>1. t \in Seq(Descriptors)
    BY DEF Offered
  <2> QED  BY <2>1, TableReserves
<1> HIDE DEF down, up
<1>2. up > mw
  BY <1>1
<1> QED  BY <1>2 DEF up

LEMMA SearchRests ==
  ASSUME NEW t, Offered(t), NEW from, NEW r \in Nat \ {0}, NEW mw \in Nat, mw # 1,
         NEW P, P = BetterPdo(t, from, r, mw)
  PROVE  BetterPdo(t, P, r, mw) = P
<1> DEFINE base == Base(t, from, r, mw)
           up(i) == mw > WithReserve(t[i], r, UpSource)
           apdos == Serving(t, r, mw, UpTarget)
<1>1. t \in Seq(Descriptors) /\ t # <<>> /\ t[1].variant = "FIXED" /\ r # 0
  BY DEF Offered
<1>2. base \in DOMAIN t /\ P \in DOMAIN t /\ t[P].variant # "UNKNOWN"
      /\ Base(t, base, r, mw) = base
  BY <1>1, BaseFound, BetterFound
<1>3. /\ up(base) => P = ScanUp(t, base, r, mw)
      /\ ~up(base) /\ t[base].variant = "FIXED" => P = ScanDown(t, base, r, mw)
      /\ ~up(base) /\ t[base].variant # "FIXED" => P = base
  BY <1>1 DEF BetterPdo
\* The search that starts at P.
<1>4. ASSUME Base(t, P, r, mw) = P
      PROVE  BetterPdo(t, P, r, mw) =
               IF up(P) THEN ScanUp(t, P, r, mw)
               ELSE IF t[P].variant = "FIXED" THEN ScanDown(t, P, r, mw) ELSE P
  BY <1>1, <1>4 DEF BetterPdo
<1>5. ASSUME P = base PROVE BetterPdo(t, P, r, mw) = P
  <2>1. BetterPdo(t, P, r, mw) = BetterPdo(t, from, r, mw)
    BY <1>2, <1>5 DEF BetterPdo
  <2> QED  BY <2>1
<1>6. ASSUME P \in Allowed(t, r, mw) PROVE Base(t, P, r, mw) = P
  BY <1>2, <1>6, TakenIsBase DEF Allowed
<1>7. \A i : IsApdo(t[i]) => t[i].variant # "FIXED"
  BY DEF IsApdo, Apdos
<1>8. \A i \in DOMAIN t : up(i) => mw \in Nat \ {0, 1}
  <2> SUFFICES ASSUME NEW i \in DOMAIN t, up(i) PROVE mw # 0
    OBVIOUS
  <2>1. WithReserve(t[i], r, UpSource) \in Nat
    BY <1>1, TableReserves
  <2> QED  BY <2>1
<1> HIDE DEF base, up, apdos
\* An adjustable profile that serves stays.
<1>9. ASSUME P \in Serving(t, r, mw, UpTarget) \/ P \in Serving(t, r, mw, DownTarget)
      PROVE  BetterPdo(t, P, r, mw) = P
  <2>1. P \in Allowed(t, r, mw) /\ IsApdo(t[P])
    BY <1>9 DEF Serving
  <2>2. mw <= WithReserve(t[P], r, DownTarget) \/ mw <= Power(t, r, P)
    BY <1>9 DEF Serving, Power
  <2>3. ~up(P)
    BY <1>2, <2>2, NotUp DEF up
  <2> QED  BY <1>4, <1>6, <1>7, <2>1, <2>3
<1>10. ASSUME up(base) PROVE BetterPdo(t, P, r, mw) = P
  <2> DEFINE known == Known(t, r, mw)
  <2>1. mw \in Nat \ {0, 1}
    BY <1>2, <1>8, <1>10
  <2>2. \A j \in known : j \in DOMAIN t /\ j \in Allowed(t, r, mw)
    BY DEF Known, Allowed
  \* Going down would need a lower profile that has the reserve of a downgrade, and
  \* so that of the upgrade, which did not take it.
  <2>3. ASSUME apdos = {}, P \in known, ~up(P), t[P].variant = "FIXED",
               \A j \in known : Power(t, r, j) > mw => P <= j
        PROVE  ScanDown(t, P, r, mw) = P
    <3>1. ASSUME NEW j \in Lower(t, P, r, mw) PROVE FALSE
      <4>1. /\ j \in known /\ j \in FixedAt(t) /\ mw <= WithReserve(t[j], r, DownTarget)
            /\ t[j].mv_max < t[P].mv_max
        BY FixedKnown
      <4>2. Power(t, r, j) > mw
        BY <2>1, <2>2, <4>1, TooWeak
      <4>3. P \in FixedAt(t) /\ j < P
        <5>1. P \in FixedAt(t)
          BY <1>2, <2>3 DEF FixedAt
        <5> QED  BY <4>1, <5>1, LowerIsBefore
      <4>4. P <= j
        BY <2>3, <4>1, <4>2
      <4>5. P \in Nat /\ j \in Nat
        BY <1>1, <1>2, <2>2, <4>1
      <4> QED  BY <4>3, <4>4, <4>5
    <3>2. Serving(t, r, mw, DownTarget) = {}
      BY <2>3, ServingDown DEF apdos
    <3> QED  BY <1>1, <1>2, <3>1, <3>2, ScanDownFinds
  <2>4. \/ P \in apdos
        \/ /\ apdos = {} /\ P \in known /\ Power(t, r, P) > mw
           /\ \A j \in known : Power(t, r, j) > mw => P <= j
        \/ /\ apdos = {} /\ \A j \in known : ~(Power(t, r, j) > mw)
           /\ P \in known /\ \A j \in known : Power(t, r, P) >= Power(t, r, j)
        \/ P = base
    BY <1>1, <1>2, <1>3, <1>10, ScanUpFinds DEF apdos
  <2>5. CASE P \in apdos
    BY <1>9, <2>5 DEF apdos
  <2>6. CASE /\ apdos = {} /\ P \in known /\ Power(t, r, P) > mw
             /\ \A j \in known : Power(t, r, j) > mw => P <= j
    <3>1. Power(t, r, P) \in Nat
      BY <1>1, <1>2, TableReserves
    <3>2. mw <= Power(t, r, P)
      BY <2>6, <3>1
    <3>3. ~up(P)
      BY <1>2, <3>2, NotUp DEF up
    <3>4. t[P].variant = "FIXED" => ScanDown(t, P, r, mw) = P
      BY <2>3, <2>6, <3>3
    <3> QED  BY <1>4, <1>6, <2>2, <2>6, <3>3, <3>4
  <2>7. CASE /\ apdos = {} /\ \A j \in known : ~(Power(t, r, j) > mw)
             /\ P \in known /\ \A j \in known : Power(t, r, P) >= Power(t, r, j)
    <3>1. Base(t, P, r, mw) = P
      BY <1>6, <2>2, <2>7
    <3>2. CASE up(P)
      <4> DEFINE Q == ScanUp(t, P, r, mw)
      <4>1. BetterPdo(t, P, r, mw) = Q
        BY <1>4, <3>1, <3>2
      <4>2. \/ Q \in apdos
            \/ Q \in known /\ Power(t, r, Q) > mw
            \/ Q \in known /\ Power(t, r, Q) > Power(t, r, P)
            \/ Q = P
        BY <1>1, <1>2, ScanUpFinds DEF apdos
      <4> HIDE DEF Q
      <4>3. ~(Q \in known /\ Power(t, r, Q) > Power(t, r, P))
        <5> SUFFICES ASSUME Q \in known, Power(t, r, Q) > Power(t, r, P) PROVE FALSE
          OBVIOUS
        <5>1. Power(t, r, Q) \in Nat /\ Power(t, r, P) \in Nat
          BY <1>1, <1>2, <2>2, TableReserves
        <5>2. Power(t, r, P) >= Power(t, r, Q)
          BY <2>7
        <5> QED  BY <5>1, <5>2
      <4> QED  BY <2>7, <4>1, <4>2, <4>3
    <3>3. CASE ~up(P)
      <4>1. t[P].variant = "FIXED" => ScanDown(t, P, r, mw) = P
        BY <2>3, <2>7, <3>3
      <4> QED  BY <1>4, <3>1, <3>3, <4>1
    <3> QED  BY <3>2, <3>3
  <2>8. CASE P = base
    BY <1>5, <2>8
  <2> QED  BY <2>4, <2>5, <2>6, <2>7, <2>8
<1>11. ASSUME ~up(base), t[base].variant = "FIXED" PROVE BetterPdo(t, P, r, mw) = P
  <2>1. \/ P \in Serving(t, r, mw, DownTarget)
        \/ /\ Serving(t, r, mw, DownTarget) = {} /\ P \in Lower(t, base, r, mw)
           /\ \A j \in Lower(t, base, r, mw) : P <= j
        \/ P = base
    BY <1>1, <1>2, <1>3, <1>11, ScanDownFinds
  <2>2. CASE /\ Serving(t, r, mw, DownTarget) = {} /\ P \in Lower(t, base, r, mw)
             /\ \A j \in Lower(t, base, r, mw) : P <= j
    <3>1. /\ P \in Known(t, r, mw) /\ P \in FixedAt(t) /\ mw <= WithReserve(t[P], r, DownTarget)
          /\ t[P].mv_max < t[base].mv_max
      BY <2>2, FixedKnown
    <3>2. ~up(P)
      BY <1>2, <3>1, NotUp DEF up
    <3>3. Base(t, P, r, mw) = P
      BY <1>6, <3>1 DEF Known
    <3>4. ASSUME NEW j \in Lower(t, P, r, mw) PROVE FALSE
      <4>1. /\ j \in DOMAIN t /\ j \in FixedAt(t) /\ t[j].mv_max < t[P].mv_max
        BY FixedKnown DEF Known, Allowed
      <4>2. j < P
        BY <3>1, <4>1, LowerIsBefore
      <4>3. t[j].mv_max < t[base].mv_max
        <5>1. t[j] \in Descriptors /\ t[P] \in Descriptors /\ t[base] \in Descriptors
          BY <1>1, <1>2, <4>1
        <5>2. t[j].mv_max \in Nat /\ t[P].mv_max \in Nat /\ t[base].mv_max \in Nat
          BY <5>1 DEF Descriptors
        <5> QED  BY <3>1, <4>1, <5>2
      <4>4. j \in Lower(t, base, r, mw)
        BY <4>3 DEF Lower
      <4>5. P \in Nat /\ j \in Nat
        BY <1>1, <1>2, <4>1
      <4> QED  BY <2>2, <4>2, <4>4, <4>5
    <3>5. ScanDown(t, P, r, mw) = P
      BY <1>1, <1>2, <2>2, <3>4, ScanDownFinds
    <3>6. t[P].variant = "FIXED"
      BY <3>1 DEF FixedAt
    <3> QED  BY <1>4, <3>2, <3>3, <3>5, <3>6
  <2> QED  BY <1>5, <1>9, <2>1, <2>2
<1> QED  BY <1>3, <1>5, <1>10, <1>11

\* A plan that was followed is the plan again while load and target stay: the choice
\* does not go on by itself.
LEMMA PlanIsKept == ChoiceTypeOK => PlanSettles
BY PlanKnown, SearchRests DEF PlanSettles

(***************************************************************************)
(* A change by a hundredth.  It changes what a profile has by little more  *)
(* than a hundredth, and the reserves and margins are wider than that.     *)
(***************************************************************************)
LEMMA NearBounds ==
  ASSUME NEW x \in Nat, NEW y \in Near(x)
  PROVE  /\ y \in Nat /\ 99 * x <= 100 * y /\ 100 * y <= 101 * x
         /\ x # 0 => y # 0
         /\ x < 100 => y = x
BY SMT DEF Near

\* What is limited by the voltage,
LEMMA QuotientDrift ==
  ASSUME NEW a \in Nat, NEW r \in Nat \ {0}, NEW s \in Nat \ {0},
         99 * r <= 100 * s, 100 * s <= 101 * r
  PROVE  /\ a \div r \in Nat /\ a \div s \in Nat
         /\ 99 * (a \div r) < 100 * (a \div s) + 100
         /\ 99 * (a \div s) <= 100 * (a \div r) + 100
<1> DEFINE x == a \div r
           y == a \div s
           xr == x * r
           xs == x * s
           yr == y * r
           ys == y * s
<1>1. x \in Nat /\ y \in Nat /\ xr <= a /\ a < xr + r /\ ys <= a /\ a < ys + s
  BY Quotient
<1> HIDE DEF x, y
<1>2. xr \in Nat /\ xs \in Nat /\ yr \in Nat /\ ys \in Nat
  BY <1>1, Arithmetic
<1>3. 99 * xs <= 100 * xr
  <2>1. (99 * s) * x <= (100 * r) * x
    <3>1. 99 * s \in Nat /\ 100 * r \in Nat /\ 99 * s <= 100 * r
      OBVIOUS
    <3> QED  BY <1>1, <3>1, ProductsGrow
  <2>2. (99 * s) * x = 99 * xs /\ (100 * r) * x = 100 * xr
    BY <1>1
  <2> QED  BY <2>1, <2>2
<1>4. 99 * yr <= 100 * ys
  <2>1. (99 * r) * y <= (100 * s) * y
    <3>1. 99 * r \in Nat /\ 100 * s \in Nat
      OBVIOUS
    <3> QED  BY <1>1, <3>1, ProductsGrow
  <2>2. (99 * r) * y = 99 * yr /\ (100 * s) * y = 100 * ys
    BY <1>1
  <2> QED  BY <2>1, <2>2
<1>5. ASSUME 100 * y + 100 <= 99 * x PROVE FALSE
  <2>1. (100 * y + 100) * s <= (99 * x) * s
    <3>1. 100 * y + 100 \in Nat /\ 99 * x \in Nat
      BY <1>1
    <3> QED  BY <1>5, <3>1, ProductsGrow
  <2>2. (100 * y + 100) * s = 100 * ys + 100 * s /\ (99 * x) * s = 99 * xs
    BY <1>1
  <2>3. 100 * ys + 100 * s <= 99 * xs
    BY <2>1, <2>2
  <2> HIDE DEF xr, xs, yr, ys
  <2> QED  BY <1>1, <1>2, <1>3, <2>3
<1>6. ASSUME 100 * x + 100 <= 99 * y PROVE FALSE
  <2>1. (100 * x + 100) * r <= (99 * y) * r
    <3>1. 100 * x + 100 \in Nat /\ 99 * y \in Nat
      BY <1>1
    <3> QED  BY <1>6, <3>1, ProductsGrow
  <2>2. (100 * x + 100) * r = 100 * xr + 100 * r /\ (99 * y) * r = 99 * yr
    BY <1>1
  <2>3. 100 * xr + 100 * r <= 99 * yr
    BY <2>1, <2>2
  <2> HIDE DEF xr, xs, yr, ys
  <2> QED  BY <1>1, <1>2, <1>4, <2>3
<1>7. 99 * x < 100 * y + 100 /\ 99 * y <= 100 * x + 100
  BY <1>1, <1>5, <1>6
<1> QED  BY <1>1, <1>7 DEF x, y

\* and by the current,
LEMMA ProductDrift ==
  ASSUME NEW c \in Nat, NEW r \in Nat, NEW s \in Nat,
         99 * r <= 100 * s, 100 * s <= 101 * r
  PROVE  /\ (c * r) \div 1000 \in Nat /\ (c * s) \div 1000 \in Nat
         /\ 99 * ((c * r) \div 1000) < 100 * ((c * s) \div 1000) + 100
         /\ 99 * ((c * s) \div 1000) <= 100 * ((c * r) \div 1000) + 100
<1> DEFINE cr == c * r
           cs == c * s
<1>1. cr \in Nat /\ cs \in Nat
  BY Arithmetic
<1>2. 99 * cr <= 100 * cs /\ 100 * cs <= 101 * cr
  <2>1. (99 * r) * c <= (100 * s) * c /\ (100 * s) * c <= (101 * r) * c
    <3>1. 99 * r \in Nat /\ 100 * s \in Nat /\ 101 * r \in Nat
      OBVIOUS
    <3> QED  BY <3>1, ProductsGrow
  <2>2. (99 * r) * c = 99 * cr /\ (100 * s) * c = 100 * cs /\ (101 * r) * c = 101 * cr
    OBVIOUS
  <2> QED  BY <2>1, <2>2
<1> DEFINE u == cr \div 1000
           v == cs \div 1000
<1> HIDE DEF cr, cs
<1>3. u \in Nat /\ v \in Nat /\ u * 1000 <= cr /\ cr < u * 1000 + 1000
      /\ v * 1000 <= cs /\ cs < v * 1000 + 1000
  BY <1>1, SMT
<1> HIDE DEF u, v
<1>4. 99 * u < 100 * v + 100 /\ 99 * v <= 100 * u + 100
  BY <1>1, <1>2, <1>3, SMT
<1> QED  BY <1>3, <1>4 DEF u, v, cr, cs

\* and with it the power of a profile, change by about a hundredth.
LEMMA PowerDrift ==
  ASSUME NEW d \in Descriptors, NEW r \in Nat \ {0}, NEW s \in Near(r)
  PROVE  /\ MwMax(d, r) \in Nat /\ MwMax(d, s) \in Nat
         /\ 99 * MwMax(d, r) < 100 * MwMax(d, s) + 100
         /\ 99 * MwMax(d, s) <= 100 * MwMax(d, r) + 100
<1>1. s \in Nat \ {0} /\ 99 * r <= 100 * s /\ 100 * s <= 101 * r
  BY NearBounds
<1> DEFINE vv == d.mv_max * d.mv_max
           mm == d.ma_max * d.ma_max
           c == mm \div 1000
           pdp == d.pdp_mw
           V(x) == vv \div x
           C(x) == (c * x) \div 1000
<1>2. vv \in Nat /\ c \in Nat /\ pdp \in Nat
  <2>1. d.mv_max \in Nat /\ d.ma_max \in Nat /\ d.pdp_mw \in Nat
    BY DEF Descriptors
  <2>2. vv \in Nat /\ mm \in Nat
    BY <2>1, Arithmetic
  <2> HIDE DEF vv, mm
  <2> QED  BY <2>1, <2>2, SMT
<1>3. \A x : MwMax(d, x) = IF pdp > 0 THEN Lesser(Lesser(V(x), C(x)), pdp)
                          ELSE Lesser(V(x), C(x))
  BY DEF MwMax
<1> HIDE DEF vv, c, pdp
<1>4. /\ V(r) \in Nat /\ V(s) \in Nat
      /\ 99 * V(r) < 100 * V(s) + 100 /\ 99 * V(s) <= 100 * V(r) + 100
  BY <1>1, <1>2, QuotientDrift
<1>5. /\ C(r) \in Nat /\ C(s) \in Nat
      /\ 99 * C(r) < 100 * C(s) + 100 /\ 99 * C(s) <= 100 * C(r) + 100
  BY <1>1, <1>2, ProductDrift
<1> HIDE DEF V, C
<1> DEFINE k == MwMax(d, r)
           l == MwMax(d, s)
<1>6. /\ k = IF pdp > 0 THEN Lesser(Lesser(V(r), C(r)), pdp) ELSE Lesser(V(r), C(r))
      /\ l = IF pdp > 0 THEN Lesser(Lesser(V(s), C(s)), pdp) ELSE Lesser(V(s), C(s))
  BY <1>3
<1> HIDE DEF k, l
<1>7. k \in Nat /\ l \in Nat /\ 99 * k < 100 * l + 100 /\ 99 * l <= 100 * k + 100
  BY <1>2, <1>4, <1>5, <1>6, SMT DEF Lesser
<1> QED  BY <1>7 DEF k, l

\* A profile that has the reserve of an upgrade, or of a downgrade, is not left for
\* a stronger one;
LEMMA StillServes ==
  ASSUME NEW d \in Descriptors, NEW r \in Nat \ {0}, NEW s \in Near(r),
         NEW mw \in Nat \ 1..19, NEW nw \in Near(mw),
         mw <= WithReserve(d, r, UpTarget)
  PROVE  ~(nw > WithReserve(d, s, UpSource))
<1> DEFINE k == MwMax(d, r)
           l == MwMax(d, s)
<1>1. k \in Nat /\ l \in Nat /\ 99 * k < 100 * l + 100
  BY PowerDrift
<1>2. nw \in Nat /\ 100 * nw <= 101 * mw /\ (mw < 100 => nw = mw)
  BY NearBounds
<1> SUFFICES ASSUME mw <= (k * (100 - 10)) \div 100
             PROVE  ~(nw > (l * (100 - 5)) \div 100)
  BY SMT DEF WithReserve, UpTarget, UpSource
<1> HIDE DEF k, l
<1>3. 100 * mw <= 90 * k
  BY <1>1, SMT
<1>4. 100 * nw <= 95 * l
  <2>1. CASE mw = 0
    BY <1>1, <1>2, <2>1, SMT
  <2>2. CASE mw # 0 /\ mw < 100
    BY <1>1, <1>2, <1>3, <2>2, SMT
  <2>3. CASE mw >= 100
    BY <1>1, <1>2, <1>3, <2>3, SMT
  <2> QED  BY <2>1, <2>2, <2>3
<1> QED  BY <1>1, <1>2, <1>4, SMT

\* one that was left for being too weak does not get the reserve of a downgrade.
LEMMA StillWeak ==
  ASSUME NEW d \in Descriptors, NEW r \in Nat \ {0}, NEW s \in Near(r),
         NEW mw \in Nat \ 1..19, NEW nw \in Near(mw),
         mw > WithReserve(d, r, UpSource)
  PROVE  ~(nw <= WithReserve(d, s, DownTarget))
<1> DEFINE k == MwMax(d, r)
           l == MwMax(d, s)
<1>1. k \in Nat /\ l \in Nat /\ 99 * l <= 100 * k + 100
  BY PowerDrift
<1>2. nw \in Nat /\ 99 * mw <= 100 * nw
  BY NearBounds
<1> SUFFICES ASSUME mw > (k * (100 - 5)) \div 100
             PROVE  ~(nw <= (l * (100 - 40)) \div 100)
  BY SMT DEF WithReserve, DownTarget, UpSource
<1> HIDE DEF k, l
<1>3. 95 * k < 100 * mw
  BY <1>1, SMT
<1>4. mw >= 20
  BY <1>1, <1>3, SMT
<1>5. 60 * l < 100 * nw
  BY <1>1, <1>2, <1>3, <1>4, SMT
<1> QED  BY <1>1, <1>2, <1>5, SMT

\* Nor does the current margin get lost, or come back, that soon.
LEMMA MarginDrift ==
  ASSUME NEW d \in Descriptors, d.ma_max <= MaxCurrent, 5000 <= d.mv_min,
         NEW r \in Nat \ {0}, NEW s \in Near(r)
  PROVE  /\ HasMargin(d, r, InMargin) => HasMargin(d, s, OutMargin)
         /\ HasMargin(d, s, InMargin) => HasMargin(d, r, OutMargin)
<1> DEFINE a == d.mv_min * 1000
           m == d.ma_max
           q == a \div m
           qm == q * m
<1>1. s \in Nat /\ 99 * r <= 100 * s /\ 100 * s <= 101 * r
  BY NearBounds
<1>2. m \in Nat /\ m <= 10230 /\ a \in Nat /\ a >= 5000000
  <2>1. d.mv_min \in Nat /\ d.ma_max \in Nat
    BY DEF Descriptors
  <2> QED  BY <2>1, SMT DEF MaxCurrent
<1>3. \A x, pct : HasMargin(d, x, pct) <=> m > 0 /\ x >= (q * (100 + pct)) \div 100
  BY DEF HasMargin
<1> HIDE DEF a, m
<1>4. CASE m = 0
  BY <1>2, <1>3, <1>4
<1>5. CASE m # 0
  <2>1. q \in Nat /\ a < qm + m
    BY <1>2, <1>5, Quotient
  <2> HIDE DEF q
  <2>2. q >= 101
    <3> SUFFICES ASSUME q <= 100 PROVE FALSE
      BY <2>1
    <3>1. qm <= 100 * m /\ qm \in Nat
      BY <1>2, <2>1, ProductsGrow, Arithmetic
    <3> HIDE DEF qm
    <3> QED  BY <1>2, <2>1, <3>1, SMT
  <2>3. /\ r >= (q * (100 + 3)) \div 100 => s >= (q * (100 + 1)) \div 100
        /\ s >= (q * (100 + 3)) \div 100 => r >= (q * (100 + 1)) \div 100
    BY <1>1, <2>1, <2>2, SMT
  <2> QED  BY <1>3, <2>3, SMT DEF InMargin, OutMargin
<1> QED  BY <1>4, <1>5

(***************************************************************************)
(* The choice does not turn back.                                          *)
(***************************************************************************)

\* Whatever a search takes but the base it started from has the current margin.
LEMMA TakenHasMargin ==
  ASSUME NEW t, Offered(t), NEW from, NEW r \in Nat \ {0}, NEW mw \in Nat,
         NEW Q, Q = BetterPdo(t, from, r, mw), Q # Base(t, from, r, mw)
  PROVE  HasMargin(t[Q], r, InMargin)
<1> DEFINE base == Base(t, from, r, mw)
<1>1. t \in Seq(Descriptors) /\ t # <<>> /\ t[1].variant = "FIXED" /\ r # 0
  BY DEF Offered
<1>2. base \in DOMAIN t
  BY <1>1, BaseFound
<1>3. Q = ScanUp(t, base, r, mw) \/ Q = ScanDown(t, base, r, mw) \/ Q = base
  BY <1>1 DEF BetterPdo
<1> HIDE DEF base
<1>4. CASE Q = ScanUp(t, base, r, mw)
  <2>1. Q \in Serving(t, r, mw, UpTarget) \/ Q \in Known(t, r, mw) \/ Q = base
    BY <1>1, <1>2, <1>4, ScanUpFinds
  <2> QED  BY <2>1 DEF Serving, Known, Allowed, base
<1>5. CASE Q = ScanDown(t, base, r, mw)
  <2>1. Q \in Serving(t, r, mw, DownTarget) \/ Q \in Lower(t, base, r, mw) \/ Q = base
    BY <1>1, <1>2, <1>5, ScanDownFinds
  <2> QED  BY <2>1 DEF Serving, Lower, Allowed, base
<1> QED  BY <1>3, <1>4, <1>5 DEF base

Untrapped(t) == \A i \in DOMAIN t : IsApdo(t[i]) => t[i].mv_min <= Default(t).mv

LEMMA NeverTrapped ==
  ASSUME NEW t, Offered(t), Untrapped(t), NEW i \in DOMAIN t, NEW r, NEW mw
  PROVE  ~Trapped(t[i], r, mw, Default(t).mv)
<1> SUFFICES ASSUME IsApdo(t[i]) PROVE ~(t[i].mv_min > Default(t).mv)
  BY DEF Trapped
<1>1. t[i].mv_min \in Nat
  <2>1. t[i] \in Descriptors
    BY DEF Offered
  <2> QED  BY <2>1 DEF Descriptors
<1>2. Default(t).mv \in Nat
  BY DefaultTyped, SMT DEF Offered, DefaultFallback, DefaultDesired
<1>3. t[i].mv_min <= Default(t).mv
  BY DEF Untrapped
<1> QED  BY <1>1, <1>2, <1>3

LEMMA DownTaken ==
  ASSUME NEW t, Offered(t), NEW from \in DOMAIN t, NEW r \in Nat \ {0}, NEW mw \in Nat,
         NEW P, P = ScanDown(t, from, r, mw), P # from
  PROVE  P \in Serving(t, r, mw, DownTarget) \/ P \in Lower(t, from, r, mw)
<1>1. t \in Seq(Descriptors)
  BY DEF Offered
<1> QED  BY <1>1, ScanDownFinds

LEMMA NoTurningBack ==
  ASSUME NEW t, Offered(t), Untrapped(t), NEW from \in DOMAIN t,
         NEW r \in Nat \ {0}, NEW mw \in Nat \ 1..19,
         \E i \in Known(t, r, mw) : mw < Power(t, r, i),
         NEW s \in Near(r), NEW nw \in Near(mw),
         NEW P, P = BetterPdo(t, from, r, mw), P # from
  PROVE  BetterPdo(t, P, s, nw) # from
<1> DEFINE base == Base(t, from, r, mw)
           Q == BetterPdo(t, P, s, nw)
<1>1. t \in Seq(Descriptors) /\ t # <<>> /\ t[1].variant = "FIXED" /\ 1 \in DOMAIN t
  BY DEF Offered
<1>2. s \in Nat \ {0} /\ nw \in Nat /\ mw \in Nat
  BY NearBounds
<1>3. /\ base \in DOMAIN t /\ P \in DOMAIN t /\ t[P].variant # "UNKNOWN"
      /\ Q \in DOMAIN t /\ t[Q].variant # "UNKNOWN"
  BY <1>1, <1>2, BaseFound, BetterFound
<1>4. \A i \in DOMAIN t :
        /\ t[i] \in Descriptors /\ t[i].ma_max <= MaxCurrent
        /\ t[i].variant # "UNKNOWN" => 5000 <= t[i].mv_min
        /\ t[i].variant # "UNKNOWN" /\ HasMargin(t[i], r, InMargin) =>
             HasMargin(t[i], s, OutMargin)
        /\ t[i].variant # "UNKNOWN" /\ HasMargin(t[i], s, InMargin) =>
             HasMargin(t[i], r, OutMargin)
  <2>1. \A i \in DOMAIN t : t[i] \in Descriptors /\ t[i].ma_max <= MaxCurrent
                            /\ (t[i].variant # "UNKNOWN" => 5000 <= t[i].mv_min)
    <3>1. \A i \in DOMAIN t : t[i] \in Descriptors
      BY <1>1
    <3> QED  BY <3>1 DEF Offered
  <2> QED  BY <2>1, MarginDrift
<1> SUFFICES ASSUME Q = from PROVE FALSE
  OBVIOUS
\* A profile that was left for its current does not have the margin to come back to.
<1>5. base = from
  <2> SUFFICES ASSUME base # from PROVE FALSE
    OBVIOUS
  <2>1. base = 1 /\ from # 1
    BY DEF Base
  <2>2. t[from].variant # "UNKNOWN"
    BY <1>3
  <2>3. ~HasMargin(t[from], r, OutMargin)
    BY <2>2, NeverTrapped DEF Base
  <2>4. ~HasMargin(t[from], s, InMargin)
    BY <1>4, <2>2, <2>3
  <2>5. Q = Base(t, P, s, nw)
    BY <1>2, <2>4, TakenHasMargin
  <2>6. Base(t, P, s, nw) \in {1, P}
    BY DEF Base
  <2> QED  BY <2>1, <2>5, <2>6
<1> DEFINE up(i, x, w) == w > WithReserve(t[i], x, UpSource)
<1>6. /\ up(from, r, mw) => P = ScanUp(t, from, r, mw)
      /\ ~up(from, r, mw) /\ t[from].variant = "FIXED" => P = ScanDown(t, from, r, mw)
      /\ ~up(from, r, mw) /\ t[from].variant # "FIXED" => P = from
  BY <1>1, <1>5 DEF BetterPdo
\* The profile that was taken is one to search from, and strong enough.
<1>7. ASSUME HasMargin(t[P], r, InMargin), mw <= Power(t, r, P)
      PROVE  /\ t[P].variant = "FIXED"
             /\ from \in Serving(t, s, nw, DownTarget) \/ from \in Lower(t, P, s, nw)
  <2>1. Base(t, P, s, nw) = P
    <3>1. HasMargin(t[P], s, OutMargin)
      BY <1>3, <1>4, <1>7
    <3>2. ~Trapped(t[P], s, nw, Default(t).mv)
      BY <1>3, NeverTrapped
    <3> QED  BY <1>3, <3>1, <3>2 DEF Base
  <2>2. ~up(P, s, nw)
    BY <1>3, <1>4, <1>7, StillServes DEF Power
  <2>3. Q = IF t[P].variant = "FIXED" THEN ScanDown(t, P, s, nw) ELSE P
    BY <1>1, <1>2, <2>1, <2>2 DEF BetterPdo
  <2>4. t[P].variant = "FIXED" /\ Q = ScanDown(t, P, s, nw)
    BY <2>3
  <2> HIDE DEF Q
  <2>5. Q \in Serving(t, s, nw, DownTarget) \/ Q \in Lower(t, P, s, nw)
    BY <1>2, <1>3, <2>4, DownTaken
  <2> QED  BY <2>4, <2>5
<1> HIDE DEF base, Q, up
<1>8. CASE up(from, r, mw)
  <2>1. P = ScanUp(t, from, r, mw)
    BY <1>6, <1>8
  <2>2. PICK i \in Known(t, r, mw) : mw < Power(t, r, i)
    OBVIOUS
  <2>3. i \in DOMAIN t
    BY <2>2 DEF Known, Allowed
  <2>4. Power(t, r, i) \in Nat /\ Power(t, r, P) \in Nat
    BY <1>1, <1>3, <2>3, TableReserves
  <2>5. \/ P \in Serving(t, r, mw, UpTarget)
        \/ P \in Known(t, r, mw) /\ Power(t, r, P) > mw
        \/ \A j \in Known(t, r, mw) : ~(Power(t, r, j) > mw)
    BY <1>1, <1>2, <2>1, ScanUpFinds
  <2>6. ~(\A j \in Known(t, r, mw) : ~(Power(t, r, j) > mw))
    <3>1. Power(t, r, i) > mw
      BY <1>2, <2>2, <2>4
    <3> QED  BY <2>2, <3>1
  <2>7. HasMargin(t[P], r, InMargin) /\ mw <= Power(t, r, P)
    <3>1. CASE P \in Serving(t, r, mw, UpTarget)
      BY <3>1 DEF Serving, Allowed, Power
    <3>2. CASE P \in Known(t, r, mw) /\ Power(t, r, P) > mw
      <4>1. HasMargin(t[P], r, InMargin)
        BY <3>2 DEF Known, Allowed
      <4> QED  BY <1>2, <2>4, <3>2, <4>1
    <3> QED  BY <2>5, <2>6, <3>1, <3>2
  <2>8. nw <= WithReserve(t[from], s, DownTarget)
    BY <1>7, <2>7 DEF Serving, Lower
  <2>9. ~(nw <= WithReserve(t[from], s, DownTarget))
    BY <1>4, <1>8, StillWeak DEF up
  <2> QED  BY <2>8, <2>9
<1>9. CASE ~up(from, r, mw)
  <2>1. t[from].variant = "FIXED" /\ P = ScanDown(t, from, r, mw)
    BY <1>6, <1>9
  <2>2. P \in Serving(t, r, mw, DownTarget) \/ P \in Lower(t, from, r, mw)
    BY <1>2, <2>1, DownTaken
  <2>3. HasMargin(t[P], r, InMargin) /\ mw <= WithReserve(t[P], r, DownTarget)
    BY <2>2 DEF Serving, Lower, Allowed
  <2>4. mw <= Power(t, r, P)
    <3> DEFINE down == WithReserve(t[P], r, DownTarget)
    <3>1. down \in Nat /\ Power(t, r, P) \in Nat /\ down <= Power(t, r, P) /\ mw <= down
      BY <1>1, <1>3, <2>3, TableReserves
    <3> HIDE DEF down
    <3> QED  BY <1>2, <3>1
  <2>5. ~IsApdo(t[from])
    BY <2>1 DEF IsApdo, Apdos
  <2>6. t[P].variant = "FIXED" /\ t[from].mv_max < t[P].mv_max
    BY <1>7, <2>3, <2>4, <2>5 DEF Serving, Lower
  <2>7. t[P].mv_max < t[from].mv_max
    <3>1. ~IsApdo(t[P])
      BY <2>6 DEF IsApdo, Apdos
    <3> QED  BY <2>2, <3>1 DEF Serving, Lower
  <2>8. t[P].mv_max \in Nat /\ t[from].mv_max \in Nat
    BY <1>3, <1>4 DEF Descriptors
  <2> QED  BY <2>6, <2>7, <2>8
<1> QED  BY <1>8, <1>9

\* A plan that was followed is the plan again while load and target stay, and a
\* change of both by a hundredth does not undo it: the choice does not go on by
\* itself, nor turn back.
THEOREM PlanStaysAlways == ChoiceSpec => []PlanStays
<1>1. ASSUME ChoiceTypeOK PROVE NoOscillation
  <2>1. /\ Offered(ds) /\ load \in Nat \ {0} /\ wanted \in Nat /\ cur \in DOMAIN ds
        /\ Plan.idx = BetterPdo(ds, cur, load, wanted)
    BY <1>1, PlanKnown DEF ChoiceTypeOK
  <2> SUFFICES ASSUME NoTraps, Servable, wanted \notin 1..19, Plan.idx # cur,
                      NEW mw \in Near(wanted), NEW r \in Near(load)
               PROVE  BetterPdo(ds, Plan.idx, r, mw) # cur
    BY DEF NoOscillation
  <2>2. Untrapped(ds)
    BY DEF NoTraps, Untrapped
  <2>3. \E i \in Known(ds, load, wanted) : wanted < Power(ds, load, i)
    BY DEF Servable, Known, Allowed, Power
  <2> QED  BY <2>1, <2>2, <2>3, NoTurningBack
<1>2. ChoiceTypeOK => PlanStays
  BY <1>1, PlanIsKept DEF PlanStays
<1> QED  BY <1>2, ChoiceInvariance, PTL DEF ChoiceInv

(***************************************************************************)
(* The current and the power of the plan.                                  *)
(***************************************************************************)

\* Only at the first profile may the heater be close to the current limit.
LEMMA NotFirstHasMargin ==
  ASSUME NEW t, Offered(t), NEW from, NEW r \in Nat \ {0}, NEW mw \in Nat,
         NEW P, P = BetterPdo(t, from, r, mw), P # 1
  PROVE  HasMargin(t[P], r, OutMargin)
<1> DEFINE base == Base(t, from, r, mw)
<1>1. t \in Seq(Descriptors) /\ t # <<>> /\ t[1].variant = "FIXED" /\ r # 0
  BY DEF Offered
<1>2. base \in DOMAIN t /\ P \in DOMAIN t
  BY <1>1, BaseFound, BetterFound
<1>3. P = ScanUp(t, base, r, mw) \/ P = ScanDown(t, base, r, mw) \/ P = base
  BY <1>1 DEF BetterPdo
<1>4. ASSUME P = base PROVE HasMargin(t[P], r, OutMargin)
  BY <1>4 DEF Base
<1> HIDE DEF base
<1>5. HasMargin(t[P], r, InMargin) \/ P = base
  <2>1. CASE P = ScanUp(t, base, r, mw)
    <3>1. P \in Serving(t, r, mw, UpTarget) \/ P \in Known(t, r, mw) \/ P = base
      BY <1>1, <1>2, <2>1, ScanUpFinds
    <3> QED  BY <3>1 DEF Serving, Known, Allowed
  <2>2. CASE P = ScanDown(t, base, r, mw)
    <3>1. P \in Serving(t, r, mw, DownTarget) \/ P \in Lower(t, base, r, mw) \/ P = base
      BY <1>1, <1>2, <2>2, ScanDownFinds
    <3> QED  BY <3>1 DEF Serving, Lower, Allowed
  <2> QED  BY <1>3, <2>1, <2>2
<1>6. t[P] \in Descriptors /\ r \in Nat
  BY <1>1, <1>2
<1> QED  BY <1>4, <1>5, <1>6, Margins

\* At the planned voltage the heater draws no more than the profile has, but for 1 mA
\* of a rounding: not at the first profile, nor at the voltage that is asked for
\* without looking at the current.
THEOREM CurrentIsKept == ChoiceSpec => []WithinCurrent
<1>1. ASSUME ChoiceTypeOK PROVE WithinCurrent
  <2> DEFINE d == ds[Plan.idx]
             limit == (d.ma_max * load) \div 10
             root == Isqrt(Asked * load)
             low == d.mv_min
             high == d.mv_max
             floor == Default(ds).mv
  <2> SUFFICES ASSUME Plan.idx # 1, Plan.mv > DefaultDesired
               PROVE  Plan.mv * 100 <= limit + 100
    BY DEF WithinCurrent
  <2>1. /\ Offered(ds) /\ load \in Nat \ {0} /\ wanted \in Nat
        /\ Plan.idx = BetterPdo(ds, cur, load, wanted)
        /\ Plan.idx \in DOMAIN ds /\ d.variant # "UNKNOWN"
        /\ d \in Descriptors /\ Plan.mv \in Nat
    BY <1>1, PlanKnown
  <2>2. HasMargin(d, load, OutMargin)
    BY <2>1, NotFirstHasMargin
  <2>3. d.ma_max <= MaxCurrent /\ 5000 <= d.mv_min
    BY <2>1 DEF Offered
  <2>4. /\ Asked \in Nat /\ floor \in Nat /\ floor <= DefaultDesired
        /\ Plan.mv = IF IsApdo(d) THEN ApdoMv(d, load, Asked, floor) ELSE low
    BY <1>1, PlanIs
  <2>5. low * 100 <= limit
    <3> HIDE DEF d
    <3> QED  BY <2>1, <2>2, <2>3, MarginCurrent
  <2>6. root * 100 <= limit /\ root \in Nat
    <3>1. Asked <= MwMax(d, load)
      <4>1. MwMax(d, load) \in Nat
        BY <2>1, MwMaxTyped
      <4> QED  BY <2>1, <4>1, Arithmetic DEF Asked
    <3>2. Asked * load \in Nat
      BY <2>1, <2>4, Arithmetic
    <3> HIDE DEF d
    <3> QED  BY <2>1, <2>4, <3>1, <3>2, RootCurrent, IsqrtTyped
  <2>7. ApdoMv(d, load, Asked, floor) = Greater(floor, Lesser(high, Greater(low, root)))
    BY DEF ApdoMv
  <2>8. limit \in Nat /\ low \in Nat /\ high \in Nat
    <3>1. low \in Nat /\ high \in Nat /\ d.ma_max \in Nat
      BY <2>1 DEF Descriptors
    <3>2. d.ma_max * load \in Nat
      BY <2>1, <3>1, Arithmetic
    <3>3. \A x \in Nat : x \div 10 \in Nat
      OBVIOUS
    <3> QED  BY <3>1, <3>2, <3>3
  <2> HIDE DEF d, limit, root, low, high, floor
  <2>9. Plan.mv = low \/ Plan.mv = Greater(floor, Lesser(high, Greater(low, root)))
    BY <2>4, <2>7
  <2>10. Plan.mv <= low \/ Plan.mv <= root
    <3>1. CASE Plan.mv = low
      BY <2>8, <3>1
    <3>2. CASE Plan.mv = Greater(floor, Lesser(high, Greater(low, root)))
      <4> DefaultDesired \in Nat
        BY SMT DEF DefaultDesired
      <4> QED  BY <2>1, <2>4, <2>6, <2>8, <3>2 DEF Greater, Lesser
    <3> QED  BY <2>9, <3>1, <3>2
  <2> QED  BY <2>1, <2>5, <2>6, <2>8, <2>10
<1> QED  BY <1>1, ChoiceInvariance, PTL DEF ChoiceInv

\* What is asked for is never exceeded: the duty is rounded down.
LEMMA NeverMoreThanAsked == ASSUME ChoiceTypeOK PROVE Delivered(Plan) <= Asked
<1>1. /\ Asked \in Nat /\ Full \in Nat /\ Plan.duty \in 0..1000
      /\ Plan.duty = IF Full = 0 THEN 0 ELSE Lesser(1000, (Asked * 1000) \div Full)
  BY PlanIs, PlanKnown
<1>2. Delivered(Plan) = (Plan.duty * Full) \div 1000
  BY DEF Delivered, Full
<1> DEFINE full == Full
           duty == Plan.duty
           asked == Asked
           a == asked * 1000
           q == a \div full
           df == duty * full
           qf == q * full
<1>3. duty \in Nat /\ df \in Nat /\ a \in Nat
  <2>1. duty \in Nat
    BY <1>1
  <2>2. a \in Nat
    BY <1>1, SMT
  <2> HIDE DEF duty, full, a
  <2>3. full \in Nat
    BY <1>1 DEF full
  <2>4. df \in Nat
    BY <2>1, <2>3, Arithmetic
  <2> QED  BY <2>1, <2>2, <2>4
<1>4. df <= a
  <2> HIDE DEF full, duty, asked
  <2>1. CASE full = 0
    <3>1. df = 0
      BY <1>3, <2>1
    <3> QED  BY <1>3, <3>1
  <2>2. CASE full # 0
    <3>1. full \in Nat \ {0} /\ asked \in Nat
      BY <1>1, <2>2 DEF full, asked
    <3>2. q \in Nat /\ qf <= a
      <4> HIDE DEF a
      <4> QED  BY <1>3, <3>1, Quotient
    <3>3. duty = Lesser(1000, q)
      BY <1>1, <2>2 DEF full, duty, asked
    <3> HIDE DEF a, q
    <3>4. duty <= q
      BY <3>2, <3>3, Arithmetic
    <3>5. df <= qf
      BY <1>3, <3>1, <3>2, <3>4, ProductsGrow
    <3>6. qf \in Nat
      BY <3>1, <3>2, Arithmetic
    <3> HIDE DEF df, qf
    <3> QED  BY <1>3, <3>2, <3>5, <3>6
  <2> QED  BY <2>1, <2>2
<1>5. \A x, y \in Nat : x <= y * 1000 => x \div 1000 <= y
  OBVIOUS
<1> QED  BY <1>1, <1>2, <1>3, <1>4, <1>5

LEMMA HardlyLessThanAsked ==
  ASSUME ChoiceTypeOK, Rootable(Asked * load)
  PROVE  Asked <= Delivered(Plan) + Full \div 1000 + (2 * Plan.mv) \div load + 2
<1> DEFINE d == ds[Plan.idx]
           low == d.mv_min
           high == d.mv_max
           root == Isqrt(Asked * load)
           floor == Default(ds).mv
           e == (2 * Plan.mv) \div load
           byVoltage == (high * high) \div load
<1>1. /\ Offered(ds) /\ load \in Nat \ {0} /\ wanted \in Nat
      /\ Plan.idx \in DOMAIN ds /\ d.variant # "UNKNOWN" /\ d \in Descriptors
      /\ Plan.mv \in Nat
  BY PlanKnown
<1>2. /\ Asked \in Nat /\ Full \in Nat /\ floor \in Nat
      /\ Plan.mv = IF IsApdo(d) THEN ApdoMv(d, load, Asked, floor) ELSE low
  BY PlanIs
<1>3. low \in Nat /\ high \in Nat /\ d.ma_max \in Nat /\ d.pdp_mw \in Nat
      /\ d.variant \in Variants
  BY <1>1 DEF Descriptors
<1>4. byVoltage \in Nat /\ e \in Nat /\ root \in Nat
  <2>1. high * high \in Nat /\ Asked * load \in Nat
    <3> HIDE DEF high
    <3>1. load \in Nat
      BY <1>1
    <3> QED  BY <1>2, <1>3, <3>1, Arithmetic, Zenon
  <2>2. 2 * Plan.mv \in Nat
    BY <1>1
  <2>3. byVoltage \in Nat /\ e \in Nat
    BY <1>1, <2>1, <2>2, Arithmetic, Zenon
  <2> QED  BY <2>1, <2>3, IsqrtTyped
<1>5. Asked <= byVoltage
  <2> DEFINE byCurrent == (((d.ma_max * d.ma_max) \div 1000) * load) \div 1000
  <2>1. MwMax(d, load) = IF d.pdp_mw > 0 THEN Lesser(Lesser(byVoltage, byCurrent), d.pdp_mw)
                         ELSE Lesser(byVoltage, byCurrent)
    BY DEF MwMax
  <2>2. Asked = Lesser(wanted, MwMax(d, load)) /\ MwMax(d, load) \in Nat
    BY <1>1, MwMaxTyped DEF Asked
  <2> DEFINE m == MwMax(d, load)
  <2> HIDE DEF byVoltage, byCurrent, m, d
  <2>3. byCurrent \in Nat
    <3>1. d.ma_max * d.ma_max \in Nat
      BY <1>3, Arithmetic
    <3>2. \A x \in Nat : x \div 1000 \in Nat
      OBVIOUS
    <3> DEFINE k == (d.ma_max * d.ma_max) \div 1000
    <3>3. k \in Nat /\ load \in Nat
      BY <1>1, <3>1, <3>2
    <3> HIDE DEF k
    <3>4. k * load \in Nat
      BY <3>3, Arithmetic, Zenon
    <3> QED  BY <3>2, <3>4 DEF byCurrent, k
  <2>4. m <= byVoltage /\ m \in Nat /\ Asked <= m
    BY <1>1, <1>2, <1>3, <1>4, <2>1, <2>2, <2>3 DEF Lesser, m
  <2> QED  BY <1>2, <1>4, <2>4
<1>6. ASSUME high <= Plan.mv PROVE Asked <= Full
  <2>1. high * high <= Plan.mv * Plan.mv
    <3> HIDE DEF high
    <3>1. high * high <= Plan.mv * high /\ high * Plan.mv <= Plan.mv * Plan.mv
      BY <1>1, <1>3, <1>6, ProductsGrow
    <3>2. Plan.mv * high = high * Plan.mv /\ Plan.mv * high \in Nat
          /\ high * high \in Nat /\ Plan.mv * Plan.mv \in Nat
      <4> DEFINE mv == Plan.mv
      <4>1. mv \in Nat
        BY <1>1
      <4> HIDE DEF mv
      <4>2. mv * high = high * mv
        BY <1>3, <4>1
      <4>3. mv * high \in Nat /\ high * high \in Nat /\ mv * mv \in Nat
        BY <1>3, <4>1, Arithmetic, Zenon
      <4> QED  BY <4>2, <4>3 DEF mv
    <3> QED  BY <3>1, <3>2
  <2>2. high * high \in Nat /\ Plan.mv * Plan.mv \in Nat
    BY <1>1, <1>3, Arithmetic
  <2>3. byVoltage <= Full
    BY <1>1, <2>1, <2>2, QuotientsGrow DEF Full
  <2> HIDE DEF byVoltage
  <2> QED  BY <1>2, <1>4, <1>5, <2>3
<1>7. high <= Plan.mv \/ root <= Plan.mv
  <2>1. CASE IsApdo(d)
    <3>1. Plan.mv = Greater(floor, Lesser(high, Greater(low, root)))
      BY <1>2, <2>1 DEF ApdoMv
    <3> HIDE DEF d, low, high, root, floor
    <3> QED  BY <1>1, <1>2, <1>3, <1>4, <3>1 DEF Greater, Lesser
  <2>2. CASE ~IsApdo(d)
    <3>1. d.variant = "FIXED"
      BY <1>1, <1>3, <2>2 DEF IsApdo, Variants
    <3>2. low = high
      BY <1>1, <3>1 DEF Offered, FixedAt
    <3> QED  BY <1>2, <1>3, <2>2, <3>2
  <2> QED  BY <2>1, <2>2
<1>8. Asked <= Full + (e + 1)
  <2>1. CASE high <= Plan.mv
    <3>1. Asked <= Full
      BY <1>6, <2>1
    <3> HIDE DEF e
    <3> QED  BY <1>2, <1>4, <3>1
  <2>2. CASE root <= Plan.mv
    <3>1. Asked <= (Plan.mv * Plan.mv) \div load + (2 * Plan.mv) \div load + 1
      BY <1>1, <1>2, <2>2, RootShort, Zenon
    <3>2. Asked <= Full + e + 1
      BY <3>1, Zenon DEF Full
    <3> HIDE DEF e
    <3> QED  BY <1>2, <1>4, <3>2
  <2> QED  BY <1>7, <2>1, <2>2
<1>9. e + 1 \in Nat /\ Delivered(Plan) = Given(Plan.duty, Full)
  BY <1>4 DEF Delivered, Full, Given
<1> HIDE DEF e
<1>10. Asked <= Given(Plan.duty, Full) + OneStep(Full) + (e + 1) + 1
  <2>1. Plan.duty = DutyFor(Asked, Full)
    BY PlanIs DEF DutyFor
  <2> QED  BY <1>2, <1>8, <1>9, <2>1, DutyShort, Zenon
<1>11. Delivered(Plan) \in Nat /\ OneStep(Full) \in Nat
  <2>1. Plan.duty \in Nat
    BY PlanKnown
  <2>2. Plan.duty * Full \in Nat
    BY <1>2, <2>1, Arithmetic, Zenon
  <2>3. \A x \in Nat : x \div 1000 \in Nat
    OBVIOUS
  <2> QED  BY <1>2, <1>9, <2>2, <2>3 DEF Given, OneStep
<1> DEFINE dl == Delivered(Plan)
           f == OneStep(Full)
<1>12. Asked <= dl + f + (e + 1) + 1
  BY <1>9, <1>10, Zenon
<1>13. dl \in Nat /\ f \in Nat
  BY <1>11
<1> HIDE DEF dl, f
<1>14. Asked <= dl + f + e + 2
  BY <1>2, <1>4, <1>12, <1>13
<1> QED  BY <1>14 DEF dl, f, e, OneStep

\* The plan delivers what is asked for, or what the profile has: never more, and less
\* by no more than the rounding of its duty and voltage.
THEOREM PlanDelivers == ChoiceSpec => []DeliversAsked
<1>1. ChoiceTypeOK => DeliversAsked
  BY NeverMoreThanAsked, HardlyLessThanAsked DEF DeliversAsked
<1> QED  BY <1>1, ChoiceInvariance, PTL DEF ChoiceInv
=============================================================================
