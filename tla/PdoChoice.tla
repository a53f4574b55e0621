------------------------------ MODULE PdoChoice -----------------------------
(***************************************************************************)
(* The selector at work: a charger, a heater whose resistance changes as   *)
(* it warms up and whenever the head is exchanged, a regulator that asks   *)
(* for any power, and the power FSM that follows the plan                  *)
(* (heater/power.cpp:216-223).  PowerSupply models how it follows it; here *)
(* a new contract is one step, so that only the choice matters, and with   *)
(* it the pulses that the load switch makes of the planned duty.           *)
(***************************************************************************)
EXTENDS PdoSelect, PwmDuty

CONSTANTS Chargers,      \* the lists of PDOs that chargers offer
          Resistances,   \* of the heater, mOhm
          Powers         \* powers asked for, mW

\* An adjustable profile has some range of voltages, of at least 5 V at its top.
ASSUME ChargersAssumption ==
  \A c \in Chargers :
    /\ WellFormed(c)
    /\ \A i \in DOMAIN c : c[i].variant \in Apdos =>
         c[i].mv_min <= c[i].mv_max /\ DefaultFallback <= c[i].mv_max
ASSUME PowersAssumption == Resistances \subseteq Nat \ {0} /\ Powers \subseteq Nat

VARIABLES ds,      \* profile_selector.descriptors
          cur,     \* the contract, current_index + 1
          load,
          wanted,  \* Power::target_power_mw
          err,     \* duty_error of the load switch
          owed     \* planned less given since the last pulse that could not be given
                   \* at its length (history), in 1/1000 tick

pulseVars == <<err, owed>>
choiceVars == <<ds, cur, load, wanted, pulseVars>>

ChoiceTypeOK ==
  /\ ds \in {LoadPdos(c) : c \in Chargers}
  /\ cur \in DOMAIN ds
  /\ load \in Resistances /\ wanted \in Powers
  /\ err \in -500..499 /\ owed \in Int

Plan == PlanPower(ds, cur, load, wanted)

ChoiceInit ==
  /\ ds \in {LoadPdos(c) : c \in Chargers}
  /\ cur = Default(ds).pos
  /\ load \in Resistances /\ wanted \in Powers
  /\ err = 0 /\ owed = 0

\* set_power_mw.
Regulate == wanted' \in Powers /\ UNCHANGED <<ds, cur, load, pulseVars>>

\* The heater warms up, cools down or is exchanged.
Drift == load' \in Resistances /\ UNCHANGED <<ds, cur, wanted, pulseVars>>

\* A profile other than the current one is planned and contracted. The load is
\* off meanwhile, which clears the carry.
Switch == /\ Plan.idx # cur /\ cur' = Plan.idx
          /\ err' = 0 /\ owed' = 0
          /\ UNCHANGED <<ds, load, wanted>>

\* A pulse of the planned duty. One below the shortest pulse is not owed.
PlannedPulse(reduceIdle) ==
  /\ Plan.idx = cur
  /\ err' = Carry(Plan.duty, err, reduceIdle)
  /\ owed' = IF Plan.duty * Period < MinPulse * 1000 THEN 0
             ELSE owed + Plan.duty * Period - 1000 * PulseTicks(Plan.duty, err, reduceIdle)
  /\ UNCHANGED <<ds, cur, load, wanted>>

ChoiceNext == Regulate \/ Drift \/ Switch \/ \E idle \in BOOLEAN : PlannedPulse(idle)
ChoiceSpec == ChoiceInit /\ [][ChoiceNext]_choiceVars

-----------------------------------------------------------------------------
\* The power that the plan delivers.
Delivered(p) == (p.duty * ((p.mv * p.mv) \div load)) \div 1000
Asked == Lesser(wanted, MwMax(ds[Plan.idx], load))

\* Placeholders of unsupported PDOs keep the positions (profile_selector.hpp:95):
\* none of them is ever chosen, and an adjustable profile is asked for a voltage
\* it has. Not so at 6 V: the default voltage comes after the clamp
\* (profile_selector.hpp:251), so that a PPS that ends at 5.9 V is asked for 6 V
\* where another profile made that the default.
ChoiceExists ==
  LET d == ds[Plan.idx] IN
  /\ d.variant # "UNKNOWN" /\ d.mv_min <= Plan.mv
  /\ d.mv_max < Plan.mv => IsApdo(d) /\ Plan.mv = DefaultDesired

\* With the types of the state: what the planning relies on.
ChoiceOK == ChoiceTypeOK /\ ChoiceExists

\* "Emergency case 1: we are close to overcurrent" (profile_selector.hpp:171):
\* at the planned voltage the heater draws no more than the profile has. Not so
\* at 5 V, where there is nothing lower to fall back to, nor at 6 V, which is
\* asked for without looking at the current.
WithinCurrent ==
  Plan.idx # 1 /\ Plan.mv > DefaultDesired =>
    Plan.mv * 100 <= (ds[Plan.idx].ma_max * load) \div 10 + 100

\* The plan delivers what is asked for, or what the profile has, and never more.
\* The rounding of the duty may cost a thousandth of what the heater takes at the
\* planned voltage, that of the voltage 2 mV at its current, and each of them 1 mW.
Full == (Plan.mv * Plan.mv) \div load
DeliversAsked ==
  /\ Delivered(Plan) <= Asked
  /\ Rootable(Asked * load) =>
       Asked <= Delivered(Plan) + Full \div 1000 + (2 * Plan.mv) \div load + 2

\* Some profile serves the target with the reserve of an upgrade.
Servable == \E i \in DOMAIN ds : /\ ds[i].variant # "UNKNOWN"
                                /\ HasMargin(ds[i], load, InMargin)
                                /\ ~Trapped(ds[i], load, wanted, Default(ds).mv)
                                /\ wanted < WithReserve(ds[i], load, UpTarget)

\* Whenever some profile does, the planned one serves it.
ServedIfPossible == Servable => wanted <= MwMax(ds[Plan.idx], load)

\* A plan that was followed stays as it is while load and target do. Not so at 1 mW:
\* a profile of 2 mW is too weak for it by one reserve and strong enough by another.
PlanSettles == wanted # 1 => BetterPdo(ds, Plan.idx, load, wanted) = Plan.idx

\* "Round-to-nearest with error feedback" (pwm.cpp:45): over any number of pulses,
\* whatever becomes of the duty meanwhile, the heater gets the planned ticks but
\* for one, unless a pulse would have been shorter than the shortest.
DutyIsGiven == owed \in -1000..1000

\* "Such reserve is set to prevent oscillation near profile boundaries"
\* (profile_selector.hpp:192): a change of target and load by a hundredth each does
\* not undo a change of the profile. It does where the reserves have no part: of two
\* profiles too weak for the target the stronger one is taken whatever it has more,
\* and an AVS is given up below 103 % of the power at its lowest voltage and taken
\* again right above it. Nor is a target below 20 mW, whose reserves are rounded away,
\* promised anything.
NoTraps == \A i \in DOMAIN ds : IsApdo(ds[i]) => ds[i].mv_min <= Default(ds).mv
Near(x) == {x - x \div 100, x, x + x \div 100}
NoOscillation ==
  NoTraps /\ Servable /\ wanted \notin 1..19 /\ Plan.idx # cur =>
    \A mw \in Near(wanted), r \in Near(load) : BetterPdo(ds, Plan.idx, r, mw) # cur

\* The choice neither goes on by itself nor turns back.
PlanStays == PlanSettles /\ NoOscillation
=============================================================================
