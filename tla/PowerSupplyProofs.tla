------------------------- MODULE PowerSupplyProofs --------------------------
(***************************************************************************)
(* Proofs about PowerSupply, for any chargers, heads, targets and numbers  *)
(* of faults: the load is on only in the states that own it, a heater is   *)
(* never driven by a plan for another head (PlannedForHead), the profile   *)
(* in force changes with the load off (ChangesUnloaded) and is the one the *)
(* duty was planned for (DutyFitsContract), and the state keeps its types  *)
(* (SupplySafe).                                                           *)
(*                                                                         *)
(* Of PdoChoiceProofs it uses the lemmas about the operators of PdoSelect. *)
(***************************************************************************)
EXTENDS PowerSupply, PdoChoiceProofs

(***************************************************************************)
(* The invariant: what the states of the FSM say of the load, and what the *)
(* measurement says of the head.                                           *)
(***************************************************************************)
LoadStates  == pwm # "Disabled" \/ enabled => st \in {"Calibrate", "Ready"}
Resetting   == pe = "wait" => st = "Initializing"
NotMeasured == st \in {"Off", "Initializing", "Fault"} => info = NoHead
MeasuresIt  == info # NoHead => head \in {info, NoHead}
Unloaded    == st = "Calibrate" => ~(duty.duty > 0)
PlannedOn   == (pwm # "Disabled" \/ enabled) /\ duty.duty > 0 => dutyFor = head \/ head = NoHead

HeadInv == LoadStates /\ Resetting /\ NotMeasured /\ MeasuresIt /\ Unloaded /\ PlannedOn

LEMMA InitHeadInv == Init => HeadInv
BY DEF Init, HeadInv, LoadStates, Resetting, NotMeasured, MeasuresIt, Unloaded, PlannedOn, NoHead

LEMMA NoPlanIsOff == ~(NoPlan.duty > 0)
BY DEF NoPlan

\* The ticks of the heater task.
LEMMA TickStep == ASSUME HeadInv, SysTick PROVE HeadInv'
<1> USE DEF HeadInv, LoadStates, Resetting, NotMeasured, MeasuresIt, Unloaded, PlannedOn, NoHead
<1>1. CASE CalibrateTick
  BY <1>1 DEF CalibrateTick, EnterReady, EnvUnchanged, peVars, pwmVars
<1>2. CASE HeadLostTick
  BY <1>2 DEF HeadLostTick, EnterInitializing, LoadOff, Forget, EnvUnchanged, peVars
<1>3. CASE ReadyTick
  <2> DEFINE plan == Plans[offer][current][info][target]
  <2>1. st = "Ready" /\ info # 0 /\ UNCHANGED <<pe, head, info>>
    BY <1>3 DEF ReadyTick, EnterWait, EnvUnchanged, peVars
  <2>2. CASE EnterWait(FALSE, info)
    BY <2>1, <2>2 DEF EnterWait, LoadOff
  <2>3. CASE LoadOn(plan, info) /\ UNCHANGED <<st, info>>
    BY <2>1, <2>3 DEF LoadOn
  <2> QED  BY <1>3, <2>2, <2>3 DEF ReadyTick
<1> QED  BY <1>1, <1>2, <1>3 DEF SysTick

\* The entry to Calibrate.
LEMMA CalibrateEntry ==
  ASSUME HeadInv, st = "Initializing", EnterCalibrate, pe' # "wait", UNCHANGED head
  PROVE  HeadInv'
BY NoPlanIsOff
   DEF HeadInv, LoadStates, Resetting, NotMeasured, MeasuresIt, Unloaded, PlannedOn, NoHead,
       EnterCalibrate, LoadOn

\* The PD stack and the source.
LEMMA StackStep == ASSUME HeadInv, Startup \/ Stack \/ Source PROVE HeadInv'
<1> USE DEF HeadInv, LoadStates, Resetting, NotMeasured, MeasuresIt, Unloaded, PlannedOn, NoHead
<1>1. CASE Startup
  BY <1>1 DEF Startup, EnterInitializing, LoadOff, Forget, FsmIdle, fsmVars, pwmVars
<1>2. CASE CableDetached
  BY <1>2 DEF CableDetached, EnterOff, LoadOff, Forget
<1>3. CASE SrcDisabled
  BY <1>3 DEF SrcDisabled, LoadOff
<1>4. CASE \E o \in DOMAIN Offers \ {NoOffer} : SrcCapsLoad(o)
  BY <1>4 DEF SrcCapsLoad, FsmIdle, fsmVars, pwmVars
<1>5. CASE SrcCapsReceive
  BY <1>5 DEF SrcCapsReceive, EnterWait, LoadOff, fsmVars
<1>6. CASE Select
  BY <1>6 DEF Select, FsmIdle, fsmVars, pwmVars
<1>7. CASE SelectCapDone
  BY <1>7 DEF SelectCapDone, FsmIdle, fsmVars, pwmVars
<1>8. CASE Rejected
  BY <1>8 DEF Rejected, LoadOff, Forget, FsmIdle, fsmVars, pwmVars
<1>9. CASE SnkReady
  <2>1. pe' = "ready" /\ UNCHANGED head
    BY <1>9 DEF SnkReady
  <2>2. CASE st = "Initializing" /\ handshake /\ EnterCalibrate
    BY <2>1, <2>2, CalibrateEntry
  <2>3. CASE st \in {"Ready", "WaitContractChange"} /\ st' = "Ready" /\ UNCHANGED <<pwmVars, info>>
    BY <2>1, <2>3 DEF pwmVars
  <2>4. CASE FsmIdle
    BY <2>1, <2>4 DEF FsmIdle, fsmVars, pwmVars
  <2> QED  BY <1>9, <2>2, <2>3, <2>4 DEF SnkReady, EnterReady
<1>10. CASE HandshakeDone
  <2>1. pe' = "ready" /\ UNCHANGED head
    BY <1>10 DEF HandshakeDone
  <2> QED  BY <1>10, <2>1, CalibrateEntry DEF HandshakeDone, FsmIdle, fsmVars, pwmVars
<1> QED
  BY <1>1, <1>2, <1>3, <1>4, <1>5, <1>6, <1>7, <1>8, <1>9, <1>10 DEF Stack, Source

\* The load switch, the regulator and the hands of people.
LEMMA OtherStep ==
  ASSUME HeadInv, PwmTask \/ SetPower \/ Unplug \/ Plug \/ UNCHANGED vars PROVE HeadInv'
<1> USE DEF HeadInv, LoadStates, Resetting, NotMeasured, MeasuresIt, Unloaded, PlannedOn, NoHead
<1>1. CASE Pulse \/ Sample
  BY <1>1 DEF Pulse, Sample, PwmOthers, fsmVars, peVars
<1>2. CASE PulseEnd
  BY <1>2 DEF PulseEnd, PwmOthers, fsmVars, peVars
<1>3. CASE SetPower \/ Unplug \/ UNCHANGED vars
  BY <1>3 DEF SetPower, Unplug, vars, fsmVars, peVars, pwmVars
<1>4. CASE Plug
  BY <1>4 DEF Plug, fsmVars, peVars, pwmVars
<1> QED  BY <1>1, <1>2, <1>3, <1>4 DEF PwmTask

LEMMA HeadInvariance == Spec => []HeadInv
<1>1. HeadInv /\ [Next]_vars => HeadInv'
  BY TickStep, StackStep, OtherStep DEF Next
<1> QED  BY InitHeadInv, <1>1, PTL DEF Spec

\* The load is on only while the FSM calibrates or is ready, whichever of the
\* three tasks is in the middle of what.
THEOREM LoadHasAnOwner == Spec => []LoadStates
<1>1. HeadInv => LoadStates
  BY DEF HeadInv
<1> QED  BY <1>1, HeadInvariance, PTL

\* No head is ever heated by a plan that was made for the one before.
THEOREM HeadsHaveTheirPlan == Spec => []PlannedForHead
<1>1. HeadInv => PlannedForHead
  BY DEF HeadInv, PlannedOn, PlannedForHead
<1> QED  BY <1>1, HeadInvariance, PTL

(***************************************************************************)
(* The load and the contract.  A plan that was missed apart, the load is   *)
(* on only while the stack is idle, or while it asks for the profile that  *)
(* is in force already.                                                    *)
(***************************************************************************)
On      == pwm # "Disabled" \/ enabled
Settled == pe = "ready" /\ ~request

\* What the stack does, and what the table of profiles has of it.
Followed == pe = "transit" => current = asked.pos
InForce  == Settled => current = contract.pos
Reported == st \in {"Calibrate", "Ready", "WaitContractChange"} => handshake

\* Whoever starts over asks for the default contract, which no source rejects.
StartsOver  == st \in {"Initializing", "Calibrate"} => trigger = Defaults[offer]
AsksDefault == st \in {"Initializing", "Calibrate"} /\ pe = "asked" /\ ~request =>
                 asked = Defaults[offer]
Sent        == offer \in DOMAIN Offers
AtRest      == st \in States /\ (st \in {"Off", "Fault"} => pe \in {"off", "disabled"})

\* The states wait until the stack is done with what they asked for.
InitQuiet  == st = "Initializing" =>
                missed \/ /\ pe \in {"asked", "transit"} => ~request
                          /\ pe = "ready" /\ ~handshake => ~request
CalQuiet   == st = "Calibrate" => missed \/ pe = "caps" \/ Settled
WaitQuiet  == st = "WaitContractChange" /\ pe \in {"asked", "transit"} => missed \/ ~request
ReadyQuiet == st = "Ready" /\ ~missed /\ pe # "caps" =>
                IF updating THEN \/ pe = "ready" /\ request
                                 \/ pe \in {"asked", "transit"} /\ ~request
                            ELSE Settled
OnQuiet    == On /\ ~missed =>
                /\ pe \in {"caps", "ready", "asked", "transit"}
                /\ pe = "ready" /\ request => trigger.pos = contract.pos
                /\ pe \in {"asked", "transit"} => asked.pos = contract.pos

QuietInv == /\ Followed /\ InForce /\ Reported /\ StartsOver /\ AsksDefault
            /\ Sent /\ AtRest
            /\ InitQuiet /\ CalQuiet /\ WaitQuiet /\ ReadyQuiet /\ OnQuiet

LEMMA DefaultsAreContracts ==
  \A o \in DOMAIN Offers : Defaults[o] = [pos |-> Defaults[o].pos, mv |-> Defaults[o].mv]
BY DEF Defaults, Default

LEMMA InitQuietInv == Init => QuietInv
BY OffersAssumption DEF Init, QuietInv, Followed, InForce, Reported, StartsOver, AsksDefault, Sent, AtRest, InitQuiet,
       CalQuiet, WaitQuiet, ReadyQuiet, OnQuiet, On, Settled, States

LEMMA QuietTick == ASSUME HeadInv, QuietInv, SysTick PROVE QuietInv'
<1> USE DEF QuietInv, Followed, InForce, Reported, StartsOver, AsksDefault, Sent, AtRest, InitQuiet,
            CalQuiet, WaitQuiet, ReadyQuiet, OnQuiet, On, Settled, HeadInv, LoadStates, Resetting, States
<1>1. CASE CalibrateTick
  BY <1>1 DEF CalibrateTick, EnterReady, EnvUnchanged, peVars, pwmVars, selVars, trigVars
<1>2. CASE HeadLostTick
  BY <1>2, DefaultsAreContracts
  DEF HeadLostTick, EnterInitializing, LoadOff, Forget, DefaultTrigger, Trigger, Notice,
              EnvUnchanged, peVars, selVars
<1>3. CASE ReadyTick
  <2> DEFINE plan == Plans[offer][current][info][target]
  <2>1. st = "Ready" /\ ~updating /\ UNCHANGED peVars
    BY <1>3 DEF ReadyTick, EnvUnchanged
  <2>2. CASE EnterWait(FALSE, info)
    BY <2>1, <2>2 DEF EnterWait, LoadOff, Trigger, Notice, peVars, selVars
  <2>3. CASE /\ LoadOn(plan, info) /\ UNCHANGED <<st, selVars>>
             /\ \/ updating' = TRUE /\ Trigger(current, plan.mv)
                \/ UNCHANGED <<updating, trigVars>>
    <3>1. st' = "Ready" /\ UNCHANGED <<offer, current, pe, asked, contract, handshake>>
      BY <2>1, <2>3 DEF peVars, selVars
    <3>2. missed' = (missed /\ ~Settled)
      BY <2>3 DEF LoadOn, Notice
    <3>3. \/ updating' = TRUE /\ request' = TRUE /\ trigger'.pos = current
          \/ UNCHANGED <<updating, trigger, request>>
      BY <2>3 DEF Trigger, trigVars
    <3>4. missed' \/ pe = "caps" \/ Settled
      BY <2>1, <3>2
    <3>5. CASE updating' = TRUE /\ request' = TRUE /\ trigger'.pos = current
      BY <2>1, <3>1, <3>4, <3>5
    <3>6. CASE UNCHANGED <<updating, trigger, request>>
      BY <2>1, <3>1, <3>4, <3>6
    <3> QED  BY <3>3, <3>5, <3>6
  <2>4. \/ EnterWait(FALSE, info)
        \/ /\ LoadOn(plan, info) /\ UNCHANGED <<st, selVars>>
           /\ \/ updating' = TRUE /\ Trigger(current, plan.mv)
              \/ UNCHANGED <<updating, trigVars>>
    BY <1>3 DEF ReadyTick
  <2> QED  BY <2>2, <2>3, <2>4
<1> QED  BY <1>1, <1>2, <1>3 DEF SysTick

LEMMA QuietStack == ASSUME HeadInv, QuietInv, Startup \/ Stack \/ Source PROVE QuietInv'
<1> USE DEF QuietInv, Followed, InForce, Reported, StartsOver, AsksDefault, Sent, AtRest, InitQuiet,
            CalQuiet, WaitQuiet, ReadyQuiet, OnQuiet, On, Settled, HeadInv, LoadStates, Resetting, States
<1>1. CASE Startup
  BY <1>1, DefaultsAreContracts
  DEF Startup, EnterInitializing, LoadOff, Notice, InitialTrigger, ClearTriggerTo, FsmIdle,
      fsmVars, pwmVars, selVars, trigVars
<1>2. CASE CableDetached
  BY <1>2, OffersAssumption DEF CableDetached, EnterOff, LoadOff, Notice
<1>3. CASE SrcDisabled
  BY <1>3, OffersAssumption DEF SrcDisabled, LoadOff, Notice
<1>4. CASE \E o \in DOMAIN Offers \ {NoOffer} : SrcCapsLoad(o)
  BY <1>4, DefaultsAreContracts DEF SrcCapsLoad, ClearTriggerTo, FsmIdle, fsmVars, pwmVars
<1>5. CASE SrcCapsReceive
  BY <1>5 DEF SrcCapsReceive, EnterWait, LoadOff, Notice, ClearTriggerTo, fsmVars, selVars, trigVars
<1>6. CASE Select
  BY <1>6 DEF Select, FsmIdle, fsmVars, pwmVars, selVars
<1>7. CASE SelectCapDone
  BY <1>7 DEF SelectCapDone, FsmIdle, fsmVars, pwmVars, trigVars
<1>8. CASE Rejected
  <2>1. /\ pe = "asked" /\ pe' = "ready" /\ asked # Defaults[offer]
        /\ UNCHANGED <<offer, current, contract, handshake>>
    BY <1>8 DEF Rejected, selVars
  <2>2. CASE /\ st \in {"Ready", "WaitContractChange"} /\ st' = "Initializing"
             /\ LoadOff /\ DefaultTrigger
    BY <2>1, <2>2, DefaultsAreContracts DEF LoadOff, DefaultTrigger, Trigger
  <2>3. CASE /\ st \notin {"Ready", "WaitContractChange"}
             /\ FsmIdle /\ UNCHANGED trigVars
    BY <2>1, <2>3 DEF FsmIdle, fsmVars, pwmVars, trigVars
  <2> QED  BY <1>8, <2>2, <2>3 DEF Rejected
<1>9. CASE SnkReady
  <2>1. /\ pe = "transit" /\ pe' = "ready" /\ contract' = asked
        /\ UNCHANGED <<offer, current, request, trigger, handshake>>
    BY <1>9 DEF SnkReady, EnterCalibrate, FsmIdle, selVars, trigVars
  <2>2. CASE st = "Initializing" /\ handshake /\ EnterCalibrate
    BY <2>1, <2>2 DEF EnterCalibrate, EnterReady, LoadOn, Notice, pwmVars
  <2>3. CASE /\ st \in {"Ready", "WaitContractChange"} /\ st' = "Ready" /\ updating' = FALSE
             /\ UNCHANGED pwmVars
    BY <2>1, <2>3 DEF pwmVars
  <2>4. CASE /\ ~(st = "Initializing" /\ handshake)
             /\ st \notin {"Ready", "WaitContractChange"}
             /\ FsmIdle
    BY <2>1, <2>4 DEF FsmIdle, fsmVars, pwmVars
  <2> QED  BY <1>9, <2>2, <2>3, <2>4 DEF SnkReady, EnterReady
<1>10. CASE HandshakeDone
  BY <1>10 DEF HandshakeDone, EnterCalibrate, EnterReady, LoadOn, Notice, FsmIdle, fsmVars,
               pwmVars, selVars, trigVars
<1> QED
  BY <1>1, <1>2, <1>3, <1>4, <1>5, <1>6, <1>7, <1>8, <1>9, <1>10 DEF Stack, Source

LEMMA QuietOther ==
  ASSUME HeadInv, QuietInv, PwmTask \/ SetPower \/ Unplug \/ Plug \/ UNCHANGED vars
  PROVE  QuietInv'
<1> USE DEF QuietInv, Followed, InForce, Reported, StartsOver, AsksDefault, Sent, AtRest, InitQuiet,
            CalQuiet, WaitQuiet, ReadyQuiet, OnQuiet, On, Settled, States
<1>1. CASE PwmTask
  BY <1>1 DEF PwmTask, Pulse, Sample, PulseEnd, PwmOthers, fsmVars, peVars, selVars, trigVars
<1>2. CASE SetPower \/ Unplug \/ Plug \/ UNCHANGED vars
  BY <1>2 DEF SetPower, Unplug, Plug, vars, fsmVars, peVars, pwmVars, selVars, trigVars
<1> QED  BY <1>1, <1>2

LEMMA QuietInvariance == Spec => []QuietInv
<1>1. HeadInv /\ QuietInv /\ [Next]_vars => QuietInv'
  BY QuietTick, QuietStack, QuietOther DEF Next
<1> QED  BY <1>1, HeadInvariance, InitQuietInv, PTL DEF Spec

\* The contract is changed by three steps only: two leave the load off, and the
\* third finds it off, or asked for the profile that is there.
LEMMA ChangeUnloaded ==
  ASSUME HeadInv, QuietInv, [Next]_vars, contract'.pos # contract.pos
  PROVE  pwm' = "Disabled" \/ missed
<1>1. Startup \/ CableDetached \/ SnkReady
  BY DEF Next, SysTick, CalibrateTick, HeadLostTick, ReadyTick, EnvUnchanged,
         Stack, Source, SrcCapsReceive, Select, SelectCapDone, HandshakeDone, SrcCapsLoad,
         SrcDisabled, Rejected, PwmTask, Pulse, Sample, PulseEnd, PwmOthers,
         SetPower, Unplug, Plug, vars, peVars
<1>2. CASE Startup \/ CableDetached
  BY <1>2 DEF Startup, CableDetached, EnterInitializing, EnterOff, LoadOff, FsmIdle, pwmVars,
              HeadInv, LoadStates
<1>3. CASE SnkReady
  <2>1. pe = "transit" /\ contract' = asked
    BY <1>3 DEF SnkReady
  <2>2. pwm' = pwm
    BY <1>3 DEF SnkReady, EnterCalibrate, LoadOn, FsmIdle, pwmVars
  <2> QED  BY <2>1, <2>2 DEF QuietInv, OnQuiet, On
<1> QED  BY <1>1, <1>2, <1>3

\* The profile in force changes only while the load is off, whatever the source
\* sends, the FSM plans and the two tasks do in between, but for capabilities
\* that were missed.
THEOREM ContractsChangeUnloaded == Spec => ChangesUnloaded
<1>1. HeadInv /\ QuietInv /\ [Next]_vars =>
        [contract'.pos # contract.pos => pwm' = "Disabled" \/ missed]_vars
  BY ChangeUnloaded
<1> QED  BY <1>1, HeadInvariance, QuietInvariance, PTL DEF Spec, ChangesUnloaded

(***************************************************************************)
(* The duty and the contract.  While the load is on, its duty is one of    *)
(* the profile in force, but between new capabilities and the FSM's notice *)
(* of them.                                                                *)
(***************************************************************************)
DutyFits == On /\ ~missed /\ pe # "caps" /\ duty.duty > 0 => duty.idx = contract.pos

LEMMA DutyStep ==
  ASSUME HeadInv, QuietInv, DutyFits, [Next]_vars PROVE DutyFits'
<1> USE DEF DutyFits, On
<1>1. CASE SysTick
  <2>1. CASE CalibrateTick
    BY <1>1, <2>1 DEF CalibrateTick, EnterReady, EnvUnchanged, peVars, pwmVars
  <2>2. CASE HeadLostTick
    BY <2>2 DEF HeadLostTick, EnterInitializing, LoadOff
  <2>3. CASE ReadyTick
    <3> DEFINE plan == Plans[offer][current][info][target]
    <3>1. st = "Ready" /\ ~updating /\ UNCHANGED <<pe, contract>>
      BY <2>3 DEF ReadyTick, EnvUnchanged, peVars
    <3>2. CASE EnterWait(FALSE, info)
      BY <3>2 DEF EnterWait, LoadOff
    <3>3. CASE plan.idx = current /\ LoadOn(plan, info)
      <4>1. duty'.idx = current /\ missed' = (missed /\ ~Settled)
        BY <3>3 DEF LoadOn, Notice, Settled
      <4>2. ~missed' /\ pe # "caps" => current = contract.pos
        BY <3>1, <4>1 DEF QuietInv, ReadyQuiet, InForce
      <4> QED  BY <3>1, <4>1, <4>2
    <3>4. EnterWait(FALSE, info) \/ (plan.idx = current /\ LoadOn(plan, info))
      BY <2>3 DEF ReadyTick
    <3> QED  BY <3>2, <3>3, <3>4
  <2> QED  BY <1>1, <2>1, <2>2, <2>3 DEF SysTick
<1>2. CASE Startup \/ Stack \/ Source
  <2>1. CASE Startup
    BY <2>1 DEF Startup, EnterInitializing, LoadOff, FsmIdle, pwmVars, HeadInv, LoadStates
  <2>2. CASE CableDetached \/ SrcDisabled
    BY <2>2 DEF CableDetached, SrcDisabled, EnterOff, LoadOff
  <2>3. CASE \E o \in DOMAIN Offers \ {NoOffer} : SrcCapsLoad(o)
    BY <2>3 DEF SrcCapsLoad
  <2>4. CASE SrcCapsReceive
    <3>1. CASE EnterWait(TRUE, feedback)
      BY <3>1 DEF EnterWait, LoadOff
    <3>2. CASE /\ st \notin {"Ready", "WaitContractChange"}
               /\ missed' = (st = "Calibrate") /\ UNCHANGED <<pwm, enabled>>
      BY <3>2 DEF HeadInv, LoadStates
    <3> QED  BY <2>4, <3>1, <3>2 DEF SrcCapsReceive
  <2>5. CASE Select \/ SelectCapDone
    BY <2>5 DEF Select, SelectCapDone, FsmIdle, pwmVars
  <2>6. CASE Rejected
    BY <2>6 DEF Rejected, LoadOff, FsmIdle, pwmVars
  <2>7. CASE SnkReady
    <3>1. pe = "transit" /\ contract' = asked
      BY <2>7 DEF SnkReady
    <3>2. CASE EnterCalibrate
      BY <3>1, <3>2, NoPlanIsOff DEF EnterCalibrate, LoadOn, pwmVars, QuietInv, OnQuiet, On
    <3>3. CASE UNCHANGED pwmVars
      BY <3>1, <3>3 DEF pwmVars, QuietInv, OnQuiet, On
    <3> QED  BY <2>7, <3>2, <3>3 DEF SnkReady, FsmIdle
  <2>8. CASE HandshakeDone
    <3>1. pe = "ready" /\ UNCHANGED contract
      BY <2>8 DEF HandshakeDone
    <3>2. CASE EnterCalibrate
      BY <3>1, <3>2, NoPlanIsOff DEF EnterCalibrate, LoadOn, pwmVars
    <3>3. CASE UNCHANGED pwmVars
      BY <3>1, <3>3 DEF pwmVars
    <3> QED  BY <2>8, <3>2, <3>3 DEF HandshakeDone, FsmIdle
  <2> QED
    BY <1>2, <2>1, <2>2, <2>3, <2>4, <2>5, <2>6, <2>7, <2>8 DEF Stack, Source
<1>3. CASE PwmTask
  BY <1>3 DEF PwmTask, Pulse, Sample, PulseEnd, PwmOthers, peVars, HeadInv, LoadStates
<1>4. CASE SetPower \/ Unplug \/ Plug \/ UNCHANGED vars
  BY <1>4 DEF SetPower, Unplug, Plug, vars, peVars, pwmVars
<1> QED  BY <1>1, <1>2, <1>3, <1>4 DEF Next

\* Whenever no selection is under way, the duty of the load was planned for the
\* profile that is in force.
THEOREM DutiesFit == Spec => []DutyFitsContract
<1>1. Init => DutyFits
  BY DEF Init, DutyFits, On
<1>2. Spec => []DutyFits
  BY <1>1, DutyStep, HeadInvariance, QuietInvariance, PTL DEF Spec
<1>3. DutyFits => DutyFitsContract
  BY DEF DutyFits, DutyFitsContract, On
<1> QED  BY <1>2, <1>3, PTL

(***************************************************************************)
(* The types of the state, and the contract that the load needs.  A        *)
(* trigger, and a request under way, are positions of the table in use.    *)
(***************************************************************************)
Positions(o) == DOMAIN Table[o] \cup {1}

Placed     == /\ trigger.pos \in Positions(offer)
              /\ pe \in {"asked", "transit"} => asked.pos \in Positions(offer)
Contracted == pe = "ready" \/ handshake => contract # NoContract
TypeInv    == TypeOK /\ Placed /\ Contracted

\* The tables are ones that PdoSelect can search.
LEMMA TablesTyped ==
  ASSUME NEW o \in DOMAIN Offers
  PROVE  /\ Table[o] \in Seq(Descriptors)
         /\ Table[o] = <<>> \/ Table[o][1].variant = "FIXED"
         /\ DOMAIN Table[o] \subseteq 1..MaxPdoObjects /\ Positions(o) \subseteq 1..MaxPdoObjects /\ 1 \in Positions(o)
<1>1. Table[o] = LoadPdos(Offers[o])
  BY DEF Table
<1>2. /\ Offers[o] \in Seq(Pdos) /\ Len(Offers[o]) <= MaxPdoObjects
      /\ Offers[o] = <<>> \/ Offers[o][1].variant = "FIXED"
  <2>1. CASE o = NoOffer
    <3>1. Offers[o] = <<>>
      BY <2>1, OffersAssumption
    <3>2. <<>> \in Seq(Pdos) /\ Len(<<>>) <= MaxPdoObjects
      BY PdosAssumption
    <3> QED  BY <3>1, <3>2
  <2>2. CASE o # NoOffer
    <3>1. WellFormed(Offers[o]) /\ Len(Offers[o]) <= MaxPdoObjects
      BY <2>2, OffersAssumption
    <3>2. Offers[o] \in Seq(Pdos) /\ Offers[o] # <<>>
      BY <3>1 DEF WellFormed
    <3>3. Offers[o][1].variant = "FIXED"
      BY <3>1 DEF WellFormed
    <3> QED  BY <3>1, <3>2, <3>3
  <2> QED  BY <2>1, <2>2
<1>3. Table[o] \in Seq(Descriptors) /\ Len(Table[o]) = Len(Offers[o])
      /\ DOMAIN Table[o] = 1..Len(Offers[o])
      /\ \A i \in 1..Len(Offers[o]) : Table[o][i] = Descriptor(Offers[o][i])
  BY <1>1, <1>2, TableTyped
<1>4. Len(Offers[o]) \in 0..MaxPdoObjects
  <2>1. \A s \in Seq(Pdos) : Len(s) \in Nat
    OBVIOUS
  <2> DEFINE n == Len(Offers[o])
  <2>2. n \in Nat /\ n <= MaxPdoObjects
    BY <1>2, <2>1, Zenon
  <2> HIDE DEF n
  <2>3. n \in 0..MaxPdoObjects
    BY <2>2
  <2> QED  BY <2>3 DEF n
<1>5. CASE Offers[o] = <<>>
  BY <1>3, <1>4, <1>5, PdosAssumption DEF Positions
<1>6. CASE Offers[o] # <<>> /\ (Offers[o][1].variant = "FIXED")
  <2>1. 1 \in 1..Len(Offers[o]) /\ Offers[o][1] \in Pdos
    BY <1>2, <1>6
  <2>2. Table[o][1].variant = "FIXED"
    BY <1>3, <1>6, <2>1, DescriptorTyped
  <2> QED  BY <1>3, <1>4, <2>2, PdosAssumption DEF Positions
<1> QED  BY <1>2, <1>5, <1>6

LEMMA DefaultsTyped ==
  ASSUME NEW o \in DOMAIN Offers
  PROVE  Defaults[o].pos \in Positions(o) /\ Defaults[o].mv \in Nat
<1>1. Defaults[o] = Default(Table[o])
  BY DEF Defaults
<1>2. Table[o] \in Seq(Descriptors)
  BY TablesTyped
<1>3. Default(Table[o]).mv \in Nat
  BY <1>2, DefaultTyped, SMT DEF DefaultFallback, DefaultDesired
<1> QED  BY <1>1, <1>2, <1>3, DefaultTyped DEF Positions

LEMMA PlansTyped ==
  ASSUME NEW o \in DOMAIN Offers, NEW from \in Positions(o), NEW r \in Loads, NEW mw \in Targets
  PROVE  /\ Plans[o][from][r][mw].idx \in Positions(o)
         /\ Plans[o][from][r][mw].mv \in Nat
<1>1. from \in 1..MaxPdoObjects /\ r \in Nat /\ mw \in Nat
  BY TablesTyped, LoadsAssumption
<1>2. Plans[o][from][r][mw] = PlanPower(Table[o], from, r, mw)
  BY <1>1 DEF Plans
<1>3. Table[o] \in Seq(Descriptors) /\ (Table[o] = <<>> \/ Table[o][1].variant = "FIXED")
  BY TablesTyped
<1>4. /\ PlanPower(Table[o], from, r, mw).idx = from \/ PlanPower(Table[o], from, r, mw).idx \in DOMAIN Table[o]
      /\ PlanPower(Table[o], from, r, mw).mv \in Nat
  BY <1>1, <1>3, PlanTyped
<1> QED  BY <1>2, <1>4 DEF Positions

LEMMA InitTypeInv == Init => TypeInv
<1> SUFFICES ASSUME Init PROVE TypeInv
  OBVIOUS
<1>1. NoOffer \in DOMAIN Offers /\ 1 \in Positions(NoOffer)
  BY OffersAssumption, TablesTyped
<1>2. DefaultFallback \in Nat
  BY SMT DEF DefaultFallback
<1>3. trigger.pos = 1 /\ trigger.mv \in Nat /\ asked.pos = 0 /\ asked.mv = 0
      /\ contract.pos = 0 /\ contract.mv = 0
  BY <1>2 DEF Init, NoContract
<1>4. TypeOK
  <2>1. /\ st \in States /\ updating \in BOOLEAN /\ request \in BOOLEAN
        /\ pe \in PeStates /\ handshake \in BOOLEAN
        /\ pwm \in {"Disabled", "Pulse", "Gap"} /\ enabled \in BOOLEAN /\ missed \in BOOLEAN
    BY DEF Init, States, PeStates
  <2>2. prevMv \in Nat /\ nextMv \in Nat /\ batch \subseteq Nat
    BY DEF Init
  <2>3. {feedback, info, head} \subseteq Loads /\ target \in Targets
    BY LoadsAssumption DEF Init, NoHead
  <2>4. offer \in DOMAIN Offers /\ current \in DOMAIN Table[offer] \cup {1}
    BY <1>1 DEF Init
  <2> QED  BY <1>3, <2>1, <2>2, <2>3, <2>4, PdosAssumption DEF TypeOK
<1> QED  BY <1>1, <1>3, <1>4 DEF Init, TypeInv, Placed, Contracted

\* Entries that start over, and those that ask for a plan.
LEMMA StartOverTyped ==
  ASSUME TypeInv, trigger' = [pos |-> Defaults[offer'].pos, mv |-> Defaults[offer'].mv],
         offer' \in DOMAIN Offers
  PROVE  trigger'.pos \in Positions(offer') /\ trigger'.pos \in 1..MaxPdoObjects /\ trigger'.mv \in Nat
<1>1. Defaults[offer'].pos \in Positions(offer') /\ Defaults[offer'].mv \in Nat
      /\ Positions(offer') \subseteq 1..MaxPdoObjects
  BY DefaultsTyped, TablesTyped
<1> QED  BY <1>1

LEMMA WaitTyped ==
  ASSUME TypeInv, NEW cause \in BOOLEAN, NEW r \in Loads, EnterWait(cause, r)
  PROVE  /\ st' = "WaitContractChange" /\ pwm' = "Disabled" /\ enabled' = FALSE
         /\ trigger'.pos \in Positions(offer) /\ trigger'.pos \in 1..MaxPdoObjects /\ trigger'.mv \in Nat
         /\ request' \in BOOLEAN /\ missed' \in BOOLEAN
         /\ UNCHANGED <<updating, prevMv, nextMv, target, offer, current, info, batch>>
<1> DEFINE plan == Plans[offer][current][r][target]
<1>1. offer \in DOMAIN Offers /\ current \in Positions(offer) /\ target \in Targets
  BY DEF TypeInv, TypeOK, Positions
<1>2. plan.idx \in Positions(offer) /\ plan.mv \in Nat /\ plan.idx \in 1..MaxPdoObjects
  <2>1. plan.idx \in Positions(offer) /\ plan.mv \in Nat
    BY <1>1, PlansTyped
  <2>2. Positions(offer) \subseteq 1..MaxPdoObjects
    BY <1>1, TablesTyped
  <2> QED  BY <2>1, <2>2
<1>3. trigger' = [pos |-> plan.idx, mv |-> plan.mv] /\ (request' = TRUE \/ request' = request)
  BY DEF EnterWait, ClearTriggerTo, Trigger
<1> HIDE DEF plan
<1> QED
  BY <1>2, <1>3 DEF EnterWait, LoadOff, Notice, selVars, TypeInv, TypeOK

LEMMA RoundedTyped == ASSUME NEW mv \in Nat PROVE Rounded(mv) \in Nat
BY DEF Rounded

LEMMA TypeTick == ASSUME TypeInv, SysTick PROVE TypeInv'
<1> USE DEF TypeInv, TypeOK, Placed, Contracted, States
<1>1. UNCHANGED <<pe, asked, contract, handshake, head>>
  BY DEF SysTick, CalibrateTick, HeadLostTick, ReadyTick, EnvUnchanged, peVars
<1>2. CASE CalibrateTick
  BY <1>1, <1>2 DEF CalibrateTick, EnterReady, selVars, trigVars, pwmVars
<1>3. CASE HeadLostTick
  <2>1. /\ trigger' = [pos |-> Defaults[offer'].pos, mv |-> Defaults[offer'].mv]
        /\ UNCHANGED <<offer, current, updating, prevMv, nextMv, feedback, batch>>
        /\ request' = TRUE /\ st' = "Initializing" /\ info' = 0 /\ target' = 0
        /\ pwm' = "Disabled" /\ enabled' = FALSE /\ missed' \in BOOLEAN
    BY <1>3 DEF HeadLostTick, EnterInitializing, LoadOff, Forget, Notice, DefaultTrigger, Trigger, selVars
  <2>2. trigger'.pos \in Positions(offer') /\ trigger'.pos \in 1..MaxPdoObjects /\ trigger'.mv \in Nat
    BY <2>1, StartOverTyped
  <2> QED  BY <1>1, <2>1, <2>2, LoadsAssumption
<1>4. CASE ReadyTick
  <2> DEFINE plan == Plans[offer][current][info][target]
  <2>1. feedback' = info /\ info \in Loads /\ st = "Ready"
    BY <1>4 DEF ReadyTick
  <2>2. CASE EnterWait(FALSE, info)
    <3>1. /\ st' = "WaitContractChange" /\ pwm' = "Disabled" /\ enabled' = FALSE
          /\ trigger'.pos \in Positions(offer) /\ trigger'.pos \in 1..MaxPdoObjects /\ trigger'.mv \in Nat
          /\ request' \in BOOLEAN /\ missed' \in BOOLEAN
          /\ UNCHANGED <<updating, prevMv, nextMv, target, offer, current, info, batch>>
      BY <2>1, <2>2, WaitTyped
    <3> QED  BY <1>1, <2>1, <3>1
  <2>3. CASE /\ LoadOn(plan, info) /\ UNCHANGED <<st, prevMv, target, selVars, info>>
             /\ \/ nextMv' = Rounded(plan.mv) /\ updating' = TRUE /\ Trigger(current, plan.mv)
                \/ UNCHANGED <<nextMv, updating, trigVars>>
    <3>1. plan.mv \in Nat /\ Rounded(plan.mv) \in Nat
      <4>1. plan.mv \in Nat
        BY PlansTyped DEF Positions
      <4> HIDE DEF plan
      <4> QED  BY <4>1, RoundedTyped
    <3>2. current \in Positions(offer) /\ current \in 1..MaxPdoObjects
      BY TablesTyped DEF Positions
    <3>3. /\ enabled' = TRUE /\ missed' \in BOOLEAN
          /\ UNCHANGED <<pwm, batch, st, prevMv, target, offer, current, info>>
      BY <2>3 DEF LoadOn, Notice, selVars
    <3> HIDE DEF plan
    <3>4. CASE nextMv' = Rounded(plan.mv) /\ updating' = TRUE /\ Trigger(current, plan.mv)
      <4>1. nextMv' \in Nat /\ updating' \in BOOLEAN /\ request' = TRUE
            /\ trigger' = [pos |-> current, mv |-> plan.mv]
        BY <3>1, <3>4 DEF Trigger
      <4>2. trigger'.pos \in Positions(offer) /\ trigger'.pos \in 1..MaxPdoObjects /\ trigger'.mv \in Nat
        BY <3>1, <3>2, <4>1
      <4> QED  BY <1>1, <2>1, <3>3, <4>1, <4>2
    <3>5. CASE UNCHANGED <<nextMv, updating, trigVars>>
      BY <1>1, <2>1, <3>3, <3>5 DEF trigVars
    <3> QED  BY <2>3, <3>4, <3>5
  <2> QED  BY <1>4, <2>2, <2>3 DEF ReadyTick
<1> QED  BY <1>2, <1>3, <1>4 DEF SysTick

\* The stack leaves the FSM alone.
LEMMA IdleTyped ==
  ASSUME TypeInv, FsmIdle
  PROVE  /\ st' \in States /\ updating' \in BOOLEAN /\ prevMv' \in Nat /\ nextMv' \in Nat
         /\ {feedback', info'} \subseteq Loads /\ target' \in Targets
         /\ pwm' \in {"Disabled", "Pulse", "Gap"} /\ enabled' \in BOOLEAN
         /\ batch' \subseteq Nat /\ missed' \in BOOLEAN
BY DEF TypeInv, TypeOK, FsmIdle, fsmVars, pwmVars

\* The entry to Calibrate, from either message that leads there.
LEMMA CalibrateTyped ==
  ASSUME TypeInv, EnterCalibrate
  PROVE  /\ st' \in States /\ updating' \in BOOLEAN /\ prevMv' \in Nat /\ nextMv' \in Nat
         /\ {feedback', info'} \subseteq Loads /\ target' \in Targets
         /\ pwm' \in {"Disabled", "Pulse", "Gap"} /\ enabled' \in BOOLEAN
         /\ batch' \subseteq Nat /\ missed' \in BOOLEAN
         /\ UNCHANGED <<offer, current, trigger, request>>
<1> USE DEF TypeInv, TypeOK, States
<1>1. UNCHANGED <<feedback, target, info, offer, current, trigger, request>>
  BY DEF EnterCalibrate, selVars, trigVars
<1>2. CASE EnterReady /\ UNCHANGED pwmVars
  BY <1>1, <1>2 DEF EnterReady, pwmVars
<1>3. CASE st' = "Calibrate" /\ LoadOn(NoPlan, 0) /\ UNCHANGED <<updating, prevMv, nextMv>>
  BY <1>1, <1>3 DEF LoadOn, Notice
<1> QED  BY <1>2, <1>3 DEF EnterCalibrate

LEMMA TypeStack == ASSUME TypeInv, Startup \/ Stack \/ Source PROVE TypeInv'
<1> USE DEF TypeInv, TypeOK, Placed, Contracted, States, PeStates
<1>1. NoContract.pos = 0 /\ NoContract.mv = 0
  BY DEF NoContract
<1>2. CASE Startup
  <2>1. /\ pe' = "wait" /\ asked' = NoContract /\ contract' = NoContract /\ handshake' = FALSE
        /\ UNCHANGED <<offer, current, head>>
    BY <1>2 DEF Startup, selVars
  <2>2. CASE FsmIdle /\ UNCHANGED trigVars
    <3>1. trigger' = trigger /\ request' = request
      BY <2>2 DEF trigVars
    <3>2. asked'.pos = 0 /\ asked'.mv = 0 /\ contract'.pos = 0 /\ contract'.mv = 0
      BY <1>1, <2>1
    <3>3. handshake' \in BOOLEAN /\ ~handshake'
      BY <2>1, Zenon
    <3>4. /\ st' \in States /\ updating' \in BOOLEAN /\ prevMv' \in Nat /\ nextMv' \in Nat
          /\ {feedback', info'} \subseteq Loads /\ target' \in Targets
          /\ pwm' \in {"Disabled", "Pulse", "Gap"} /\ enabled' \in BOOLEAN
          /\ batch' \subseteq Nat /\ missed' \in BOOLEAN
      BY <2>2, IdleTyped
    <3> QED  BY <2>1, <3>1, <3>2, <3>3, <3>4
  <2>3. CASE EnterInitializing /\ InitialTrigger /\ UNCHANGED feedback
    <3>1. /\ trigger' = [pos |-> Defaults[offer'].pos, mv |-> Defaults[offer'].mv]
          /\ UNCHANGED <<request, updating, prevMv, nextMv, feedback, batch>>
          /\ st' = "Initializing" /\ info' = 0 /\ target' = 0
          /\ pwm' = "Disabled" /\ enabled' = FALSE /\ missed' \in BOOLEAN
      BY <2>1, <2>3 DEF EnterInitializing, LoadOff, Forget, Notice, InitialTrigger, ClearTriggerTo
    <3>2. trigger'.pos \in Positions(offer') /\ trigger'.pos \in 1..MaxPdoObjects /\ trigger'.mv \in Nat
      BY <2>1, <3>1, StartOverTyped
    <3> QED  BY <1>1, <2>1, <3>1, <3>2, LoadsAssumption
  <2> QED  BY <1>2, <2>2, <2>3 DEF Startup
<1>3. CASE CableDetached \/ SrcDisabled
  <2>1. DefaultFallback \in Nat
    BY SMT DEF DefaultFallback
  <2>2. /\ trigger' = [pos |-> 1, mv |-> DefaultFallback] /\ request' = FALSE
        /\ offer' = NoOffer /\ current' = 1 /\ pwm' = "Disabled" /\ enabled' = FALSE
        /\ missed' \in BOOLEAN /\ st' \in States
        /\ pe' \in {"off", "disabled"}
        /\ UNCHANGED <<updating, prevMv, nextMv, feedback, batch, head>>
        /\ info' \in {info, 0} /\ target' \in {target, 0}
    BY <1>3 DEF CableDetached, SrcDisabled, EnterOff, LoadOff, Forget, Notice
  <2>3. \/ asked' = NoContract /\ contract' = NoContract /\ handshake' = FALSE
        \/ UNCHANGED <<asked, contract, handshake>>
    BY <1>3 DEF CableDetached, SrcDisabled
  <2>4. NoOffer \in DOMAIN Offers /\ 1 \in Positions(NoOffer)
    BY OffersAssumption, TablesTyped
  <2>5. trigger'.pos = 1 /\ trigger'.mv \in Nat
    BY <2>1, <2>2
  <2>6. trigger'.pos \in Positions(offer') /\ trigger'.pos \in 1..MaxPdoObjects /\ current' \in DOMAIN Table[offer'] \cup {1}
    BY <2>2, <2>4, <2>5, PdosAssumption
  <2>7. {feedback', info', head'} \subseteq Loads /\ target' \in Targets
    BY <2>2, LoadsAssumption
  <2>8. /\ asked'.pos \in Nat /\ asked'.mv \in Nat /\ contract'.pos \in Nat /\ contract'.mv \in Nat
        /\ handshake' \in BOOLEAN /\ (handshake' => contract' # NoContract)
    <3>1. CASE asked' = NoContract /\ contract' = NoContract /\ handshake' = FALSE
      <4>1. asked'.pos = 0 /\ asked'.mv = 0 /\ contract'.pos = 0 /\ contract'.mv = 0
        BY <1>1, <3>1
      <4>2. handshake' \in BOOLEAN /\ ~handshake'
        BY <3>1, Zenon
      <4> QED  BY <4>1, <4>2
    <3>2. CASE UNCHANGED <<asked, contract, handshake>>
      <4>1. asked' = asked /\ contract' = contract /\ handshake' = handshake
        BY <3>2
      <4> QED  BY <4>1
    <3> QED  BY <2>3, <3>1, <3>2
  <2> QED  BY <2>2, <2>4, <2>5, <2>6, <2>7, <2>8
<1>4. CASE \E o \in DOMAIN Offers \ {NoOffer} : SrcCapsLoad(o)
  <2>1. PICK o \in DOMAIN Offers : SrcCapsLoad(o)
    BY <1>4
  <2>2. /\ trigger' = [pos |-> Defaults[offer'].pos, mv |-> Defaults[offer'].mv]
        /\ offer' = o /\ current' = 1 /\ pe' = "caps" /\ asked' = NoContract
        /\ UNCHANGED <<contract, handshake, head, request>>
        /\ FsmIdle
    BY <2>1 DEF SrcCapsLoad, ClearTriggerTo
  <2>3. trigger'.pos \in Positions(offer') /\ trigger'.pos \in 1..MaxPdoObjects /\ trigger'.mv \in Nat
    BY <2>2, StartOverTyped
  <2> QED  BY <1>1, <2>2, <2>3, IdleTyped
<1>5. CASE SrcCapsReceive
  <2>1. pe' = "select" /\ UNCHANGED <<asked, contract, handshake, head>>
    BY <1>5 DEF SrcCapsReceive
  <2>2. CASE EnterWait(TRUE, feedback) /\ UNCHANGED feedback
    <3>1. /\ st' = "WaitContractChange" /\ pwm' = "Disabled" /\ enabled' = FALSE
          /\ trigger'.pos \in Positions(offer) /\ trigger'.pos \in 1..MaxPdoObjects /\ trigger'.mv \in Nat
          /\ request' \in BOOLEAN /\ missed' \in BOOLEAN
          /\ UNCHANGED <<updating, prevMv, nextMv, target, offer, current, info, batch>>
      BY <2>2, WaitTyped
    <3> QED  BY <2>1, <2>2, <3>1
  <2>3. CASE /\ missed' = (st = "Calibrate")
             /\ UNCHANGED <<fsmVars, target, info, selVars, trigVars,
                            pwm, enabled, duty, dutyFor, batch>>
    BY <2>1, <2>3 DEF fsmVars, selVars, trigVars
  <2> QED  BY <1>5, <2>2, <2>3 DEF SrcCapsReceive
<1>6. CASE Select
  <2>1. /\ pe' = "asked" /\ asked' = trigger /\ request' = FALSE
        /\ UNCHANGED <<trigger, offer, current, contract, handshake, head>> /\ FsmIdle
    BY <1>6 DEF Select, selVars
  <2>2. trigger.pos \in Nat
    BY SMT
  <2> QED  BY <2>1, <2>2, IdleTyped
<1>7. CASE SelectCapDone
  BY <1>7, IdleTyped DEF SelectCapDone, trigVars, Positions
<1>8. CASE Rejected
  <2>1. /\ pe' = "ready" /\ asked' = NoContract /\ contract # NoContract
        /\ UNCHANGED <<contract, handshake, head>>
    BY <1>8 DEF Rejected
  <2>2. CASE /\ st' = "Initializing" /\ LoadOff /\ Forget /\ target' = 0
             /\ updating' = IF st = "Ready" THEN FALSE ELSE updating
             /\ DefaultTrigger
             /\ UNCHANGED <<prevMv, nextMv, feedback, selVars>>
    <3>1. /\ trigger' = [pos |-> Defaults[offer'].pos, mv |-> Defaults[offer'].mv]
          /\ UNCHANGED <<offer, current, prevMv, nextMv, feedback, batch>>
          /\ request' = TRUE /\ info' = 0 /\ pwm' = "Disabled" /\ enabled' = FALSE
          /\ missed' \in BOOLEAN /\ updating' \in BOOLEAN
      BY <2>2 DEF LoadOff, Forget, Notice, DefaultTrigger, Trigger, selVars
    <3>2. trigger'.pos \in Positions(offer') /\ trigger'.pos \in 1..MaxPdoObjects /\ trigger'.mv \in Nat
      BY <3>1, StartOverTyped
    <3> QED  BY <1>1, <2>1, <2>2, <3>1, <3>2, LoadsAssumption
  <2>3. CASE FsmIdle /\ UNCHANGED <<selVars, trigVars>>
    BY <1>1, <2>1, <2>3, IdleTyped DEF selVars, trigVars
  <2> QED  BY <1>8, <2>2, <2>3 DEF Rejected
<1>9. CASE SnkReady
  <2>1. /\ pe = "transit" /\ pe' = "ready" /\ contract' = asked /\ asked' = NoContract
        /\ UNCHANGED <<handshake, head>>
    BY <1>9 DEF SnkReady
  <2>2. contract' # NoContract
    <3>1. asked.pos \in Positions(offer) /\ Positions(offer) \subseteq 1..MaxPdoObjects
      BY <2>1, TablesTyped
    <3> QED  BY <1>1, <2>1, <3>1
  <2>3. CASE EnterCalibrate
    BY <1>1, <2>1, <2>2, <2>3, CalibrateTyped
  <2>4. CASE /\ updating' = FALSE /\ prevMv' \in {0, nextMv} /\ st' \in States
             /\ UNCHANGED <<nextMv, feedback, target, pwmVars, info, selVars, trigVars>>
    <3>1. UNCHANGED <<nextMv, feedback, target, info, offer, current, trigger, request,
                      pwm, enabled, missed, batch>>
      BY <2>4 DEF pwmVars, selVars, trigVars
    <3>2. asked'.pos = 0 /\ asked'.mv = 0 /\ contract'.pos \in Nat /\ contract'.mv \in Nat
      BY <1>1, <2>1
    <3>3. prevMv' \in Nat /\ nextMv' \in Nat
      <4>1. 0 \in Nat /\ nextMv' = nextMv
        BY <3>1
      <4> QED  BY <2>4, <4>1
    <3>4. updating' \in BOOLEAN
      BY <2>4, Zenon
    <3> QED  BY <2>1, <2>2, <2>4, <3>1, <3>2, <3>3, <3>4
  <2>5. CASE FsmIdle /\ UNCHANGED <<selVars, trigVars>>
    BY <1>1, <2>1, <2>2, <2>5, IdleTyped DEF selVars, trigVars
  <2> QED  BY <1>9, <2>3, <2>4, <2>5 DEF SnkReady, EnterReady
<1>10. CASE HandshakeDone
  <2>1. pe = "ready" /\ handshake' = TRUE /\ UNCHANGED <<pe, asked, contract, head>>
    BY <1>10 DEF HandshakeDone
  <2>2. CASE EnterCalibrate
    BY <2>1, <2>2, CalibrateTyped
  <2>3. CASE FsmIdle /\ UNCHANGED <<selVars, trigVars>>
    BY <2>1, <2>3, IdleTyped DEF selVars, trigVars
  <2> QED  BY <1>10, <2>2, <2>3 DEF HandshakeDone
<1> QED
  BY <1>2, <1>3, <1>4, <1>5, <1>6, <1>7, <1>8, <1>9, <1>10 DEF Stack, Source

LEMMA TypeOther ==
  ASSUME TypeInv, PwmTask \/ SetPower \/ Unplug \/ Plug \/ UNCHANGED vars PROVE TypeInv'
<1> USE DEF TypeInv, TypeOK, Placed, Contracted
<1>1. CASE PwmTask
  <2>1. /\ UNCHANGED <<st, updating, prevMv, nextMv, feedback, target, offer, current, trigger,
                       request, pe, asked, contract, handshake, enabled, missed, head>>
        /\ pwm' \in {"Disabled", "Pulse", "Gap"}
    BY <1>1 DEF PwmTask, Pulse, Sample, PulseEnd, PwmOthers, fsmVars, selVars, trigVars, peVars
  <2>2. batch' \subseteq Nat
    <3>1. current \in Nat
      <4>1. current \in Positions(offer) /\ Positions(offer) \subseteq 1..MaxPdoObjects
        BY TablesTyped DEF Positions
      <4> QED  BY <4>1
    <3> QED  BY <1>1, <3>1 DEF PwmTask, Pulse, Sample, PulseEnd
  <2>3. info' \in Loads
    BY <1>1 DEF PwmTask, Pulse, Sample, PulseEnd
  <2> QED  BY <2>1, <2>2, <2>3
<1>2. CASE SetPower
  BY <1>2 DEF SetPower, fsmVars, selVars, trigVars, peVars, pwmVars
<1>3. CASE Unplug \/ Plug
  <2>1. head' \in Loads
    BY <1>3, LoadsAssumption DEF Unplug, Plug, NoHead
  <2>2. UNCHANGED <<fsmVars, target, selVars, trigVars, peVars, pwmVars, info>>
    BY <1>3 DEF Unplug, Plug
  <2> QED  BY <2>1, <2>2 DEF fsmVars, selVars, trigVars, peVars, pwmVars
<1>4. CASE UNCHANGED vars
  BY <1>4 DEF vars, fsmVars, selVars, trigVars, peVars, pwmVars
<1> QED  BY <1>1, <1>2, <1>3, <1>4

\* The state keeps its types, and the load is on only under a contract, to calibrate
\* or in Ready.
THEOREM SupplyIsSafe == Spec => []SupplySafe
<1>1. TypeInv /\ [Next]_vars => TypeInv'
  BY TypeTick, TypeStack, TypeOther DEF Next
<1>2. Spec => []TypeInv
  BY <1>1, InitTypeInv, PTL DEF Spec
<1>3. TypeInv /\ HeadInv /\ QuietInv => SupplySafe
  BY DEF TypeInv, Contracted, HeadInv, LoadStates, QuietInv, Reported, SupplySafe,
         LoadNeedsContract
<1> QED  BY <1>2, <1>3, HeadInvariance, QuietInvariance, PTL
=============================================================================
