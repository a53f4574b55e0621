----------------------------- MODULE PowerSupply ----------------------------
(***************************************************************************)
(* The power supply: the FSM of Power (heater/power.cpp), driven by the    *)
(* messages of the USB PD stack in its task and by the SysTick of the      *)
(* heater task, under one lock; the load switch (heater/pwm.cpp), in a     *)
(* task of its own; and the measurement of the load (drain_tracker.cpp)    *)
(* that every plan is made from.                                           *)
(*                                                                         *)
(* The PD stack is a library and is modelled from how the FSM uses it: a   *)
(* selection takes the position and voltage of the trigger; it is made     *)
(* after capabilities and on request, and a request is over once one is    *)
(* made; SnkReady follows every transition of the source.  A source        *)
(* rejects what the FSM asks for, but never the default contract.          *)
(*                                                                         *)
(* Left out: current_plan and next_plan, which only reach the feedback's   *)
(* req_mv and req_idx, which nothing reads; the length of pulses, which    *)
(* PwmDuty computes; the warming up of a head, which PdoChoice has; the    *)
(* power status and the Stop that Off and Initializing post to the         *)
(* application, which HeaterApp takes as PowerDown; logging.               *)
(***************************************************************************)
EXTENDS PdoSelect, FiniteSets

CONSTANTS
  MaxPdoObjects, \* profiles a list of PDOs can have, EPR included
  Offers,       \* the lists of PDOs that sources send, by name
  NoOffer,      \* the name of the empty list
  Loads,        \* resistances of the heads, mOhm, and 0 for none
  Targets,      \* powers the heater task asks for, mW
  MaxCaps,      \* bound: capabilities sent unasked
  MaxRejects,   \* bound: rejected requests
  MaxResets,    \* bound: hard resets, detached cables
  MaxSwaps,     \* bound: heads plugged in
  MaxSets       \* bound: changes of the target

ASSUME PdosAssumption == MaxPdoObjects \in Nat \ {0}
ASSUME OffersAssumption ==
  /\ NoOffer \in DOMAIN Offers /\ Offers[NoOffer] = <<>>
  /\ \A o \in DOMAIN Offers \ {NoOffer} :
       WellFormed(Offers[o]) /\ Len(Offers[o]) <= MaxPdoObjects
ASSUME LoadsAssumption ==
  Loads \subseteq Nat /\ 0 \in Loads /\ Targets \subseteq Nat /\ 0 \in Targets
ASSUME BoundAssumption == {MaxCaps, MaxRejects, MaxResets, MaxSwaps, MaxSets} \subseteq Nat

NoHead     == 0
NoContract == [pos |-> 0, mv |-> 0]
NoPlan     == [idx |-> 0, mv |-> 0, duty |-> 0]

\* The table of descriptors that load_pdos makes of an offer; over it the
\* default contract and plan_power, by current profile, load and target.
Table    == [o \in DOMAIN Offers |-> LoadPdos(Offers[o])]
Defaults == [o \in DOMAIN Offers |-> Default(Table[o])]
Plans    == [o \in DOMAIN Offers |-> [cur \in 1..MaxPdoObjects |-> [r \in Loads |-> [mw \in Targets |->
               PlanPower(Table[o], cur, r, mw)]]]]

VARIABLES
  st,         \* state of the FSM
  updating,   \* is_apdo_updating
  prevMv, nextMv,    \* prev_apdo_mv, next_apdo_mv
  feedback,   \* last_feedback: the resistance it gives, 0 for none
  target,     \* target_power_mw
  offer, current,    \* profile_selector: the offer its descriptors are of, current_index + 1
  trigger,    \* contract the stack will select next
  request,    \* the stack was asked for a selection
  pe,         \* what the stack is doing
  asked,      \* contract in the request under way
  contract,   \* contract in force
  handshake,  \* HANDSHAKE_REPORTED
  pwm,        \* state of the load switch
  enabled,    \* Pwm::_enabled
  duty,       \* the plan its duty comes from
  dutyFor,    \* the resistance that plan was made for (history)
  batch,      \* profiles the samples of this pulse were taken at
  info,       \* DrainTracker::info: the resistance, 0 unless load_valid
  head,       \* the head in the socket
  missed,     \* the FSM was told of new capabilities and took no notice (history)
  caps, rejects, resets, swaps, sets

fsmVars  == <<st, updating, prevMv, nextMv, feedback>>
selVars  == <<offer, current>>
trigVars == <<trigger, request>>
peVars   == <<pe, asked, contract, handshake>>
pwmVars  == <<pwm, enabled, duty, dutyFor, batch, missed>>
bounds   == <<caps, rejects, resets, swaps, sets>>
vars == <<fsmVars, target, selVars, trigVars, peVars, pwmVars, info, head, bounds>>

States   == {"Off", "Initializing", "Calibrate", "Ready", "WaitContractChange", "Fault"}
PeStates == {"off", "wait", "caps", "select", "asked", "transit", "ready", "disabled"}

TypeOK ==
  /\ st \in States /\ updating \in BOOLEAN
  /\ prevMv \in Nat /\ nextMv \in Nat
  /\ {feedback, info, head} \subseteq Loads
  /\ target \in Targets
  /\ offer \in DOMAIN Offers /\ current \in DOMAIN Table[offer] \cup {1}
  /\ trigger.pos \in 1..MaxPdoObjects /\ trigger.mv \in Nat
  /\ request \in BOOLEAN
  /\ pe \in PeStates /\ handshake \in BOOLEAN
  /\ contract.pos \in Nat /\ contract.mv \in Nat /\ asked.pos \in Nat /\ asked.mv \in Nat
  /\ pwm \in {"Disabled", "Pulse", "Gap"} /\ enabled \in BOOLEAN
  /\ batch \subseteq Nat /\ missed \in BOOLEAN

Init ==
  /\ st = "Off" /\ updating = FALSE
  /\ prevMv = 0 /\ nextMv = 0 /\ feedback = 0 /\ target = 0
  /\ offer = NoOffer /\ current = 1
  /\ trigger = [pos |-> 1, mv |-> DefaultFallback] /\ request = FALSE
  /\ pe = "off" /\ asked = NoContract /\ contract = NoContract /\ handshake = FALSE
  /\ pwm = "Disabled" /\ enabled = FALSE /\ duty = NoPlan /\ dutyFor = 0 /\ batch = {}
  /\ info = 0 /\ head = NoHead /\ missed = FALSE
  /\ caps = 0 /\ rejects = 0 /\ resets = 0 /\ swaps = 0 /\ sets = 0

(***************************************************************************)
(* Entries of the states.                                                  *)
(***************************************************************************)

\* What was missed is made good by a plan that is made when the stack is idle.
Notice == missed' = (missed /\ ~(pe = "ready" /\ ~request))

\* Pwm::enable(false) leaves the pulse at once and drops its samples;
\* Pwm::enable(true) sets the flag for the next tick of the task.
LoadOff ==
  /\ pwm' = "Disabled" /\ enabled' = FALSE
  /\ Notice
  /\ UNCHANGED <<duty, dutyFor, batch>>
LoadOn(plan, r) ==
  /\ enabled' = TRUE /\ duty' = plan /\ dutyFor' = r
  /\ Notice
  /\ UNCHANGED <<pwm, batch>>

\* dpm.trigger_by_position, and AppDPM::clear_trigger_to, which asks nothing.
Trigger(pos, mv)        == trigger' = [pos |-> pos, mv |-> mv] /\ request' = TRUE
ClearTriggerTo(pos, mv) == trigger' = [pos |-> pos, mv |-> mv] /\ UNCHANGED request

\* Mutant: the measurement outlives the head.
ForgetNothing == UNCHANGED info

\* drain_tracker.reset().
Forget == info' = 0

EnterOff ==
  /\ st' = "Off"
  /\ offer' = NoOffer /\ current' = 1
  /\ LoadOff /\ Forget /\ target' = 0
  /\ UNCHANGED <<updating, prevMv, nextMv, feedback>>

\* Whoever comes from Ready or WaitContractChange has set the trigger to the
\* default before: clearing it leaves that request standing.
EnterInitializing ==
  /\ st' = "Initializing"
  /\ LoadOff /\ Forget /\ target' = 0
  /\ UNCHANGED <<updating, prevMv, nextMv>>
InitialTrigger == ClearTriggerTo(Defaults[offer].pos, Defaults[offer].mv)
DefaultTrigger == Trigger(Defaults[offer].pos, Defaults[offer].mv)

EnterReady ==
  st' = "Ready" /\ updating' = FALSE /\ prevMv' = 0 /\ UNCHANGED nextMv

\* A valid measurement is there: Ready at once. Else pulses of no duty.
EnterCalibrate ==
  /\ IF info # 0
     THEN EnterReady /\ UNCHANGED pwmVars
     ELSE /\ st' = "Calibrate"
          /\ LoadOn(NoPlan, 0)
          /\ UNCHANGED <<updating, prevMv, nextMv>>
  /\ UNCHANGED <<feedback, target, selVars, trigVars, info>>

\* Mutant: the load stays on while the contract changes.
EnterWaitLoaded(cause, r) ==
  LET plan == Plans[offer][current][r][target] IN
  /\ st' = "WaitContractChange"
  /\ UNCHANGED pwmVars
  /\ IF cause THEN ClearTriggerTo(plan.idx, plan.mv) ELSE Trigger(plan.idx, plan.mv)
  /\ UNCHANGED <<updating, prevMv, nextMv, target, selVars, info>>

\* Plan again, and ask for it, unless the stack is about to select anyway.
EnterWait(cause, r) ==
  LET plan == Plans[offer][current][r][target] IN
  /\ st' = "WaitContractChange"
  /\ LoadOff
  /\ IF cause THEN ClearTriggerTo(plan.idx, plan.mv) ELSE Trigger(plan.idx, plan.mv)
  /\ UNCHANGED <<updating, prevMv, nextMv, target, selVars, info>>

(***************************************************************************)
(* SysTick, from the heater task every 50 ms.                              *)
(***************************************************************************)
EnvUnchanged == UNCHANGED <<peVars, head, bounds>>

CalibrateTick ==
  /\ st = "Calibrate" /\ info # 0
  /\ EnterReady
  /\ UNCHANGED <<feedback, target, selVars, trigVars, pwmVars, info>>
  /\ EnvUnchanged

\* The head is lost.
HeadLostTick ==
  /\ st = "Ready" /\ ~updating /\ info = 0
  /\ EnterInitializing /\ DefaultTrigger
  /\ UNCHANGED <<feedback, selVars>>
  /\ EnvUnchanged

\* Rounded to the 0.1 V of an update.
Rounded(mv) == ((mv + 50) \div 100) * 100

\* Mutant: the duty of the new voltage is set when it is there.
ReadyTickLate ==
  /\ st = "Ready" /\ info # 0 /\ ~updating
  /\ feedback' = info
  /\ LET plan == Plans[offer][current][info][target]
         fixed == Table[offer][current].mv_min = Table[offer][current].mv_max
         new == ~fixed /\ Rounded(plan.mv) # prevMv IN
     \/ /\ plan.idx # current
        /\ EnterWait(FALSE, info)
     \/ /\ plan.idx = current
        /\ IF new THEN enabled' = TRUE /\ UNCHANGED <<duty, dutyFor, pwm, batch, missed>>
                  ELSE LoadOn(plan, info)
        /\ IF new THEN /\ nextMv' = Rounded(plan.mv) /\ updating' = TRUE
                       /\ Trigger(current, plan.mv)
                  ELSE UNCHANGED <<nextMv, updating, trigVars>>
        /\ UNCHANGED <<st, prevMv, target, selVars, info>>
  /\ EnvUnchanged

\* Follow the target: by another profile, or by duty and, if the profile is
\* adjustable, voltage. While an update is under way a tick takes the feedback
\* only, and that is of the same head.
ReadyTick ==
  /\ st = "Ready" /\ info # 0 /\ ~updating
  /\ feedback' = info
  /\ LET plan == Plans[offer][current][info][target]
         fixed == Table[offer][current].mv_min = Table[offer][current].mv_max
         new == ~fixed /\ Rounded(plan.mv) # prevMv IN
     \/ /\ plan.idx # current
        /\ EnterWait(FALSE, info)
     \/ /\ plan.idx = current
        /\ LoadOn(plan, info)
        /\ IF new THEN /\ nextMv' = Rounded(plan.mv) /\ updating' = TRUE
                       /\ Trigger(current, plan.mv)
                  ELSE UNCHANGED <<nextMv, updating, trigVars>>
        /\ UNCHANGED <<st, prevMv, target, selVars, info>>
  /\ EnvUnchanged

SysTick == CalibrateTick \/ HeadLostTick \/ ReadyTick

(***************************************************************************)
(* The PD stack, with the handlers it calls.                               *)
(***************************************************************************)
FsmIdle == UNCHANGED <<fsmVars, target, pwmVars, info>>

\* MsgToDpm_Startup and MsgToDpm_TransitToDefault, after a hard reset.
Startup ==
  /\ \/ pe = "off" /\ UNCHANGED resets
     \/ pe # "off" /\ resets < MaxResets /\ resets' = resets + 1
  /\ pe' = "wait" /\ asked' = NoContract /\ contract' = NoContract /\ handshake' = FALSE
  /\ IF st = "Initializing"
     THEN FsmIdle /\ UNCHANGED trigVars      \* no transition
     ELSE EnterInitializing /\ InitialTrigger /\ UNCHANGED feedback
  /\ UNCHANGED <<selVars, head, caps, rejects, swaps, sets>>

\* MsgToDpm_CableDetached.
CableDetached ==
  /\ pe # "off" /\ resets < MaxResets /\ resets' = resets + 1
  /\ pe' = "off" /\ asked' = NoContract /\ contract' = NoContract /\ handshake' = FALSE
  /\ EnterOff
  /\ request' = FALSE /\ trigger' = [pos |-> 1, mv |-> DefaultFallback]
  /\ UNCHANGED <<head, caps, rejects, swaps, sets>>

\* MsgToDpm_SrcDisabled: the source does not speak PD.
SrcDisabled ==
  /\ pe = "wait" /\ contract = NoContract /\ resets < MaxResets /\ resets' = resets + 1
  /\ pe' = "disabled"
  /\ st' = "Fault" /\ offer' = NoOffer /\ current' = 1 /\ LoadOff
  /\ trigger' = [pos |-> 1, mv |-> DefaultFallback] /\ request' = FALSE
  /\ UNCHANGED <<updating, prevMv, nextMv, feedback, target, info, head,
                 asked, contract, handshake, caps, rejects, swaps, sets>>

\* MsgToDpm_SrcCapsReceived, when the stack waits for it or unasked: the lock is
\* taken to load the table ...
SrcCapsLoad(o) ==
  /\ \/ pe = "wait" /\ UNCHANGED caps
     \/ pe \in {"asked", "transit", "ready"} /\ caps < MaxCaps /\ caps' = caps + 1
  /\ pe' = "caps" /\ asked' = NoContract
  /\ offer' = o /\ current' = 1
  /\ ClearTriggerTo(Defaults[o].pos, Defaults[o].mv)
  /\ UNCHANGED <<contract, handshake, head, rejects, resets, swaps, sets>>
  /\ FsmIdle

\* ... given back, and taken again for the FSM.
SrcCapsReceive ==
  /\ pe = "caps" /\ pe' = "select"
  /\ IF st \in {"Ready", "WaitContractChange"}
     THEN EnterWait(TRUE, feedback) /\ UNCHANGED feedback
     ELSE /\ missed' = (st = "Calibrate")
          /\ UNCHANGED <<fsmVars, target, info, selVars, trigVars,
                         pwm, enabled, duty, dutyFor, batch>>
  /\ UNCHANGED <<asked, contract, handshake, head, bounds>>

\* The stack asks the source.
Select ==
  /\ pe = "select" \/ (pe = "ready" /\ request)
  /\ pe' = "asked" /\ asked' = trigger /\ request' = FALSE
  /\ UNCHANGED <<trigger, selVars, contract, handshake, head, bounds>> /\ FsmIdle

\* Mutant: the index of the profile in use is not updated.
SelectCapDoneLost ==
  /\ pe = "asked" /\ pe' = "transit"
  /\ UNCHANGED <<offer, current, trigVars, asked, contract, handshake, head, bounds>> /\ FsmIdle

\* MsgToDpm_SelectCapDone: the source accepts.
SelectCapDone ==
  /\ pe = "asked" /\ pe' = "transit"
  /\ current' = asked.pos
  /\ UNCHANGED <<offer, trigVars, asked, contract, handshake, head, bounds>> /\ FsmIdle

\* MsgToDpm_NewPowerLevelRejected: start over from the default contract.
Rejected ==
  /\ pe = "asked" /\ contract # NoContract
  /\ asked # Defaults[offer]
  /\ rejects < MaxRejects /\ rejects' = rejects + 1
  /\ pe' = "ready" /\ asked' = NoContract
  /\ IF st \in {"Ready", "WaitContractChange"}
     THEN /\ st' = "Initializing" /\ LoadOff /\ Forget /\ target' = 0
          /\ updating' = IF st = "Ready" THEN FALSE ELSE updating
          /\ DefaultTrigger
          /\ UNCHANGED <<prevMv, nextMv, feedback, selVars>>
     ELSE FsmIdle /\ UNCHANGED <<selVars, trigVars>>
  /\ UNCHANGED <<contract, handshake, head, caps, resets, swaps, sets>>

\* MsgToDpm_SnkReady: the source has made the transition.
SnkReady ==
  /\ pe = "transit" /\ pe' = "ready"
  /\ contract' = asked /\ asked' = NoContract
  /\ CASE st = "Initializing" /\ handshake -> EnterCalibrate
       [] st = "Ready" ->
            /\ prevMv' = nextMv /\ updating' = FALSE
            /\ UNCHANGED <<st, nextMv, feedback, target, pwmVars, info, selVars, trigVars>>
       [] st = "WaitContractChange" ->
            /\ EnterReady
            /\ UNCHANGED <<feedback, target, pwmVars, info, selVars, trigVars>>
       [] OTHER -> FsmIdle /\ UNCHANGED <<selVars, trigVars>>
  /\ UNCHANGED <<handshake, head, bounds>>

\* MsgToDpm_HandshakeDone, once after the first contract.
HandshakeDone ==
  /\ pe = "ready" /\ ~handshake /\ handshake' = TRUE
  /\ IF st = "Initializing" THEN EnterCalibrate
     ELSE FsmIdle /\ UNCHANGED <<selVars, trigVars>>
  /\ UNCHANGED <<pe, asked, contract, head, bounds>>

Stack == \/ SrcCapsReceive \/ Select \/ SelectCapDone \/ SnkReady \/ HandshakeDone
         \/ \E o \in DOMAIN Offers \ {NoOffer} : pe = "wait" /\ SrcCapsLoad(o)
Source == \/ CableDetached \/ SrcDisabled \/ Rejected
          \/ \E o \in DOMAIN Offers \ {NoOffer} : pe # "wait" /\ SrcCapsLoad(o)

(***************************************************************************)
(* The load switch and the measurement.                                    *)
(***************************************************************************)
PwmOthers == UNCHANGED <<fsmVars, target, selVars, trigVars, peVars, enabled, duty,
                         dutyFor, missed, head, bounds>>

\* PwmPulse_state, entered from Disabled or from a gap: a new batch of samples.
Pulse ==
  /\ (pwm = "Disabled" /\ enabled) \/ pwm = "Gap"
  /\ pwm' = "Pulse" /\ batch' = {}
  /\ UNCHANGED info /\ PwmOthers

\* DrainTracker::collect_data, with the profile of the moment.
Sample ==
  /\ pwm = "Pulse" /\ batch' = batch \cup {current}
  /\ UNCHANGED <<pwm, info>> /\ PwmOthers

\* The end of a pulse: process_collected_data drops a batch that was taken at
\* more than one profile. A pulse without a gap is followed by the next.
PulseEnd ==
  /\ pwm = "Pulse" /\ batch # {}
  /\ info' = IF Cardinality(batch) = 1 THEN head ELSE info
  /\ \/ pwm' = "Gap" /\ UNCHANGED batch
     \/ duty.duty = 1000 /\ batch' = {} /\ UNCHANGED pwm
  /\ PwmOthers

PwmTask == Pulse \/ Sample \/ PulseEnd

(***************************************************************************)
(* The environment.                                                        *)
(***************************************************************************)

\* set_power_mw, by the heater task and without the lock.
SetPower ==
  /\ sets < MaxSets /\ sets' = sets + 1
  /\ target' \in Targets \ {target}
  /\ UNCHANGED <<fsmVars, selVars, trigVars, peVars, pwmVars, info, head, caps, rejects,
                 resets, swaps>>

Unplug ==
  /\ head # NoHead /\ head' = NoHead
  /\ UNCHANGED <<fsmVars, target, selVars, trigVars, peVars, pwmVars, info, bounds>>

\* Hands are slow: if there is power, the loss of a head is noticed before the
\* next one is there.
Plug ==
  /\ head = NoHead
  /\ st \in {"Off", "Initializing", "Fault"} \/ (info = 0 /\ st # "Ready")
  /\ swaps < MaxSwaps /\ swaps' = swaps + 1
  /\ head' \in Loads \ {NoHead}
  /\ UNCHANGED <<fsmVars, target, selVars, trigVars, peVars, pwmVars, info, caps,
                 rejects, resets, sets>>

Next == \/ SysTick \/ Startup \/ Stack \/ Source \/ PwmTask
        \/ SetPower \/ Unplug \/ Plug

Spec == Init /\ [][Next]_vars

\* The tasks run, and a source answers what it is asked.
FairSpec == /\ Spec
            /\ WF_vars(SysTick) /\ WF_vars(Stack)
            /\ WF_vars(Pulse) /\ WF_vars(Sample) /\ WF_vars(PulseEnd)

-----------------------------------------------------------------------------
(***************************************************************************)
(* Properties.                                                             *)
(***************************************************************************)

\* The load is on only under a contract, to calibrate or in Ready.
LoadNeedsContract ==
  pwm # "Disabled" \/ enabled => contract # NoContract /\ st \in {"Calibrate", "Ready"}

\* With the types of the state: what every property of the load relies on.
SupplySafe == TypeOK /\ LoadNeedsContract

\* "Turn load off" (power.cpp:277): the profile in force changes only while the
\* load is off. The capabilities that come while the load is calibrated are the
\* exception: the FSM takes no notice of them (power.cpp:106), and the load stays
\* on through the contract that follows.
ChangesUnloaded ==
  [][contract'.pos # contract.pos => pwm' = "Disabled" \/ missed]_vars

\* "PWM stays intact, because been updated prior to APDO adjusting"
\* (power.cpp:175): once no selection is under way, the duty is one that was
\* planned for the profile in force, whatever came in between.
DutyFitsContract ==
  st = "Ready" /\ enabled /\ ~missed /\ pe = "ready" /\ ~request /\ duty.duty > 0 =>
    duty.idx = contract.pos

\* A heater is driven by a plan for its own resistance, and never by one for the
\* head that was there before.
PlannedForHead == pwm # "Disabled" /\ duty.duty > 0 => dutyFor = head \/ head = NoHead

\* A supply whose source and head stay gets ready, and settles on the profile
\* that is planned for head and target.
SupplySettles ==
  <>[](head # NoHead /\ pe \notin {"off", "disabled"}) =>
    <>[](st = "Ready" /\ contract.pos = Plans[offer][current][head][target].idx)
=============================================================================
