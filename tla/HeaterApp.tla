----------------------------- MODULE HeaterApp -----------------------------
(***************************************************************************)
(* The application state machine (app.cpp, app_states/) together with the  *)
(* heater task machinery it drives (heater/heater_control*.cpp).           *)
(*                                                                         *)
(* Three tasks of the firmware meet here:                                  *)
(*   - a handler of the state machine: the RPC task calling App::receive,  *)
(*     or the queue consumer; both run under message_lock (owner);         *)
(*   - the HeaterControl task, which ticks every 50 ms WITHOUT that lock   *)
(*     and reads is_task_active, temperature_control_enabled and           *)
(*     task_iterator one after the other;                                  *)
(*   - the timer service, which posts button events and BondOff.           *)
(* The tasks share one core and preempt each other anywhere, so every      *)
(* access to shared state is a step of its own.                            *)
(***************************************************************************)
EXTENDS Naturals, Sequences

CONSTANTS
  QueueSize,   \* slots of message_queue (16 in app.cpp:45)
  Watts,       \* power levels a command or the ADRC may ask for; 0 is off
  Commands,    \* the run_* RPC methods clients may call
  Gestures,    \* the button gestures the user may make
  MaxInputs    \* bound: commands, button events and health changes

ASSUME QueueSizeAssumption == QueueSize \in Nat \ {0}
ASSUME WattsAssumption     == Watts \subseteq Nat /\ 0 \in Watts
ASSUME InputsAssumption    == MaxInputs \in Nat

ClosedLoop == {"REFLOW", "ADRC_TEST"}             \* run under the ADRC
OpenLoop   == {"SENSOR_BAKE", "STEP_RESPONSE"}    \* run at a fixed power
TaskStates == ClosedLoop \cup OpenLoop
AppStates  == TaskStates \cup {"IDLE", "BONDING"}
Iterated   == TaskStates \ {"ADRC_TEST"}          \* pass a task iterator

\* AppCmd packets that are queued; run_* commands only come by RPC. A command
\* is named after the state it asks for. Stop{true} is "StopOk"; the button
\* events that the states tell apart are 1x, 5x and the long press.
Buttons  == {"Press1", "Press5", "LongPress"}

ASSUME ClientAssumption == Commands \subseteq TaskStates /\ Gestures \subseteq Buttons

Queued   == Buttons \cup {"Stop", "StopOk", "BondOff"}

VARIABLES
  app,       \* current state of the etl::fsm
  next,      \* state the running transition leads to
  owner,     \* holder of message_lock: "none", "consumer" or "rpc"
  hpc,       \* what the holder does next
  cmd,       \* App::last_cmd_data, the power asked by the last command
  queue,     \* message_queue
  lost,      \* message types xQueueSend has dropped on a full queue (history)
  active,    \* is_task_active
  iterator,  \* task_iterator: the state whose lambda it holds, or "none"
  control,   \* temperature_control_enabled
  power,     \* Power::target_power_mw
  kpc,       \* what the HeaterControl tick does next
  kpower,    \* the ADRC output the tick holds on its stack
  healthy,   \* get_health_status() = DEV_OK
  pairing,   \* pairing_enabled_flag
  timers,    \* one-shot bonding timers: running ("live"), told to stop ("dying"),
             \* or never created or started ("failed")
  panicked,  \* an empty std::function was called: abort
  inputs     \* inputs so far (bound)

appVars  == <<app, next, owner, hpc, cmd>>
busVars  == <<queue, lost>>
heatVars == <<active, iterator, control, power>>
tickVars == <<kpc, kpower>>
bondVars == <<pairing, timers>>
vars == <<appVars, busVars, heatVars, tickVars, bondVars,
          healthy, panicked, inputs>>

HandlerPcs == {"none", "exit", "stop2", "stop3", "enter", "activate", "energize"}
TickPcs == {"sleep", "gate", "regulate", "apply", "iterate", "invoke",
            "fin1", "fin2", "fin3", "report"}

TypeOK ==
  /\ app \in AppStates /\ next \in AppStates
  /\ owner \in {"none", "consumer", "rpc"}
  /\ hpc \in HandlerPcs
  /\ cmd \in Watts
  /\ queue \in Seq(Queued) /\ Len(queue) <= QueueSize
  /\ lost \subseteq Queued
  /\ active \in BOOLEAN
  /\ iterator \in Iterated \cup {"none"}
  /\ control \in BOOLEAN
  /\ power \in Watts
  /\ kpc \in TickPcs
  /\ kpower \in Watts
  /\ healthy \in BOOLEAN
  /\ pairing \in BOOLEAN
  /\ timers \subseteq {"live", "failed", "dying"}
  /\ panicked \in BOOLEAN
  /\ inputs \in 0..MaxInputs

Init ==
  /\ app = "IDLE" /\ next = "IDLE" /\ owner = "none" /\ hpc = "none" /\ cmd = 0
  /\ queue = <<>> /\ lost = {}
  /\ active = FALSE /\ iterator = "none" /\ control = FALSE /\ power = 0
  /\ kpc = "sleep" /\ kpower = 0
  /\ healthy = FALSE
  /\ pairing = FALSE /\ timers = {}
  /\ panicked = FALSE
  /\ inputs = 0

\* Something from outside happens, up to the bound.
Input == ~panicked /\ inputs < MaxInputs /\ inputs' = inputs + 1

\* Mutant: an off-by-one in the capacity check.
EnqueueOverfull(m) ==
  IF Len(queue) <= QueueSize
  THEN queue' = Append(queue, m) /\ UNCHANGED lost
  ELSE lost' = lost \cup {m} /\ UNCHANGED queue

\* App::enqueue_message: timeout 0 and an ignored result, so a full queue
\* drops the message.
Enqueue(m) ==
  IF Len(queue) < QueueSize
  THEN queue' = Append(queue, m) /\ UNCHANGED lost
  ELSE lost' = lost \cup {m} /\ UNCHANGED queue

(***************************************************************************)
(* Handlers of the state machine.                                          *)
(***************************************************************************)

\* Mutant: the states of the tasks do not expect Stop{true}.
StopsAborted == {"Stop", "Press1"}

\* What ends a task.
Stops == {"Stop", "StopOk", "Press1"}

\* Mutant: a task state takes the next command without going through IDLE.
TargetRestarts(s, m) ==
  CASE s # "BONDING" /\ m \in Commands          -> m
    [] s \in TaskStates /\ m \in Stops          -> "IDLE"
    [] s = "BONDING" /\ m \in {"BondOff", "Press1"} -> "IDLE"
    [] OTHER                                    -> s

\* The state an event leads to: the on_event handlers of app_states/*.cpp.
Target(s, m) ==
  CASE s = "IDLE" /\ m \in Commands             -> m
    [] s = "IDLE" /\ m = "LongPress"            -> "REFLOW"
    [] s = "IDLE" /\ m = "Press5"               -> "BONDING"
    [] s \in TaskStates /\ m \in Stops          -> "IDLE"
    [] s = "BONDING" /\ m \in {"BondOff", "Press1"} -> "IDLE"
    [] OTHER                                    -> s

\* App::receive by task a of message m carrying parameter w. An event that
\* changes no state is over at once; SensorBake repeated during a bake sets
\* the power. Otherwise the holder goes on to exit the old state.
Receive(a, m, w) ==
  /\ ~panicked /\ owner = "none"
  /\ IF Target(app, m) = app
     THEN /\ power' = IF app = "SENSOR_BAKE" /\ m = "SENSOR_BAKE" THEN w ELSE power
          /\ UNCHANGED <<app, next, owner, hpc, cmd>>
     ELSE /\ owner' = a
          /\ next' = Target(app, m)
          /\ hpc' = "exit"
          /\ cmd' = IF m \in Commands \ {"REFLOW"} THEN w ELSE cmd
          /\ UNCHANGED <<app, power>>
  /\ UNCHANGED <<active, iterator, control>>

\* The consumer task takes one message off the queue and receives it. While it
\* waits for the lock with the message in its hand the model leaves the message
\* at the head of the queue: the queue holds one more in the code then.
ConsumerReceive ==
  /\ queue # <<>>
  /\ Receive("consumer", Head(queue), 0)
  /\ queue' = Tail(queue)
  /\ UNCHANGED <<lost, tickVars, bondVars, healthy, panicked, inputs>>

\* A run_* or stop RPC receives its message in the BLE host task.
RpcReceive ==
  /\ Input
  /\ \E m \in Commands \cup {"Stop", "StopOk"}, w \in Watts : Receive("rpc", m, w)
  /\ UNCHANGED <<busVars, tickVars, bondVars, healthy, panicked>>

Holding(pc) == ~panicked /\ owner # "none" /\ hpc = pc

\* Bonding_State::on_exit_state: the stop of the timer is posted to the timer
\* service, which obeys later, or never when its command queue is full.
CloseWindow ==
  /\ pairing' = FALSE
  /\ timers' = IF "live" \in timers THEN {"dying"} ELSE timers \ {"failed"}

\* on_exit_state. A task state begins HeaterControl::task_stop.
ExitState ==
  /\ Holding("exit")
  /\ IF app \in TaskStates
     THEN /\ active' = FALSE
          /\ hpc' = "stop2"
          /\ UNCHANGED <<app, bondVars>>
     ELSE /\ app' = next
          /\ hpc' = "enter"
          /\ IF app = "BONDING" THEN CloseWindow ELSE UNCHANGED bondVars
          /\ UNCHANGED active
  /\ UNCHANGED <<next, owner, cmd, busVars, iterator, control, power, tickVars,
                 healthy, panicked, inputs>>

\* Mutant: task_stop keeps the iterator.
StopIteratorKeeps ==
  /\ Holding("stop2")
  /\ hpc' = "stop3"
  /\ UNCHANGED <<app, next, owner, cmd, busVars, heatVars, tickVars, bondVars,
                 healthy, panicked, inputs>>

\* task_stop drops the iterator ...
StopIterator ==
  /\ Holding("stop2")
  /\ iterator' = "none"
  /\ hpc' = "stop3"
  /\ UNCHANGED <<app, next, owner, cmd, busVars, active, control, power, tickVars,
                 bondVars, healthy, panicked, inputs>>

\* Mutant: task_stop switches the control off and forgets the power.
StopPowerKeeps ==
  /\ Holding("stop3")
  /\ control' = FALSE
  /\ app' = next
  /\ hpc' = "enter"
  /\ UNCHANGED <<next, owner, cmd, busVars, active, iterator, power, tickVars,
                 bondVars, healthy, panicked, inputs>>

\* ... and switches control and power off, which ends the exit.
StopPower ==
  /\ Holding("stop3")
  /\ control' = FALSE
  /\ power' = 0
  /\ app' = next
  /\ hpc' = "enter"
  /\ UNCHANGED <<next, owner, cmd, busVars, active, iterator, tickVars, bondVars,
                 healthy, panicked, inputs>>

\* Mutant: nobody starts the timer.
OpenWindowUntimed == pairing' = TRUE /\ UNCHANGED timers

\* Bonding_State::on_enter_state. The window opens also when the timer cannot be
\* created or started: nobody looks ("this path is best-effort").
OpenWindow == pairing' = TRUE /\ \E t \in {"live", "failed"} : timers' = timers \cup {t}

\* on_enter_state. A task that cannot start sends the machine back to IDLE,
\* through the exit of the state just entered.
EnterState ==
  /\ Holding("enter")
  /\ \/ /\ app = "IDLE"
        /\ hpc' = "none" /\ owner' = "none"
        /\ UNCHANGED <<next, iterator, pairing, timers>>
     \/ /\ app = "BONDING"
        /\ hpc' = "none" /\ owner' = "none"
        /\ OpenWindow
        /\ UNCHANGED <<next, iterator>>
     \/ /\ app \in TaskStates /\ healthy /\ ~active       \* task_start accepts
        /\ hpc' = "activate"
        /\ iterator' = IF app \in Iterated THEN app ELSE "none"
        /\ UNCHANGED <<next, owner, pairing, timers>>
     \/ /\ app \in TaskStates
        /\ ~healthy \/ active \/ app = "REFLOW"          \* or no profile to run
        /\ hpc' = "exit" /\ next' = "IDLE"
        /\ UNCHANGED <<owner, iterator, pairing, timers>>
  /\ UNCHANGED <<app, cmd, busVars, active, control, power, tickVars, healthy,
                 panicked, inputs>>

\* The last store of HeaterControlBase::task_start.
Activate ==
  /\ Holding("activate")
  /\ active' = TRUE
  /\ hpc' = "energize"
  /\ UNCHANGED <<app, next, owner, cmd, busVars, iterator, control, power, tickVars,
                 bondVars, healthy, panicked, inputs>>

\* What on_enter_state does after task_start: switch the ADRC on, or set the
\* commanded power.
Energize ==
  /\ Holding("energize")
  /\ IF app \in ClosedLoop
     THEN control' = TRUE /\ UNCHANGED power
     ELSE power' = cmd /\ UNCHANGED control
  /\ hpc' = "none" /\ owner' = "none"
  /\ UNCHANGED <<app, next, cmd, busVars, active, iterator, tickVars, bondVars,
                 healthy, panicked, inputs>>

Handler == \/ ExitState \/ StopIterator \/ StopPower
           \/ EnterState \/ Activate \/ Energize

(***************************************************************************)
(* The HeaterControl task.                                                 *)
(***************************************************************************)
KUnchanged == UNCHANGED <<appVars, bondVars, healthy, panicked, inputs>>
At(pc) == ~panicked /\ kpc = pc

\* Mutant: the tick does not watch the health.
TickHealthBlind ==
  /\ At("sleep") /\ kpc' = "gate"
  /\ UNCHANGED <<busVars, heatVars, kpower>> /\ KUnchanged

\* The part of HeaterControl::tick before the base tick: bad health during a
\* task posts Stop, on every tick until the task is gone.
TickHealth ==
  /\ At("sleep") /\ kpc' = "gate"
  /\ IF ~healthy /\ active THEN Enqueue("Stop") ELSE UNCHANGED busVars
  /\ UNCHANGED <<heatVars, kpower>> /\ KUnchanged

TickGate ==
  /\ At("gate")
  /\ kpc' = IF active THEN "regulate" ELSE "sleep"
  /\ UNCHANGED <<busVars, heatVars, kpower>> /\ KUnchanged

\* ADRC::iterate; any level the limits allow.
TickRegulate ==
  /\ At("regulate")
  /\ IF control
     THEN kpc' = "apply" /\ kpower' \in Watts
     ELSE kpc' = "iterate" /\ UNCHANGED kpower
  /\ UNCHANGED <<busVars, heatVars>> /\ KUnchanged

TickApply ==
  /\ At("apply") /\ kpc' = "iterate"
  /\ power' = kpower
  /\ UNCHANGED <<busVars, active, iterator, control, kpower>> /\ KUnchanged

\* if (task_iterator) ...
TickIterate ==
  /\ At("iterate")
  /\ kpc' = IF iterator = "none" THEN "sleep" ELSE "invoke"
  /\ UNCHANGED <<busVars, heatVars, kpower>> /\ KUnchanged

\* ... task_iterator(time). Reflow finishes by stopping the task itself; a
\* step response posts its end and keeps running until it is consumed. Calling
\* an std::function that became empty since the test aborts the firmware.
TickInvoke ==
  /\ At("invoke")
  /\ \/ /\ iterator = "none"
        /\ panicked' = TRUE
        /\ UNCHANGED <<busVars, kpc>>
     \/ /\ iterator \in Iterated
        /\ kpc' = "sleep"
        /\ UNCHANGED <<busVars, panicked>>
     \/ /\ iterator = "STEP_RESPONSE"
        /\ kpc' = "sleep"
        /\ \E m \in {"Stop", "StopOk"} : Enqueue(m)
        /\ UNCHANGED panicked
     \/ /\ iterator = "REFLOW"
        /\ kpc' = "fin1"
        /\ UNCHANGED <<busVars, panicked>>
  /\ UNCHANGED <<appVars, heatVars, kpower, bondVars, healthy, inputs>>

\* Reflow_State::task_iterator past the last point of the timeline: task_stop
\* in the heater task, then Stop{true}.
TickFinish ==
  \/ /\ At("fin1") /\ kpc' = "fin2"
     /\ active' = FALSE
     /\ UNCHANGED <<busVars, iterator, control, power, kpower>> /\ KUnchanged
  \/ /\ At("fin2") /\ kpc' = "fin3"
     /\ iterator' = "none"
     /\ UNCHANGED <<busVars, active, control, power, kpower>> /\ KUnchanged
  \/ /\ At("fin3") /\ kpc' = "report"
     /\ control' = FALSE /\ power' = 0
     /\ UNCHANGED <<busVars, active, iterator, kpower>> /\ KUnchanged
  \/ /\ At("report") /\ kpc' = "sleep"
     /\ Enqueue("StopOk")
     /\ UNCHANGED <<heatVars, kpower>> /\ KUnchanged

Tick == \/ TickHealth \/ TickGate \/ TickRegulate \/ TickApply
        \/ TickIterate \/ TickInvoke \/ TickFinish

(***************************************************************************)
(* The timer service and the environment.                                  *)
(***************************************************************************)

\* The button engine recognised a gesture.
ButtonEvent ==
  /\ Input
  /\ \E b \in Gestures : Enqueue(b)
  /\ UNCHANGED <<appVars, heatVars, tickVars, bondVars, healthy, panicked>>

\* A bonding timer expires. One whose stop is still in the service's command
\* queue ("dying") may expire first, or be deleted; one whose stop was refused
\* expires. Several dying ones count as one.
TimerExpires(t) ==
  /\ ~panicked /\ t \in timers /\ timers' = timers \ {t}
  /\ Enqueue("BondOff")
  /\ UNCHANGED <<appVars, heatVars, tickVars, pairing, healthy, panicked, inputs>>

TimerDeleted ==
  /\ ~panicked /\ "dying" \in timers /\ timers' = timers \ {"dying"}
  /\ UNCHANGED <<appVars, busVars, heatVars, tickVars, pairing, healthy, panicked, inputs>>

\* A successful pair RPC closes the pairing window early.
RpcPair ==
  /\ pairing
  /\ Input
  /\ Enqueue("BondOff")
  /\ UNCHANGED <<appVars, heatVars, tickVars, bondVars, healthy, panicked>>

\* The head comes or goes, the supply gets ready or reports a fault.
HealthChanges ==
  /\ Input
  /\ healthy' = ~healthy
  /\ UNCHANGED <<appVars, busVars, heatVars, tickVars, bondVars, panicked>>

\* Power enters Off or Initializing: no supply, or a contract to make anew.
PowerDown ==
  /\ Input
  /\ power' = 0 /\ healthy' = FALSE
  /\ Enqueue("Stop")
  /\ UNCHANGED <<appVars, active, iterator, control, tickVars, bondVars, panicked>>

\* The abort handler restarts the chip. None of this state is kept in flash,
\* so everything starts over.
Reboot ==
  /\ panicked /\ panicked' = FALSE
  /\ app' = "IDLE" /\ next' = "IDLE" /\ owner' = "none" /\ hpc' = "none" /\ cmd' = 0
  /\ queue' = <<>> /\ lost' = {}
  /\ active' = FALSE /\ iterator' = "none" /\ control' = FALSE /\ power' = 0
  /\ kpc' = "sleep" /\ kpower' = 0
  /\ healthy' = FALSE
  /\ pairing' = FALSE /\ timers' = {}
  /\ UNCHANGED inputs

Next ==
  \/ ConsumerReceive \/ RpcReceive \/ Handler
  \/ Tick
  \/ TimerExpires("live") \/ TimerExpires("dying") \/ TimerDeleted
  \/ ButtonEvent \/ RpcPair \/ HealthChanges \/ PowerDown
  \/ Reboot

Spec == Init /\ [][Next]_vars

\* The scheduler is preemptive with time slices between equal priorities, and
\* every task here blocks after a bounded amount of work, so each keeps running;
\* a 15 s timer that was started runs out, and one told to stop is deleted or
\* runs out. Clients, buttons and supplies promise nothing.
Fairness ==
  /\ WF_vars(ConsumerReceive) /\ WF_vars(Handler) /\ WF_vars(Tick)
  /\ WF_vars(TimerExpires("live"))
  /\ WF_vars(TimerDeleted \/ TimerExpires("dying"))
  /\ WF_vars(Reboot)

FairSpec == Spec /\ Fairness

-----------------------------------------------------------------------------
(***************************************************************************)
(* Properties.                                                             *)
(***************************************************************************)

\* What HeaterRun calls the phase of the current task.
RunTask  == IF app \in TaskStates THEN app ELSE "none"
RunPhase ==
  IF active THEN "burning"
  ELSE IF app \notin TaskStates THEN "out"
  ELSE IF hpc \in {"enter", "activate"} THEN "starting" ELSE "over"

Run == INSTANCE HeaterRun
         WITH Tasks <- TaskStates, NoTask <- "none",
              task <- RunTask, phase <- RunPhase, down <- panicked

\* The machine, the heater task and their races implement the promise of
\* HeaterRun: however a stop and a tick interleave, no task is entered before
\* the last one is extinguished, and an ended task never ignites again.
RunsInOrder == Run!RunSpec

\* The heater task machinery is switched on only inside the state that owns
\* it, whichever task is half way through a start, a stop or a tick: a task is
\* active only in a task state, the ADRC is on only in a closed-loop state and
\* the iterator is the one of the current state, never of a state left behind.
RunConfined ==
  /\ active => app \in TaskStates /\ hpc \in {"none", "exit", "energize"}
  /\ iterator # "none" =>
       iterator = app /\ hpc \in {"none", "exit", "stop2", "activate", "energize"}
  /\ control => app \in ClosedLoop /\ hpc \in {"none", "exit", "stop2", "stop3"}

\* Clients can pair exactly while the application is in BONDING (bonding.cpp
\* opens the window on entry and closes it on exit), except inside the entry.
PairingWindow ==
  pairing <=> app = "BONDING" /\ hpc # "enter"

\* A message of type m is queued.
Waiting(m) == \E i \in DOMAIN queue : queue[i] = m

\* BONDING can end without the user: its timer has not expired yet, or the
\* BondOff it posted is queued. The exceptions are two: a full queue has dropped a
\* BondOff, or the timer of this window could not be created or started.
BondingCloses ==
  app = "BONDING" /\ hpc = "none" =>
    \/ "live" \in timers
    \/ "failed" \in timers
    \/ Waiting("BondOff")
    \/ "BondOff" \in lost

\* A task state whose task has ended is about to be left: the heater task is
\* still finishing it, or the Stop{true} it posts once is queued, or a full
\* queue has dropped that Stop{true}.
FinishedRunLeaves ==
  app \in TaskStates /\ hpc = "none" /\ ~active =>
    \/ kpc \in {"fin2", "fin3", "report"}
    \/ Waiting("StopOk")
    \/ "StopOk" \in lost

\* No transient state is a dead end unseen: what ends it is on its way, was
\* dropped by a full queue, or is the timer the window opened without.
AlwaysAWayOut == BondingCloses /\ FinishedRunLeaves

\* "One short press - stops the run" (doc/user_manual.md:50): with no run, no
\* transition and no tick under way, the heater is given no power.
StoppedIsUnpowered ==
  app \notin TaskStates /\ hpc = "none" /\ kpc = "sleep" => power = 0

\* While no closed-loop task is ever run it holds, whatever interleaves with the
\* stop: the race of a tick that regulates is the only one.
OpenLoopStops == [](app \notin ClosedLoop) => []StoppedIsUnpowered

\* "A task can have a custom iterator; execute it if needed"
\* (heater_control_base.cpp:107): the iterator the tick is about to call, having
\* tested it, is there.
IteratorIsThere == kpc = "invoke" => iterator # "none"

\* Whatever is lost on the way, a run whose supply or head stays bad ends: the
\* tick repeats Stop until the task is gone.
BadHealthEndsRun == (active /\ ~healthy) ~> (~active \/ healthy)

\* Bonding ends on its own, unless a full queue dropped the BondOff or the window
\* opened without a timer.
BondingEnds ==
  (app = "BONDING") ~> (app # "BONDING" \/ "BondOff" \in lost \/ "failed" \in timers)

\* A run that ended by itself is left, unless its Stop{true} was dropped.
FinishedRunEnds ==
  (app \in TaskStates /\ hpc = "none" /\ ~active)
     ~> (app \notin TaskStates \/ "StopOk" \in lost)

\* Both transient states are left in the end.
StatesEnd == BondingEnds /\ FinishedRunEnds
=============================================================================
