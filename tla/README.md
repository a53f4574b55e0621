# Reflow Micro: a formal model

Reflow Micro is a USB-PD hot plate for soldering: an ESP32 firmware
(`src/firmware/src`, C++ on FreeRTOS) and a web application
(`src/webapp/src`, TypeScript) that drives it over Bluetooth LE. This directory
holds TLA+ modules of its core logic, TLC configurations that check them on
small instances, and TLAPS proofs about them.

Paths below are relative to the root of the repository; `fw/` stands for
`src/firmware/src/` and `web/` for `src/webapp/src/`.

## 1. Inventory

| Component | State | Operations | Talks to |
|---|---|---|---|
| **Application** `fw/app.*`, `fw/app_states/*` | state of an `etl::fsm`, last command, 16-slot `message_queue`, `message_lock` | `receive` (RPC task or queue consumer, under the lock), `enqueue_message` (any task, never waits), entry and exit of Idle, Reflow, SensorBake, AdrcTest, StepResponse, Bonding | calls the heater; fed by buttons, RPC, timer, heater task |
| **Heater task** `fw/heater/heater_control*` | `is_task_active`, `task_iterator`, `temperature_control_enabled`, setpoint, ADRC, start time | `task_start`, `task_stop` (callers' tasks), `tick` every 50 ms (its own task, no lock), health, temperature limits, fan, indicator | writes the power target; posts `Stop` |
| **Power supply** `fw/heater/power.*`, `pwm.*`, `drain_tracker.*`, `app_dpm.*` | contract FSM, PDO table, DPM trigger flags, duty, measured drain | negotiate, calibrate, change contract, fault; `set_power` | USB-PD stack callbacks, profile selector, load switch |
| **Profile selector** `fw/heater/profile_selector.hpp` | PDO table, strategy, current index | `load_pdos`, `set_pdo_index`, `better_pdo_available` | power supply; strategy set by Reflow |
| **Heater head** `fw/heater/head.*`, `fw/components/eeprom_store.*` | attach FSM, head parameters, EEPROM record with CRC | attach, detach, read and write parameters | heater task, RPC |
| **Preferences** `fw/lib/async_preference.hpp`, `data_guard.hpp`, `fw/components/prefs.*` | value, version, snapshot, pending flag, NVS key | `get`, `set`, in-place update, `tick` of the writer task | flash (NVS) |
| **Reflow profiles** `fw/components/profiles_config.*`, `fw/app_states/reflow.hpp` | selected profile, timeline | get/set profiles, `get_target`, `get_rate` | preferences, Reflow state |
| **RPC link** `fw/lib/ble_chunker.hpp`, `fw/rpc/rpc.cpp`, `session.*`, `web/lib/ble/*` | client: call queue, message id, attempt; device: a session with a chunker per connection | cut, write, reassemble, run, read back, retry, connect, disconnect | BLE stacks |
| **Authentication** `fw/rpc/api.cpp`, `auth_utils.*`, `ble_auth_store.hpp` | per-session random and flag; four client slots with timestamps; pairing window | `auth_info`, `authenticate`, `pair` | two preferences, application (`BondOff`) |
| **RPC methods** `fw/rpc/api.cpp` | none | run/stop, status, settings, profiles, head | application, heater, preferences |
| **History** `fw/lib/sparse_history.hpp`, `web/device/sparse_history.ts` | sparse list of points, version | add, pages of `get_history_chunk`, merge in the client | heater task, RPC |
| **Button** `fw/lib/button_engine.hpp` | debounce and click FSM | `tick` | application queue |
| Indicator, sound, fan | output only | | |
| RPC dispatcher, logging, generated code, web UI, virtual device, mechanics | see `PROJECT.json` | | |

How they interact. A client's call arrives in the BLE host task, which
reassembles it, dispatches it and, for a `run_*` or `stop`, calls
`App::receive` right there under `message_lock`. Buttons, timers and the heater
task instead post to the queue, and a consumer task calls `receive`. The state
machine starts and stops heater tasks by three or four unsynchronised stores
that the heater task reads on its next tick. Settings go through preferences,
which a low-priority task copies and writes to flash without ever locking.

What is hard here:
* *Interleaving.* Only `receive` is locked. The tick of the heater, the end of a
  reflow (which calls `task_stop` from the heater task), the timer service and
  the copy of a preference are not.
* *Bounded queue.* Messages are dropped silently when it is full, and some are
  sent once.
* *Failure.* NVS writes fail, power is lost at any time, chunks and connections
  are lost in the middle of a call, and the client must not run a command twice.
* *Stale plans.* A supply may send new capabilities, reject, reset or be unplugged
  between any two steps; a plan, a measurement or a request made before is still
  there. So is a page of the history, a random or a secret in a client.
* *Timing out.* The bonding window ends by a timer whose cancellation is itself
  asynchronous; a dead supply must end a run.

What makes each component correct:
* application and heater: one run at a time; nothing of a run survives it; a
  stopped device is not powered; no state is entered that nothing can leave; the
  pairing window is open in Bonding and only there;
* preferences: flash holds a value that was set as a whole, never an older one
  than before; what is set reaches flash;
* link: what runs is a whole request, once; an answer belongs to its call;
  every call ends;
* authentication: a pairing stands until another drives it out, and it is the one
  used least recently that goes; nobody knocks for ever with a secret that is void while
  the device has a session for it;
* power and selector: the load is off during a change of contract; it is driven
  by a plan for this head and this contract; the chosen profile is not overloaded,
  delivers what is asked for and is not given up again at once;
* head: a head keeps its own settings, as they were given as a whole; what a
  client was told to be set is stored;
* history: a client that keeps asking ends with the log of the device.

The hazards, each with its line and the properties aimed at it, are in
`PROJECT.json` (`hazards`).

## 2. Plan

Done, in order of importance:
1. `HeaterRun` / `HeaterApp` - the application, its queue, the heater task, the
   bonding timer. Proofs in `HeaterAppProofs`.
2. `DurableCell` / `AsyncPref` - preferences. Proofs in `AsyncPrefProofs`.
3. `RpcCalls` / `BleLink` - the link between client and device. Proofs in
   `BleLinkProofs`.
4. `HeadStore` - head FSM with the EEPROM record under failures, other heads and
   power loss. Proofs in `HeadStoreProofs`.
5. `PdoSelect` - the profile selector as operators, on which `PdoChoice` (the
   choice over time, with the pulses of `PwmDuty`) and `PowerSupply` (the contract
   FSM with the PD stack, the load switch and the measurement) are built. Proofs in
   `PdoChoiceProofs`, which has the lemmas about the operators too, and
   `PowerSupplyProofs`.
6. `AuthStore` / `BleAuth` - the store of clients as operators, and on it sessions,
   pairing and the loops of several clients. Proofs in `BleAuthProofs`.
7. `HistorySync` - pages of the sparse log against a growing log. Proofs in
   `HistorySyncProofs`.

Left:
* `ButtonEngine` - gestures against the press times that make them.

## 3. Modules

### `HeaterApp` (implements `HeaterRun`)

Three tasks share one core and preempt each other anywhere, so each access to a
shared variable is one action.

| Model | Code |
|---|---|
| `app`, `next`, `owner`, `hpc`, `cmd` | state of the fsm, target of the running transition, holder of `message_lock` and its place in the handler, `last_cmd_data` |
| `queue`, `lost` | `message_queue`; `lost` records dropped types (history variable) |
| `active`, `iterator`, `control`, `power` | `is_task_active`, `task_iterator`, `temperature_control_enabled`, `Power::target_power_mw` |
| `kpc`, `kpower` | place of the heater tick; the ADRC output on its stack |
| `pairing`, `timers` | `pairing_enabled_flag`; one-shot timers of bonding windows: `live`, `dying` when they were told to stop (the command is still queued, or was refused), `failed` when the window opened without one |
| `healthy` | `get_health_status() = DEV_OK` |
| `Receive`, `ExitState`, `StopIterator`, `StopPower`, `EnterState`, `Activate`, `Energize` | `App::receive` and the transition it makes, store by store |
| `TickHealth` ... `TickFinish` | `HeaterControl::tick`, with the end of a reflow inside the iterator |
| `TimerExpires`, `TimerDeleted`, `RpcPair`, `ButtonEvent`, `HealthChanges`, `PowerDown` | the environment; `PowerDown` is what `Power` does to the rest when it enters Off or Initializing: no target, and a `Stop` in the queue |
| `Reboot` | abort, then a restart: none of this state is in flash |

Abstractions. Power levels are a set `Watts`, the ADRC may ask for any of them.
A command is named after the state it asks for. Of the button events the queue
carries those that some state reacts to; the others would only occupy slots,
and a smaller `QueueSize` stands for that. A consumer that waits for the lock
with a message in hand keeps it at the head of the queue in the model. Whether a
profile is selected, and whether the bonding timer can be created and started
(`bonding.cpp:11-17` does not look), are free choices on entering Reflow and Bonding. Clients, buttons and
health changes come in any order, up to `MaxInputs`.

`HeaterRun` is the promise to a client: a task is entered, may ignite once, is
extinguished, and is left before another is entered. `RunsInOrder` is the
refinement of it by a mapping from `app`, `hpc` and `active`.

### `AsyncPref` (implements `DurableCell`)

A value is a function from `Words` to the number of the update that last wrote
the word, so a torn value and an old one are both visible. The user's update
(`ValueUpdateBegin`, `WriteWord`, `ValueUpdateEnd`) interrupts the writer's
`Tick`, `CopyWord`, `Accept`, `Save` anywhere. A save may fail, and a failed
commit may have stored the value. `PowerCut` keeps only `kv`: left out is that a start
erases an NVS that it cannot open (no free pages, or of a new version,
`prefs.cpp:25-28`). Reads of the NVS do not fail. `DurableCell` is a cell in memory and one on disk: a copy is taken
at an instant, stored later, and may be stored again.

### `BleLink` (implements `RpcCalls`)

One client and one device. `Write`, `Acknowledged`, `ReadFirst`, `ReadMore`,
`GiveUp` and `Retry` are the steps of `BleClientChunker.sendOne`; `Consume` and
`ResponseChunk` are the two entry points of `BleChunker`. A payload is the pair
of its call and place, so that a response that mixes calls is visible. The link
loses writes without response, rejects operations before or after they take
effect, drops and comes back with a new session. `RpcCalls` says that a call runs
at most once, never after a later one, and is answered only if it ran.

### `HeadStore`

The Head task runs every 200 ms: `TakeSnapshot`, `WriteHeader` and `WritePage` are
the write at the start of `task_loop`, then `run()` takes one of `Detached`,
`LoadHeader`-`LoadPage`-`LoadEnd` and `Attached`. Every I2C operation is a step of its own,
fails on an empty socket and may fail on a head. `SetPoint` and `SetAll` are RPC
calls; they run in the BLE host task, which nothing here preempts, so each is
one step. A step response in the heater task is preempted between its `TuneGet`
and `TuneSet`.

| Model | Code |
|---|---|
| `plugged`, `header`, `pages` | the head in the socket, the EEPROM of each head |
| `status`, `misses`, `hpc`, `left`, `crc` | `head_status`, `probe_fail_count`, place of the Head task inside `EepromStore` |
| `params`, `dirty`, `snapshot` | `head_params.value`, a version not yet copied, `head_params.snapshot` |
| `tuner`, `held` | the step response; `HeadParams p` on its stack |
| `mine`, `made`, `told` | history: the head the parameters came from, what each head was given, the calibration it owes |

Abstractions. Settings are groups (`Parts`), each a page and the number of the
change that made it. A CRC matches exactly the data it was made from; a
bad magic or size is `Blank`. The seqlock under the snapshot is `AsyncPref`'s.
Two assumptions on timing: a head is plugged in only after the loss of the last
one was noticed (a swap within 600 ms is not noticed by the code), and the
heater's four ticks between two probes end the step response on a lost head.

### `PdoSelect`, `PdoChoice`, `PwmDuty`

`PdoSelect` has no state: each operator is a function of `ProfileSelector`, over a
table of descriptors, with the code's integer divisions in the code's order.
Profiles are counted from 1 (`current_index + 1`, the position that PD uses).
`isqrt64` is a recursive function, bit by bit as in the code, but for 16 digits
where the code has 32: as many as TLC's integers hold. `Rootable` says what they are
enough for.

`PdoChoice` puts the selector to work. `Regulate` changes the target (`wanted`),
`Drift` the resistance of the heater (it triples as it warms up), `Switch` follows a
plan, as `Power` does; `PlannedPulse` makes the pulses of the planned duty with the carry of
`PwmPulse_state`. TLC's integers have 32 bits like the code's; they would report an
overflow.

### `PowerSupply` (extends `PdoSelect`)

Three tasks: the PD stack, which calls the FSM's handlers; the heater task, which
sends it a `SysTick`; and the PWM task. The FSM has one lock, so a handler is one
step, but for the capabilities, where the code gives the lock up in the middle
(`SrcCapsLoad`, `SrcCapsReceive`).

| Model | Code |
|---|---|
| `st`, `updating`, `prevMv`, `nextMv`, `feedback` | state of `Power`, `is_apdo_updating`, `prev_apdo_mv`, `next_apdo_mv`, the resistance that `last_feedback` gives |
| `target` | `target_power_mw`, written without the lock (`SetPower`) |
| `offer`, `current` | `profile_selector`: whose descriptors it has, `current_index` |
| `trigger`, `request` | what `AppDPM` asks for: position and voltage; whether it asked |
| `pe`, `asked`, `contract`, `handshake` | the stack (external): what it does, the request under way, the contract in force, `HANDSHAKE_REPORTED` |
| `pwm`, `enabled`, `duty`, `batch` | state and flag of `Pwm`, the plan its duty is of, the profiles of the samples of this pulse |
| `info`, `head` | `DrainTracker::info`, the head in the socket |
| `dutyFor`, `missed` | history: the head of the plan; capabilities that came during `Calibrate`, where the FSM takes no notice |

A list of PDOs has at most `MaxPdoObjects` entries, the extended ones from position 8
on included. What Off and Initializing post to the application is `PowerDown` of
`HeaterApp`; `PowerSupply` leaves it out. `Stack` is the source that answers, `Source` the one that resets, rejects, sends
new capabilities or is unplugged. An entry action (`EnterWait`, `EnterCalibrate`, ...)
is one operator, used by every handler that changes to its state. Two assumptions:
a source does not reject the default contract, and hands are slow (a head is
plugged in after the loss of the last one was noticed).

### `AuthStore`, `BleAuth`

`AuthStore` has the operations of `BleAuthStore` as functions of its two tables:
`Created`, `Stamped`, the search for the least recent. In `BleAuth` the tables are in
memory and, saved one after the other, on disk (`SaveClients`, `SaveStamps`).

| Model | Code |
|---|---|
| `clients`, `stamps`; `diskClients`, `diskStamps` | `clientsPref`, `timestampsPref`; their records in flash |
| `pairable`, `timer`, `inbox` | `pairing_enabled_flag`, the bonding timer, the queue's `5x`, `1x` and `BondOff` |
| `session`, `auth`, `random` | the session of a client's connection, `authenticated`; the client holds the random it has now |
| `cpc`, `secret` | place of `BleRpcClient.loop`/`authenticate`, the secret in `localStorage` |
| `now`, `used`, `torn` | clock of the clients; history: when a client was last let in, a power cut between the two saves |

A call is one step (`AuthInfo`, `Pair`, `Authenticate`), or one whose answer is lost
with the connection (`PairLost`, `AuthenticateLost`): `BleLink` is what justifies it.
An HMAC matches when random and secret do. `Fast` clients have a clock that is
ahead. The device has `MaxSessions` sessions (`session_pool`): when `PoolFull`, it
disconnects who connects, whether the others are authenticated or not, and nothing
throws these out. So `HoldersGetIn` promises a client that holds a secret to be let
in, or to learn that the secret is void, unless all sessions are held by others
(`KeptOut`). A window may open without its timer, as in `HeaterApp`. Two tabs of one
browser, which share the secret, are not modelled.

### `HistorySync`

Three tasks meet at the device's log. `add` and `get_history` take its lock;
`task_start`, which clears it, and `tick`, which reads the time of a point before, do
not. So the start of a run is `ClearLog`, `CountRun` and `FirstPoint`, a tick is
`TickReads` and `Record`, an answer is `Answer` (the points) and `Fill` (the version,
read again).

| Model | Code |
|---|---|
| `data`, `version`, `active`, `seconds` | `history`, `history_version`, `is_task_active`, `history_last_recorded_ts` |
| `begin`, `tick` | place of `task_start`; the second a tick holds, and the run it read it of |
| `chart`, `cver` | the points and the version the client has |
| `fpc`, `req`, `answer` | place of `fetch_history` and of the device's answer; the call under way |
| `run`, `shown`, `late`, `mixed` | history: see below |

`Ask`, `Replace`, `Merge` are `fetch_history` before and after its await, `Attach` the
user who leaves the backend and returns in between, `Fail` a call that throws, `Reboot`
a restart, after which versions begin again. Both sides pack points by the same rule
(`Packed`), but the device divides integers and the client floats. `run` counts runs
where `version` begins again; `shown` is the one the chart was begun with. `late` says
that a tick of the run before has put its point into this run's log. `mixed` records
a chart that was put together of answers that do not fit: from another run of the
same version, or the rest of a page that was asked before the user came back. What
the virtual device leaves in the chart between leaving and coming back is left out.
`MaxChart` bounds a chart that has no end (see *Met while modelling*).

### `MC*` modules

They give TLC the values that a `.cfg` cannot write.

## 4. Runs

| Run | Checks | Bounds and why they are enough |
|---|---|---|
| `heater` | type, confinement, no stranded state (`AlwaysAWayOut`), refinement of `HeaterRun`; bad health ends a run, bonding ends and a finished run is left (`StatesEnd`); without closed-loop runs a stopped heater has no power | two queue slots, so it fills up and drops; on/off power; all tasks and gestures; 4 inputs: start, stop, start again and one more to interfere; timers that fail and stops that are refused. 348 000 states |
| `heater_stoprace`, `heater_iterrace` | the two races below | reflow only, 3 inputs |
| `pref` | type, refinement of `DurableCell`, no rollback; repeated until stored; saved in the end while no write fails | two words (a copy can be torn), 3 updates, 2 failed writes, 2 power cuts: an update during a copy, another before its repetition, and one after the restart |
| `pref_stuck` | the disagreement below | 2 updates, 1 failure |
| `link` | type, whole requests, own answer, refinement of `RpcCalls`; every call ends, lost chunks alone never fail one | requests of 2, 3 and 1 chunks, responses of 2, 0 and 1; ids modulo 4; 2 losses, 2 rejections, 2 drops |
| `head` | type, heads keep their own, only those are used; a pulled head is noticed, one that stays comes into use; the calibration a client was told is stored while nothing fails | two heads, two pages, two changes, a step response, 3 failures (three in a row detach a head), 2 insertions, 1 power cut, which may tear the record |
| `head_unsaved` | the disagreement below | one head, one failure |
| `select` | the plan is possible, within the current, delivers what is asked, serves the target if any profile can, stays; the pulses add up | eight chargers (fixed only, PPS, two PPS of which one ends at 5.9 V, a PPS about as strong as the fixed profile beside it, AVS, EPR with holes), 11 heaters of 1.1 to 30 Ohm, 15 powers on and around the borders of the reserves: for these all starting points of the search are met. 59 000 states |
| `power` | type and load, plan for the head, duty for the contract, changes unloaded, settling | a phone's charger with PPS and a big one with 28 V at position 8, behind the holes that extended lists have; heads of 3.5 and 7 Ohm; targets of 0, 15 and 80 W, so that the head of 7 Ohm takes the 28 V and gives them up again; one each of new capabilities, rejection, reset and change of the target, two insertions. Any two of the faults meet, in either order. 607 000 states |
| `auth` | type and unique ids, pairings stand, least recent goes, holders get in | 2 slots, 2 sessions and 3 clients, so that one is driven out and one kept out; one clock ahead by 2 of 3 units of time; 3 pairings, 2 gestures, 1 fault. 164 000 states |
| `history` | the chart is the log, and catches up | 2 temperatures, 4 s, pages of 2 and a log of 3 points, so that pages are cut and the log is full; 2 runs, 1 fault, which may be a run that begins in the middle of a tick or of an answer. A chart that is neither `late` nor `mixed` stays below `MaxChart`. Times from which the two sides divide differently lie beyond these 4 s: that they do no harm is shown by the proof only. 990 000 states |

`CHECK_DEADLOCK FALSE` stands where the system may rest: a preference whose
value is saved, a client that has made all its calls, a page that has closed, a
supply with no head, a chart that nobody asks for.

Fairness. FreeRTOS is preemptive and slices time among equal priorities, and
every task of the firmware blocks after a bounded amount of work, so the
handler, the consumer, the heater tick, the Head task and the prefs task are weakly fair, and
so is the end of a bonding timer: one that was started expires, one that was told
to stop is deleted or expires. Nothing is assumed of users, clients,
supplies or of the success of a write beyond `MaxFails`. On the link, delivery,
the client's loop and its reconnection are weakly fair; losses, rejections and
drops are not. In `PowerSupply` the ticks, the PWM task and a source that answers
are fair; in `BleAuth` the timer, the queue's consumer and the page of a client
that holds a secret (whether others come is up to their users, and `Connect` is
possible only while a session is free); in `HistorySync` the page's timer, the
answers, and `task_start`, which goes on though answers come between (strong
fairness: the lock passes to who waits for it).

### Disagreements with the code's own words

* `heater_stoprace`: `doc/user_manual.md:50` says a short press stops the run. A
  tick that holds an ADRC output across the stop writes it to the power
  afterwards (`heater_control_base.cpp:93`), and with no task nothing takes it
  back.
* `heater_iterrace`: `heater_control_base.cpp:107` says the iterator is executed
  if there is one. Between the test and the call, `task_stop` can clear it, and
  calling the empty function aborts the firmware.
* `pref_stuck`: `async_preference.hpp:169` says that after a failed write the old
  data is written first and the snapshot is postponed to the next call. The flag
  is never cleared, so the next call never comes.
* `head_unsaved`: `doc/calibration.md:11` says a head keeps its settings and needs
  one calibration. One failed page write leaves the EEPROM without valid
  settings; it is logged and never repeated (`head.cpp:145`).

Met while modelling, and stated by the properties as exceptions, because nothing
that a run could quote contradicts them or because they are harmless:
* The bonding window may open without a timer: `bonding.cpp:11-17` ignores that it
  could not be created or started ("best-effort"). Then nothing but the user ends
  it. `failed` in `BondingCloses` and `BondingEnds`.
* Another run may start between a tick's look at the clock and its `add`
  (`heater_control_base.cpp:77-104`, `task_start` at 119). The tick adds its point, of the
  time of the old run or of one that wraps around, to the new log. The log's times
  then go back, or nothing is recorded any more; in a log whose times go back a client
  that asks for what follows its last point may be given the same page for ever.
  `late` in `ChartIsTheLog` and `CatchesUp`.
* An answer may carry the version of a run that starts after its points were found
  (`heater_control_base.cpp:44`). The client then shows points of the old run as those of the
  new, and merges what follows: `mixed`.
* A calibration that a client sets while a step response ends may be overwritten:
  the step response writes back all settings as it read them
  (`step_response.cpp:155`). `CalibratedUnlessFailed` excludes it.
* Capabilities that arrive during `Calibrate` are ignored (`power.cpp:106`): the
  load stays on through the contract that follows, and a change that the next
  tick begins takes the earlier `PS_RDY` for its own, so that the contract changes
  under load once more. `missed` in `ChangesUnloaded` and `DutyFitsContract`.
* `profile_selector.hpp:192` says the reserves prevent oscillation near profile
  boundaries. They do, but for two borders that have none. An AVS profile is given
  up below 103 % of the power at its lowest voltage and taken again right above
  (`profile_selector.hpp:291`; a PPS begins at 5 V and has no such border). And where
  every profile is too weak for the target, the strongest is taken whatever it has
  more (`profile_selector.hpp:325`): a 20 V, 3.25 A profile and a PPS of 21 V, 3 A
  change places at 6.5 Ohm and 64 W whenever the heater drifts by a hundredth (the
  charger `Cross` of the run `select`). `NoTraps` and `Servable` in `NoOscillation`
  leave these out.
* An adjustable profile is raised to 6 V after its current limit was considered
  (`profile_selector.hpp:251`). See `WithinCurrent`.
* It is raised to 6 V even if it ends below that: where a PPS of 5.9 V stands beside
  one that reaches 6 V, the charger is asked for a voltage it has not offered. See
  `ChoiceExists`; the charger `Dual` of the run `select` has the case. The chargers
  that `doc/bom.md:44` asks for do not.
* At a target of 1 mW the choice may go on by itself from a profile of 2 mW, which
  no charger has (all powers are whole mW): `PlanSettles` leaves that target out.
* A client that was paired and not yet let in has the timestamp 0 of a free slot:
  the next pairing overwrites it although slots are free (`ble_auth_store.hpp:68`).
* After a restart `history_version` begins again at 0: a client that has a chart
  of the same version merges the two runs (`mixed`). Past 800 s the client's rule
  for landed points differs from the device's (`Early`).

## 5. Proofs

TLAPS checks the theorems for every queue size, set of power levels, set of
words, heads, clients, slots, chargers, loads, targets, calls and their lengths,
and for every number of inputs, updates, failures and cuts. Assumptions are the
named `ASSUME`s of the modules, which say what the constants are and no more. Of
chargers they say what USB PD lets a source send (`WellFormed`: 5 V first, fixed
voltages ascending, currents of ten bits, holes anywhere), in lists of up to
`MaxPdoObjects` profiles, however many these are (the library's 11 with the extended
ones), and of adjustable profiles that they have
some range with at least 5 V at its top.

`HeaterAppProofs`. `RunConfined` and `PairingWindow` are not inductive alone: they
need `HolderInv` (lock and program counter agree; the middle of `task_stop` and
`task_start` is only reached in a task state), together `IInv`. `BondingCloses`
and `FinishedRunLeaves` (together `AlwaysAWayOut`) need to know where the one message that ends the state is
on its way, or that the window has no timer; `ClosingInv` and `LeaveInv` state it for every place of the handler
and the tick, and the queue lemmas (`EnqueueKeeps`, `TailKeeps`) say that a message
in the queue stays or is dropped and recorded. `RunsComeInOrder` is the step
simulation under these invariants. `OpenLoopStops` follows from `OpenInv`: as long as
no closed-loop task is run, the control is off, no tick holds an ADRC output, and
there is power only in a task state.

`AsyncPrefProofs`. `CopyInv` says what a copy in progress has: every word copied so
far is current, or the version has moved. With the parity of the version it
makes an accepted copy equal to the value as of the last complete update, which
is the step `Take` of `DurableCell`. `NeverRollsBack` needs `AgeInv`: the NVS is
word by word not newer than the snapshot to be written, nor that than memory.

`HeadStoreProofs`. `HeadKeepsOwn` and `UsesOwn` are about what is stored and what is
used, but what is stored comes from memory and what is used from the EEPROM, and
heads change in between. `Whose` says for each place where settings are under
way (memory, snapshot, a read, a step response) that they belong to the head
that is, or was last, in the socket, and that nothing is under way when another
comes (`Plug`); it is inductive with `TypeOK`, which in turn needs its bound on the
failed probes.

`BleLinkProofs`. What makes an answer the call's own is that ids wrap: a chunk or a
session left over from an old attempt must not carry the id of the new one.
`LinkInv` bounds, for everything on the wire and in the session, how far its id
lies behind the client's by the rejections there have been (`Near`); chunks of one id
are of one call (`Same`), and what the device has of the client's current id is its
own request (`Mine`). With the assumption that the id space is larger than the
number of rejected operations, `NextIsFresh` then says that a new id is nobody else's. Every
assembled request is a prefix of one request, and whole when its last chunk is
accepted.

`CallsRunAtMostOnce` is the step simulation of `RpcCalls`. The danger is a last chunk
that arrives when the call it belongs to has run already, or a later one has.
`OnceInv` adds to `LinkInv` the order on the wire, which never carries two messages of
one call (`Ordered`, `Latest`), that a session does not come back to an id it has left
(`InTurn`), and from them `Fresh`: each chunk on its way is of a message that the session
skips, or of a call after all that ran. A step of the device that accepts a last
chunk is then the abstract `Run`, the end of a read is `Answer`, giving up is `Fail`, and
all others but a new call stutter.

`BleAuthProofs`. `StoreOK` follows from the lemmas on `Created` (the slot of an id is
found if there is one) and `Stamped`, for the tables and for their copies on disk.
For `PairingsStand` it takes `RandomHeld`: a client about to authenticate holds the
random its session has, whatever connections and calls came between; so a
refusal can only mean that the secret is not the device's. `LeastRecentGoes` relates
the two tables by `StampsFollow`: the stamp of a client is the time it was last let
in, or up to a day older, unless its clock is ahead or a power cut came between the
two saves; `LRUFound` says that the search finds the slot with the least stamp.

`PowerSupplyProofs`. `HeadInv` ties the load to the states that may have it, the
measurement to the head and the plan to both. `QuietInv` is about the stack: while
the load is on and nothing was missed, any request that is pending or under way
is for the profile in force, so that the only transitions are those of an
adjustable profile's voltage. It says for each state of the FSM which requests
can be left (none in Ready without an update, one in WaitContractChange, ...).
`DutiesFit` needs both, with the invariant of the same name: while the load is on and
nothing was missed, the duty is of the profile in force. `SupplyIsSafe` proves the types, for
which the lemmas on `LoadPdos`, `Default`, `Usage` and `BetterPdo` say that tables,
positions, voltages and duties stay in their ranges.

`PdoChoiceProofs`. The state of `PdoChoice` is little and its
invariant short: the types, and `CarryIsOwed`, which ties what the heater is owed to
the carry of the load switch, and from which `DutyIsGiven` follows for any number of
pulses, since above the shortest pulse the clamps never cut (`CarryExact`). The rest is
about the operators:
* what the searches return (`ScanUpFinds`, `ScanDownFinds`, `BetterFound`): a known
  profile within its margin, and one that serves if any does (`ServedAlways`);
* that a search from where the last one ended comes back to it (`PlanIsKept`): a
  profile that was taken passes the looser tests by which one stays;
* that a change of target and load by a hundredth each does not lead back to the
  profile that was left (`NoTurningBack`, and with the former `PlanStaysAlways`). A
  quotient, a product and a power move by a hundredth and the rounding
  (`QuotientDrift`, `ProductDrift`, `PowerDrift`). The reserves to take a profile and to
  leave it are 2 % of the current and 5 % or more of the power apart, from 20 mW on
  more than that: a profile left as too weak stays too weak to go down to
  (`StillWeak`), the one that was taken still serves (`StillServes`) and keeps its
  current (`MarginDrift`, `TakenHasMargin`);
* that the root is the root (`IsqrtIsRoot`): at each bit, what is left is below
  twice the partial root plus the square of the last bit (`RootAbove`). Induction being
  out of reach, the proofs take the least number of digits at which a claim fails
  (`LeastNumber`, from the well-foundedness of `<`), and refute it by one step of `Root`;
* what rounding costs: `RootShort` for the voltage, `DutyShort` for the duty,
  `MarginCurrent` and `RootCurrent` for the current (`PlanDelivers`, `CurrentIsKept`), each
  by lemmas on products and quotients of naturals, with the terms named and hidden so
  that no prover meets two products at once. That not less than asked is delivered
  is stated for numbers with as many digits as the model's root has (`Rootable`).

`HistorySyncProofs`. What a client has was read at another time than the log is looked
at, and before its last point the log never changes. `Behind` says that one log may have
become another since: the same up to its last point, and that one the same, or
replaced by a later one because it had not landed. It is transitive
(`BehindOn`), and whatever `add` does to a log leaves it ahead of what it was
(`LogGoesOn`). The invariant says of the chart that it is `Behind` the log, or, once its
points are so late that the two sides divide differently, agrees with it on all
earlier ones (`Shows`), as long as the log is `Whole`: no late tick has put a point into it
and it is not cleared for the next run; of an answer on its way that the chart with it is
(`GoesOn`), and of the request that what it says of the chart stays true. `GoesOn` comes
from `PageGoesOn` (the points that `get_history` skips are the chart's but for its last,
`SkippedAre`) and outlives what the log does meanwhile (`GoesOnOn`). That merging such
an answer gives a chart that shows the log (`MergedShows`) is an argument point by
point: the client's packing does again what the device's did
(`MergedEarly`, `LandsAlike`). `WebAdding` is a recursive function; that it exists and
what its values have in common is shown with `Upward`, a set that has 0 and with every
number the next (again from `LeastNumber`). Runs are counted (`RunsInv`), so that
no two are taken for one after a restart; what a run that is begun finds of the
last one is `BeginInv`, and that an answer does not take the version of a run for the
run it is of is `PagedInv`. `ChartOK` leaves mixed charts out; `AnswersFit` shows that this
is an exception for faults only: before the first restart, failed call, return to the
backend or run begun in the middle of a tick or an answer there is none.

Some properties say less than their names might suggest. `DutyFitsContract` compares the
position of the plan with the contract's, not the voltage of two plans of one
adjustable profile. `PlannedForHead` compares heads, not the profiles of the samples that
make a measurement. What `EachCallEnds` says of failures (only after a rejection or a
drop) is weak once there was one. `OpenLoopStops` is about behaviours without any
closed-loop run; `heater_stoprace` has the others. `EvictsLeastRecent` leaves out a power cut
between the two saves (`torn`).

With these proofs, every safety invariant and every refinement that a passing run
checks is proved.

Only model-checked:
* all liveness properties (fairness and `ENABLED` are out of the prover's reach):
  `BadHealthEndsRun`, `StatesEnd`, `SavedUnlessFailed`, `Repeated`, `EachCallEnds`,
  `GoneIsNoticed`, `ComesIntoUse`, `CalibratedUnlessFailed`, `SupplySettles`, `HoldersGetIn`,
  `CatchesUp`;
* the violations.

## 6. Not modelled

* Floating point: conversions (RTD, ADC), ADRC gains, the timeline of a profile.
* The erasing of an NVS that cannot be opened (`prefs.cpp:25-28`); two tabs of one browser
  that share a client's secret.
* Reads of the NVS and of the INA226 that fail; the wrap of 32-bit counters that
  take years.
* `Power::get_max_power_mw` reads the table of profiles without the lock
  (`power.cpp:401`), for the status only.
* `ProfileSelector` keeps a power strategy, and `Power` two plans for its feedback,
  that nothing reads: no property is about them.
* The button engine: any gesture may come at any time instead.
* The refusal of other methods before a session is authenticated; other device
  ids in a client's storage.
* Drawing, sound and logs; the CBOR codec; generated and vendored code; the web
  interface and the virtual device.
