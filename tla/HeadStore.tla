----------------------------- MODULE HeadStore -----------------------------
(***************************************************************************)
(* The heater head and its settings: the Head task (heater/head.cpp), the  *)
(* record it keeps in the EEPROM of the head (components/eeprom_store.cpp) *)
(* and the two tasks that change the settings: RPC calls of clients, and   *)
(* the heater task at the end of a step response.                          *)
(*                                                                         *)
(* A head may be unplugged at any time and another plugged in.  Every I2C  *)
(* operation takes its time, fails if there is no head and may fail if     *)
(* there is one; power may be lost between any two.                        *)
(*                                                                         *)
(* A setting is abstracted to the number of the change that made it.  The  *)
(* CRC is abstracted to what it stands for: it matches exactly the data it *)
(* was computed from.  The copy of the value under its DataGuard is one    *)
(* step here; AsyncPref takes that apart.                                  *)
(***************************************************************************)
EXTENDS Naturals

CONSTANTS
  Heads, NoHead,
  Parts,        \* groups of settings, written and read page by page
  Cal,          \* the part that set_cpoint changes
  Adrc,         \* the part that a step response changes
  Blank,        \* the header of an EEPROM that was never written
  MaxChanges,   \* bound: changes of the settings
  MaxTunes,     \* bound: step responses
  MaxGlitches,  \* bound: I2C operations that fail on a head that is there
  MaxPlugs,     \* bound: heads plugged in
  MaxCuts       \* bound: power cuts

Junk   == MaxChanges + 1        \* what an uninitialised field holds
Values == [Parts -> 0..Junk]

\* DEFAULT_HEAD_PARAMS_PB.
Default == [p \in Parts |-> 0]

ASSUME PartsAssumption == {Cal, Adrc} \subseteq Parts
ASSUME MarkAssumption  == NoHead \notin Heads /\ Blank \notin Values
ASSUME BoundAssumption ==
  {MaxChanges, MaxTunes, MaxGlitches, MaxPlugs, MaxCuts} \subseteq Nat

\* DETACH_PROBE_FAIL_THRESHOLD.
Threshold == 3

VARIABLES
  plugged,   \* the head in the socket
  header,    \* EEPROM header of each head: what its CRC was computed from
  pages,     \* EEPROM data of each head
  status,    \* head_status
  params,    \* head_params.value
  dirty,     \* head_params has a version that no snapshot was taken of
  snapshot,  \* head_params.snapshot
  hpc,       \* what the Head task does next
  left,      \* pages still to write or to read
  crc,       \* the header that was read
  misses,    \* probe_fail_count
  tuner,     \* the step response: off, running, or between get and set
  held,      \* the parameters on the stack of the step response
  mine,      \* the head params were last read from (history)
  made,      \* settings each head was ever given as a whole (history)
  told,      \* the calibration confirmed to a client that each head owes (history)
  changes, tunes, glitches, plugs, cuts

ramVars   == <<params, dirty>>
taskVars  == <<status, snapshot, hpc, left, crc, misses, mine>>
eeVars    == <<header, pages>>
tuneVars  == <<tuner, held, tunes>>
saidVars  == <<made, told>>
vars == <<plugged, eeVars, taskVars, ramVars, tuneVars, saidVars,
          changes, glitches, plugs, cuts>>

TypeOK ==
  /\ plugged \in Heads \cup {NoHead} /\ mine \in Heads \cup {NoHead}
  /\ header \in [Heads -> Values \cup {Blank}]
  /\ pages \in [Heads -> Values]
  /\ status \in {"DETACHED", "INITIALIZING", "ATTACHED"}
  /\ params \in Values /\ snapshot \in Values /\ held \in Values
  /\ dirty \in BOOLEAN
  /\ hpc \in {"idle", "header", "page", "run", "load"}
  /\ left \subseteq Parts
  /\ crc \in Values
  /\ misses \in 0..Threshold
  /\ tuner \in {"off", "run", "set"}
  /\ made \in [Heads -> SUBSET Values]
  /\ told \in [Heads -> 0..Junk]
  /\ changes \in 0..MaxChanges /\ tunes \in 0..MaxTunes
  /\ glitches \in 0..MaxGlitches /\ plugs \in 0..MaxPlugs /\ cuts \in 0..MaxCuts

Init ==
  /\ plugged = NoHead /\ mine = NoHead
  /\ header = [h \in Heads |-> Blank] /\ pages = [h \in Heads |-> Default]
  /\ status = "DETACHED" /\ misses = 0
  /\ params = Default /\ dirty = FALSE /\ snapshot = Default
  /\ hpc = "idle" /\ left = {} /\ crc = Default
  /\ tuner = "off" /\ held = Default
  /\ made = [h \in Heads |-> {Default}] /\ told = [h \in Heads |-> 0]
  /\ changes = 0 /\ tunes = 0 /\ glitches = 0 /\ plugs = 0 /\ cuts = 0

\* An I2C operation on the EEPROM works, or fails.
Works == plugged # NoHead /\ UNCHANGED glitches
Fails ==
  IF plugged = NoHead THEN UNCHANGED glitches
  ELSE glitches < MaxGlitches /\ glitches' = glitches + 1

(***************************************************************************)
(* The Head task.                                                          *)
(***************************************************************************)
At(pc) == hpc = pc
Others == UNCHANGED <<plugged, tuneVars, saidVars, changes, plugs, cuts>>

\* Mutant: settings are written out whether they were changed or not.
TakeSnapshotAlways ==
  /\ At("idle")
  /\ snapshot' = params /\ dirty' = FALSE /\ hpc' = "header"
  /\ UNCHANGED <<eeVars, status, left, crc, misses, mine, params, glitches>> /\ Others

\* The start of task_loop: settings that were changed are written out.
TakeSnapshot ==
  /\ At("idle")
  /\ IF dirty
     THEN snapshot' = params /\ dirty' = FALSE /\ hpc' = "header"
     ELSE hpc' = "run" /\ UNCHANGED <<snapshot, dirty>>
  /\ UNCHANGED <<eeVars, status, left, crc, misses, mine, params, glitches>> /\ Others

\* A page is on its way to the head: written, or not although it may be.
Written(var, new) == var' = [var EXCEPT ![plugged] = new]
Missed(var, new)  == UNCHANGED var \/ (plugged # NoHead /\ Written(var, new))

\* EepromStore::write: the header goes first ...
WriteHeader ==
  /\ At("header")
  /\ \/ Works /\ Written(header, snapshot) /\ hpc' = "page" /\ left' = Parts
     \/ Fails /\ Missed(header, snapshot) /\ hpc' = "run" /\ UNCHANGED left
  /\ UNCHANGED <<pages, status, snapshot, crc, misses, mine, ramVars>> /\ Others

\* ... and then the data, page by page. A failure ends the write: it is logged
\* and forgotten.
WritePage ==
  /\ At("page")
  /\ \E p \in left :
       LET new == [pages[plugged] EXCEPT ![p] = snapshot[p]] IN
       \/ /\ Works /\ Written(pages, new)
          /\ left' = left \ {p}
          /\ hpc' = IF left' = {} THEN "run" ELSE "page"
       \/ Fails /\ Missed(pages, new) /\ left' = {} /\ hpc' = "run"
  /\ UNCHANGED <<header, status, snapshot, crc, misses, mine, ramVars>> /\ Others

\* HeadDetached_state: wait for a head. The heater task ticks four times between
\* two probes: it has stopped a step response on a head that is lost.
Detached ==
  /\ At("run") /\ status = "DETACHED"
  /\ hpc' = "idle"
  /\ \/ Works /\ tuner = "off" /\ status' = "INITIALIZING"
     \/ Fails /\ UNCHANGED status
  /\ UNCHANGED <<eeVars, snapshot, left, crc, misses, mine, ramVars>> /\ Others

\* The head is there, with what the EEPROM gave, or the defaults.
Attach(value) ==
  /\ params' = value
  /\ status' = "ATTACHED" /\ misses' = 0
  /\ hpc' = "idle"

\* The EEPROM cannot be read; params keep what was read so far.
Detach == status' = "DETACHED" /\ hpc' = "idle"

\* Mutant: a blank EEPROM leaves the parameters alone.
LoadHeaderKeeps ==
  /\ At("run") /\ status = "INITIALIZING"
  /\ \/ /\ Works /\ mine' = plugged
        /\ IF header[plugged] = Blank
           THEN Attach(params) /\ UNCHANGED <<left, crc>>
           ELSE /\ crc' = header[plugged] /\ left' = Parts /\ hpc' = "load"
                /\ UNCHANGED <<params, status, misses>>
     \/ Fails /\ Detach /\ UNCHANGED <<left, crc, mine, params, misses>>
  /\ UNCHANGED <<eeVars, snapshot, dirty>> /\ Others

\* HeadInitializing_state: EepromStore::read begins with the header.
LoadHeader ==
  /\ At("run") /\ status = "INITIALIZING"
  /\ \/ /\ Works /\ mine' = plugged
        /\ IF header[plugged] = Blank
           THEN Attach(Default) /\ UNCHANGED <<left, crc>>
           ELSE /\ crc' = header[plugged] /\ left' = Parts /\ hpc' = "load"
                /\ UNCHANGED <<params, status, misses>>
     \/ Fails /\ Detach /\ UNCHANGED <<left, crc, mine, params, misses>>
  /\ UNCHANGED <<eeVars, snapshot, dirty>> /\ Others

LoadPage ==
  /\ At("load")
  /\ \E p \in left :
       \/ /\ Works /\ params' = [params EXCEPT ![p] = pages[plugged][p]]
          /\ left' = left \ {p} /\ UNCHANGED <<status, hpc>>
       \/ Fails /\ Detach /\ left' = {} /\ UNCHANGED params
  /\ UNCHANGED <<eeVars, snapshot, crc, misses, mine, dirty>> /\ Others

\* Mutant: the CRC is not verified.
LoadEndBlindly ==
  /\ At("load") /\ left = {}
  /\ Attach(params)
  /\ UNCHANGED <<eeVars, snapshot, left, crc, mine, dirty, glitches>> /\ Others

\* Mutant: corrupt data count as a failed read.
LoadEndRejects ==
  /\ At("load") /\ left = {}
  /\ IF params = crc THEN Attach(params) ELSE Detach /\ UNCHANGED <<params, misses>>
  /\ UNCHANGED <<eeVars, snapshot, left, crc, mine, dirty, glitches>> /\ Others

\* Data that do not match the CRC count as no data.
LoadEnd ==
  /\ At("load") /\ left = {}
  /\ Attach(IF params = crc THEN params ELSE Default)
  /\ UNCHANGED <<eeVars, snapshot, left, crc, mine, dirty, glitches>> /\ Others

\* Mutant: the count of failed probes starts over with each.
AttachedForgets ==
  /\ At("run") /\ status = "ATTACHED"
  /\ hpc' = "idle"
  /\ \/ Works /\ misses' = 0 /\ UNCHANGED status
     \/ Fails /\ misses' = 1 /\ UNCHANGED status
  /\ UNCHANGED <<eeVars, snapshot, left, crc, mine, ramVars>> /\ Others

\* Mutant: the failed probe that exceeds the threshold detaches the head.
AttachedLonger ==
  /\ At("run") /\ status = "ATTACHED"
  /\ hpc' = "idle"
  /\ \/ Works /\ misses' = 0 /\ UNCHANGED status
     \/ /\ Fails /\ misses' = misses + 1
        /\ status' = IF misses' > Threshold THEN "DETACHED" ELSE status
  /\ UNCHANGED <<eeVars, snapshot, left, crc, mine, ramVars>> /\ Others

\* HeadAttached_state: the head is given up after three failed probes in a row.
Attached ==
  /\ At("run") /\ status = "ATTACHED"
  /\ hpc' = "idle"
  /\ \/ Works /\ misses' = 0 /\ UNCHANGED status
     \/ /\ Fails /\ misses' = misses + 1
        /\ status' = IF misses' = Threshold THEN "DETACHED" ELSE status
  /\ UNCHANGED <<eeVars, snapshot, left, crc, mine, ramVars>> /\ Others

HeadTask ==
  \/ TakeSnapshot \/ WriteHeader \/ WritePage
  \/ Detached \/ LoadHeader \/ LoadPage \/ LoadEnd \/ Attached

(***************************************************************************)
(* The tasks that change the settings.                                     *)
(***************************************************************************)
Fresh == changes + 1

\* The client is told that its calibration is set; the connected head owes it.
Tell == told' = [told EXCEPT ![mine] = IF plugged = mine THEN Fresh ELSE 0]

\* head_params.writeData of a new value.
Set(value) ==
  /\ changes < MaxChanges /\ changes' = changes + 1
  /\ params' = value /\ dirty' = TRUE
  /\ made' = [made EXCEPT ![mine] = @ \cup {value}]

\* Mutant: the calibration point is set in memory only.
SetPointUnsaved ==
  /\ status = "ATTACHED"
  /\ changes < MaxChanges /\ changes' = changes + 1
  /\ params' = [params EXCEPT ![Cal] = Fresh] /\ UNCHANGED dirty
  /\ made' = [made EXCEPT ![mine] = @ \cup {params'}]
  /\ Tell
  /\ UNCHANGED <<plugged, eeVars, taskVars, tuneVars, glitches, plugs, cuts>>

\* set_cpoint0 and set_cpoint1 in the BLE host task, which no other task here
\* interrupts.
SetPoint ==
  /\ status = "ATTACHED"
  /\ Set([params EXCEPT ![Cal] = Fresh])
  /\ Tell
  /\ UNCHANGED <<plugged, eeVars, taskVars, tuneVars, glitches, plugs, cuts>>

\* set_head_params replaces them all.
SetAll ==
  /\ status = "ATTACHED"
  /\ Set([p \in Parts |-> Fresh])
  /\ Tell
  /\ UNCHANGED <<plugged, eeVars, taskVars, tuneVars, glitches, plugs, cuts>>

\* A step response starts on a connected head.
Tune ==
  /\ tuner = "off" /\ status = "ATTACHED"
  /\ tunes < MaxTunes /\ tunes' = tunes + 1
  /\ tuner' = "run"
  /\ UNCHANGED <<plugged, eeVars, taskVars, ramVars, held, saidVars, changes,
                 glitches, plugs, cuts>>

\* It is stopped.
TuneStop ==
  /\ tuner = "run" /\ tuner' = "off"
  /\ UNCHANGED <<plugged, eeVars, taskVars, ramVars, held, tunes, saidVars, changes,
                 glitches, plugs, cuts>>

\* It has its result and reads the parameters. Their absence goes unnoticed,
\* and leaves them uninitialised.
TuneGet ==
  /\ tuner = "run" /\ tuner' = "set"
  /\ held' = IF status = "ATTACHED" THEN params ELSE [p \in Parts |-> Junk]
  /\ UNCHANGED <<plugged, eeVars, taskVars, ramVars, tunes, saidVars, changes,
                 glitches, plugs, cuts>>

\* It writes them back with its result.
TuneSet ==
  /\ tuner = "set" /\ tuner' = "off"
  /\ Set([held EXCEPT ![Adrc] = Fresh])
  /\ UNCHANGED <<plugged, eeVars, taskVars, held, tunes, told, glitches, plugs, cuts>>

(***************************************************************************)
(* The environment.                                                        *)
(***************************************************************************)

\* What a read of the EEPROM of head h would give.
Stored(h) == IF header[h] = pages[h] THEN pages[h] ELSE Default

\* A head that loses contact or power early owes nothing.
Excuse ==
  told' = [h \in Heads |->
             IF h = plugged /\ Stored(h)[Cal] # told[h] THEN 0 ELSE told[h]]

Unplug ==
  /\ plugged # NoHead /\ plugged' = NoHead
  /\ Excuse
  /\ UNCHANGED <<eeVars, taskVars, ramVars, tuneVars, made, changes, glitches,
                 plugs, cuts>>

\* A head is plugged in. Hands are slow: by then the three probes have failed,
\* the step response was stopped and a pass of the task has dealt with what was
\* set before it noticed. A swap that is quicker goes unnoticed by the code.
Plug(h) ==
  /\ plugged = NoHead /\ plugs < MaxPlugs /\ plugs' = plugs + 1
  /\ status = "DETACHED" /\ ~dirty /\ tuner = "off" /\ hpc \in {"idle", "run"}
  /\ plugged' = h
  /\ UNCHANGED <<eeVars, taskVars, ramVars, tuneVars, saidVars, changes, glitches, cuts>>

\* Power is lost and comes back: the EEPROM is all that stays.
PowerCut ==
  /\ cuts < MaxCuts /\ cuts' = cuts + 1
  /\ status' = "DETACHED" /\ misses' = 0
  /\ params' = Default /\ dirty' = FALSE /\ snapshot' = Default
  /\ hpc' = "idle" /\ left' = {} /\ crc' = Default
  /\ tuner' = "off" /\ held' = Default
  /\ Excuse
  /\ UNCHANGED <<plugged, eeVars, mine, tunes, made, changes, glitches, plugs>>

Clients == SetPoint \/ SetAll
StepResponse == Tune \/ TuneStop \/ TuneGet \/ TuneSet

Next ==
  \/ HeadTask \/ Clients \/ StepResponse
  \/ Unplug \/ (\E h \in Heads : Plug(h)) \/ PowerCut

Spec == Init /\ [][Next]_vars

\* The Head task wakes up every 200 ms. Users and clients promise nothing.
FairSpec == Spec /\ WF_vars(HeadTask)

-----------------------------------------------------------------------------
(***************************************************************************)
(* Properties.                                                             *)
(***************************************************************************)

\* "Every head keeps its own settings in the on-board EEPROM"
\* (doc/calibration.md:11): whatever write or read was broken off, by a failure,
\* by pulling the head or by a power cut, a head holds settings that it was
\* given as a whole, and never those of another head.
HeadKeepsOwn == \A h \in Heads : Stored(h) \in made[h]

\* The parameters in use are settings the connected head was given as a whole.
UsesOwn == status = "ATTACHED" => params \in made[mine]

\* A head that is pulled is noticed, unless power is lost or it is put back.
GoneIsNoticed == (plugged = NoHead) ~> (plugged # NoHead \/ status = "DETACHED")

\* A head that stays comes into use and stays in use, once no step response that
\* was started on it goes on.
ComesIntoUse ==
  <>[](plugged # NoHead /\ tuner = "off") => <>[](status = "ATTACHED")

\* "... so you only need to calibrate it once" (doc/calibration.md:11): the
\* calibration that a client was last told to be set on a head that then stays
\* connected ends up in its EEPROM, to be read by every later start.
CalibratedOnce ==
  \A h \in Heads :
    <>[](plugged = h /\ status = "ATTACHED" /\ told[h] # 0)
      => <>[](Stored(h)[Cal] = told[h])

\* So it does as long as the EEPROM works and nothing else is stored.
CalibratedUnlessFailed == [](glitches = 0 /\ tunes = 0) => CalibratedOnce
=============================================================================
