-------------------------- MODULE HeadStoreProofs --------------------------
(***************************************************************************)
(* Proofs about HeadStore, for any heads, parts of the settings, changes,  *)
(* step responses, failures, unplugged heads and power cuts: a head keeps  *)
(* its own settings as a whole, and the device uses no others.             *)
(***************************************************************************)
EXTENDS HeadStore, TLAPS

(***************************************************************************)
(* The inductive invariant. The Head task, the parameters in memory and    *)
(* the step response all deal with the head they were last loaded from;    *)
(* another head comes only when none of them is at work.                   *)
(***************************************************************************)
Mine(value) == mine \in Heads /\ plugged \in {mine, NoHead} /\ value \in made[mine]

KeptWhole ==
  \A h \in Heads : Default \in made[h] /\ header[h] \in made[h] \cup {Blank}
MineInUse   == status = "ATTACHED" => Mine(params) /\ misses < Threshold
MineChanged == dirty => Mine(params)
MineWritten == hpc \in {"header", "page"} => Mine(snapshot)
MineLoaded  == hpc = "load" => Mine(crc) /\ status = "INITIALIZING"
MineTuned   == tuner # "off" => Mine(Default) /\ status # "INITIALIZING"
NoneChanged == status = "INITIALIZING" /\ hpc # "idle" => ~dirty

Whose ==
  /\ KeptWhole /\ MineInUse /\ MineChanged
  /\ MineWritten /\ MineLoaded /\ MineTuned /\ NoneChanged

-----------------------------------------------------------------------------
\* Settings stay settings when one part is changed, or all at once.
LEMMA ValuesClosed ==
  /\ Default \in Values
  /\ \A x \in 0..Junk : [p \in Parts |-> x] \in Values
  /\ \A v \in Values, p \in Parts, x \in 0..Junk : [v EXCEPT ![p] = x] \in Values
  /\ \A v \in Values, p \in Parts : v[p] \in 0..Junk
<1>1. 0 \in 0..Junk
  BY BoundAssumption DEF Junk
<1> QED  BY <1>1 DEF Values, Default

\* A change that is still allowed has a number of its own.
LEMMA FreshNumber ==
  ASSUME changes \in 0..MaxChanges, changes < MaxChanges
  PROVE  Fresh \in 0..MaxChanges /\ Fresh \in 0..Junk
BY BoundAssumption DEF Fresh, Junk

\* An operation that fails uses up one failure at most.
LEMMA FailsTyped ==
  ASSUME glitches \in 0..MaxGlitches
  PROVE  (Works => glitches' \in 0..MaxGlitches) /\ (Fails => glitches' \in 0..MaxGlitches)
BY BoundAssumption DEF Works, Fails

\* Numbers that are assigned are within their bounds.
LEMMA CountsTyped ==
  /\ 0 \in 0..Junk /\ MaxChanges + 1 \in 0..Junk /\ 0..MaxChanges \subseteq 0..Junk
  /\ 0 \in 0..Threshold /\ {} \subseteq Parts
BY BoundAssumption DEF Junk, Threshold

\* The steps of the Head task keep the types.
LEMMA HeadTaskTyped ==
  ASSUME TypeOK, MineInUse, HeadTask
  PROVE  TypeOK'
<1> USE DEF TypeOK, At, Others, eeVars, ramVars, tuneVars, saidVars
<1>1. CASE TakeSnapshot
  <2>1. snapshot' \in Values /\ hpc' \in {"idle", "header", "page", "run", "load"}
    BY <1>1 DEF TakeSnapshot
  <2>2. dirty' \in BOOLEAN
    BY <1>1, Zenon DEF TakeSnapshot
  <2> QED  BY <1>1, <2>1, <2>2, Zenon DEF TakeSnapshot
<1>2. CASE WriteHeader
  <2>1. header' \in [Heads -> Values \cup {Blank}]
    BY <1>2 DEF WriteHeader, Written, Missed
  <2>2. hpc' \in {"idle", "header", "page", "run", "load"} /\ left' \subseteq Parts
    BY <1>2 DEF WriteHeader
  <2>3. glitches' \in 0..MaxGlitches
    BY <1>2, FailsTyped DEF WriteHeader
  <2> QED  BY <1>2, <2>1, <2>2, <2>3, Zenon DEF WriteHeader
<1>3. CASE WritePage
  <2> PICK p \in left :
        LET new == [pages[plugged] EXCEPT ![p] = snapshot[p]] IN
        \/ /\ Works /\ Written(pages, new)
           /\ left' = left \ {p}
           /\ hpc' = IF left' = {} THEN "run" ELSE "page"
        \/ Fails /\ Missed(pages, new) /\ left' = {} /\ hpc' = "run"
    BY <1>3 DEF WritePage
  <2>1. plugged \in Heads => [pages[plugged] EXCEPT ![p] = snapshot[p]] \in Values
    BY ValuesClosed
  <2>2. pages' \in [Heads -> Values]
    BY <2>1 DEF Written, Missed
  <2>3. hpc' \in {"idle", "header", "page", "run", "load"} /\ left' \subseteq Parts
    OBVIOUS
  <2>4. glitches' \in 0..MaxGlitches
    BY FailsTyped
  <2> QED  BY <1>3, <2>2, <2>3, <2>4, Zenon DEF WritePage
<1>4. CASE Detached
  <2>1. status' \in {"DETACHED", "INITIALIZING", "ATTACHED"}
        /\ hpc' \in {"idle", "header", "page", "run", "load"}
    BY <1>4 DEF Detached
  <2>2. glitches' \in 0..MaxGlitches
    BY <1>4, FailsTyped DEF Detached
  <2> QED  BY <1>4, <2>1, <2>2, Zenon DEF Detached
<1>5. CASE LoadHeader
  <2>1. params' \in Values
    BY <1>5, ValuesClosed DEF LoadHeader, Attach
  <2>2. Works => plugged \in Heads
    BY DEF Works
  <2>3. crc' \in Values /\ left' \subseteq Parts /\ mine' \in Heads \cup {NoHead}
    BY <1>5, <2>2 DEF LoadHeader
  <2>4. status' \in {"DETACHED", "INITIALIZING", "ATTACHED"} /\ misses' \in 0..Threshold
        /\ hpc' \in {"idle", "header", "page", "run", "load"}
    BY <1>5, CountsTyped DEF LoadHeader, Attach, Detach
  <2>5. glitches' \in 0..MaxGlitches
    BY <1>5, FailsTyped DEF LoadHeader
  <2> QED  BY <1>5, <2>1, <2>3, <2>4, <2>5, Zenon DEF LoadHeader
<1>6. CASE LoadPage
  <2> PICK p \in left :
        \/ /\ Works /\ params' = [params EXCEPT ![p] = pages[plugged][p]]
           /\ left' = left \ {p} /\ UNCHANGED <<status, hpc>>
        \/ Fails /\ Detach /\ left' = {} /\ UNCHANGED params
    BY <1>6 DEF LoadPage
  <2>1. Works => plugged \in Heads
    BY DEF Works
  <2>2. params' \in Values
    BY <2>1, ValuesClosed
  <2>3. status' \in {"DETACHED", "INITIALIZING", "ATTACHED"} /\ left' \subseteq Parts
        /\ hpc' \in {"idle", "header", "page", "run", "load"}
    BY DEF Detach
  <2>4. glitches' \in 0..MaxGlitches
    BY FailsTyped
  <2> QED  BY <1>6, <2>2, <2>3, <2>4, Zenon DEF LoadPage
<1>7. CASE LoadEnd
  <2>1. params' \in Values /\ misses' \in 0..Threshold
        /\ status' \in {"DETACHED", "INITIALIZING", "ATTACHED"}
        /\ hpc' \in {"idle", "header", "page", "run", "load"}
    BY <1>7, ValuesClosed, CountsTyped DEF LoadEnd, Attach
  <2> QED  BY <1>7, <2>1, Zenon DEF LoadEnd
<1>8. CASE Attached
  <2>1. misses' \in 0..Threshold
    BY <1>8 DEF Attached, MineInUse, Threshold
  <2>2. status' \in {"DETACHED", "INITIALIZING", "ATTACHED"}
        /\ hpc' \in {"idle", "header", "page", "run", "load"}
    BY <1>8 DEF Attached
  <2>3. glitches' \in 0..MaxGlitches
    BY <1>8, FailsTyped DEF Attached
  <2> QED  BY <1>8, <2>1, <2>2, <2>3, Zenon DEF Attached
<1> QED
  BY <1>1, <1>2, <1>3, <1>4, <1>5, <1>6, <1>7, <1>8 DEF HeadTask

\* So does setting new parameters.
LEMMA SetTyped ==
  ASSUME TypeOK, NEW v, changes < MaxChanges => v \in Values, Set(v)
  PROVE  /\ changes' \in 0..MaxChanges /\ params' \in Values /\ made' \in [Heads -> SUBSET Values]
         /\ dirty' \in BOOLEAN
<1>1. changes' \in 0..MaxChanges
  BY BoundAssumption DEF TypeOK, Set
<1>2. params' \in Values /\ made' \in [Heads -> SUBSET Values]
  BY DEF TypeOK, Set
<1>3. dirty' \in BOOLEAN
  BY Zenon DEF Set
<1> QED  BY <1>1, <1>2, <1>3

\* What clients were told keeps its type.
LEMMA ToldTyped ==
  ASSUME TypeOK
  PROVE  /\ changes < MaxChanges /\ Tell => told' \in [Heads -> 0..Junk]
         /\ Excuse => told' \in [Heads -> 0..Junk]
<1>1. changes < MaxChanges => Fresh \in 0..Junk
  BY FreshNumber DEF TypeOK
<1>2. changes < MaxChanges /\ Tell => told' \in [Heads -> 0..Junk]
  BY <1>1, CountsTyped DEF TypeOK, Tell
<1>3. Excuse => told' \in [Heads -> 0..Junk]
  BY CountsTyped DEF TypeOK, Excuse
<1> QED  BY <1>2, <1>3

\* So do the other tasks and the environment.
LEMMA OthersTyped ==
  ASSUME TypeOK, Clients \/ StepResponse \/ Unplug \/ (\E h \in Heads : Plug(h)) \/ PowerCut
  PROVE  TypeOK'
<1>0. changes < MaxChanges => Fresh \in 0..Junk
  BY FreshNumber DEF TypeOK
<1> USE DEF TypeOK, eeVars, ramVars, tuneVars, saidVars, taskVars
<1>1. CASE SetPoint
  <2>1. changes < MaxChanges => [params EXCEPT ![Cal] = Fresh] \in Values
    BY <1>0, ValuesClosed, PartsAssumption
  <2>2. /\ changes' \in 0..MaxChanges /\ params' \in Values /\ dirty' \in BOOLEAN
        /\ made' \in [Heads -> SUBSET Values]
    BY <1>1, <2>1, SetTyped, Zenon DEF SetPoint
  <2>3. told' \in [Heads -> 0..Junk]
    BY <1>1, ToldTyped, Zenon DEF SetPoint, Set
  <2> QED  BY <1>1, <2>2, <2>3, Zenon DEF SetPoint
<1>2. CASE SetAll
  <2>1. changes < MaxChanges => [p \in Parts |-> Fresh] \in Values
    BY <1>0, ValuesClosed
  <2>2. /\ changes' \in 0..MaxChanges /\ params' \in Values /\ dirty' \in BOOLEAN
        /\ made' \in [Heads -> SUBSET Values]
    BY <1>2, <2>1, SetTyped, Zenon DEF SetAll
  <2>3. told' \in [Heads -> 0..Junk]
    BY <1>2, ToldTyped, Zenon DEF SetAll, Set
  <2> QED  BY <1>2, <2>2, <2>3, Zenon DEF SetAll
<1>3. CASE Tune
  <2>1. tunes' \in 0..MaxTunes
    BY <1>3, BoundAssumption DEF Tune
  <2>2. tuner' \in {"off", "run", "set"}
    BY <1>3 DEF Tune
  <2> QED  BY <1>3, <2>1, <2>2, Zenon DEF Tune
<1>4. CASE TuneStop
  BY <1>4, Zenon DEF TuneStop
<1>5. CASE TuneGet
  <2>1. held' \in Values
    BY <1>5, ValuesClosed, CountsTyped DEF TuneGet, Junk
  <2>2. tuner' \in {"off", "run", "set"}
    BY <1>5 DEF TuneGet
  <2> QED  BY <1>5, <2>1, <2>2, Zenon DEF TuneGet
<1>6. CASE TuneSet
  <2>1. changes < MaxChanges => [held EXCEPT ![Adrc] = Fresh] \in Values
    BY <1>0, ValuesClosed, PartsAssumption
  <2>2. /\ changes' \in 0..MaxChanges /\ params' \in Values /\ dirty' \in BOOLEAN
        /\ made' \in [Heads -> SUBSET Values]
    BY <1>6, <2>1, SetTyped, Zenon DEF TuneSet
  <2>3. tuner' \in {"off", "run", "set"}
    BY <1>6 DEF TuneSet
  <2> QED  BY <1>6, <2>2, <2>3, Zenon DEF TuneSet
<1>7. CASE Unplug
  <2>1. told' \in [Heads -> 0..Junk]
    BY <1>7, ToldTyped, Zenon DEF Unplug
  <2>2. plugged' \in Heads \cup {NoHead}
    BY <1>7 DEF Unplug
  <2> QED  BY <1>7, <2>1, <2>2, Zenon DEF Unplug
<1>8. CASE \E h \in Heads : Plug(h)
  <2> PICK h \in Heads : Plug(h)
    BY <1>8
  <2>1. plugged' \in Heads \cup {NoHead} /\ plugs' \in 0..MaxPlugs
    BY BoundAssumption DEF Plug
  <2> QED  BY <2>1, Zenon DEF Plug
<1>9. CASE PowerCut
  <2>1. told' \in [Heads -> 0..Junk]
    BY <1>9, ToldTyped, Zenon DEF PowerCut
  <2>2. cuts' \in 0..MaxCuts
    BY <1>9, BoundAssumption DEF PowerCut
  <2>3. /\ params' \in Values /\ snapshot' \in Values /\ held' \in Values /\ crc' \in Values
        /\ misses' \in 0..Threshold /\ left' \subseteq Parts
        /\ status' \in {"DETACHED", "INITIALIZING", "ATTACHED"}
        /\ hpc' \in {"idle", "header", "page", "run", "load"} /\ tuner' \in {"off", "run", "set"}
    BY <1>9, ValuesClosed, CountsTyped DEF PowerCut
  <2>4. dirty' \in BOOLEAN
    BY <1>9, Zenon DEF PowerCut
  <2> QED  BY <1>9, <2>1, <2>2, <2>3, <2>4, Zenon DEF PowerCut
<1> QED
  BY <1>1, <1>2, <1>3, <1>4, <1>5, <1>6, <1>7, <1>8, <1>9 DEF Clients, StepResponse

\* Every step keeps the types.
LEMMA TypeStep == TypeOK /\ MineInUse /\ [Next]_vars => TypeOK'
<1> SUFFICES ASSUME TypeOK, MineInUse, [Next]_vars PROVE TypeOK'
  OBVIOUS
<1>1. CASE UNCHANGED vars
  <2>1. /\ UNCHANGED <<plugged, header, pages, status, params, dirty, snapshot, hpc, left>>
        /\ UNCHANGED <<crc, misses, tuner, held, mine, made, told>>
        /\ UNCHANGED <<changes, tunes, glitches, plugs, cuts>>
    BY <1>1 DEF vars, eeVars, taskVars, ramVars, tuneVars, saidVars
  <2> QED  BY <2>1, Zenon DEF TypeOK
<1> QED
  BY <1>1, HeadTaskTyped, OthersTyped DEF Next

-----------------------------------------------------------------------------
\* The steps of the Head task keep track of whose settings are where.
LEMMA HeadTaskWhose ==
  ASSUME TypeOK, Whose, HeadTask
  PROVE  Whose'
<1> USE DEF Whose, KeptWhole, MineInUse, MineChanged, MineWritten, MineLoaded, MineTuned,
            NoneChanged, Mine, At, Others, eeVars, ramVars, tuneVars, saidVars
<1>0. NoHead \notin Heads /\ \A v \in Values : v # Blank
  BY MarkAssumption
<1>1. CASE TakeSnapshot
  BY <1>1 DEF TakeSnapshot
<1>2. CASE WriteHeader
  <2>1. \A h \in Heads : header'[h] \in made[h] \cup {Blank}
    BY <1>2, <1>0 DEF WriteHeader, Written, Missed, TypeOK
  <2> QED  BY <1>2, <2>1 DEF WriteHeader
<1>3. CASE WritePage
  BY <1>3 DEF WritePage
<1>4. CASE Detached
  BY <1>4 DEF Detached
<1>5. CASE LoadHeader
  <2>1. CASE Works
    <3>1. plugged \in Heads /\ ~dirty /\ tuner = "off" /\ mine' = plugged
      BY <1>5, <2>1, <1>0 DEF LoadHeader, Works, Fails, TypeOK
    <3> QED  BY <1>5, <2>1, <3>1, <1>0 DEF LoadHeader, Attach, Threshold, Works, Fails, Detach
  <2>2. CASE ~Works
    BY <1>5, <2>2 DEF LoadHeader, Detach
  <2> QED  BY <2>1, <2>2
<1>6. CASE LoadPage
  <2>1. ~dirty /\ tuner = "off" /\ status = "INITIALIZING" /\ hpc = "load"
    BY <1>6 DEF LoadPage
  <2>2. UNCHANGED <<header, made, mine, crc, plugged, dirty, tuner>>
    BY <1>6 DEF LoadPage
  <2>3. \/ hpc' = "load" /\ status' = "INITIALIZING"
        \/ hpc' = "idle" /\ status' = "DETACHED"
    BY <1>6, <2>1 DEF LoadPage, Detach
  <2> QED  BY <2>1, <2>2, <2>3
<1>7. CASE LoadEnd
  <2>1. params' \in made[mine] /\ misses' < Threshold
    BY <1>7 DEF LoadEnd, Attach, Threshold
  <2> QED  BY <1>7, <2>1 DEF LoadEnd, Attach
<1>8. CASE Attached
  <2>1. status' = "ATTACHED" => misses' < Threshold
    BY <1>8 DEF Attached, Threshold, TypeOK
  <2>2. status' \in {"ATTACHED", "DETACHED"} /\ hpc' = "idle"
    BY <1>8 DEF Attached
  <2> QED  BY <1>8, <2>1, <2>2 DEF Attached
<1> QED
  BY <1>1, <1>2, <1>3, <1>4, <1>5, <1>6, <1>7, <1>8 DEF HeadTask

\* What is set is set for the head at hand, and is then its own.
LEMMA SetWhose ==
  ASSUME TypeOK, Whose, NEW v, Set(v), Mine(Default), status # "INITIALIZING",
         UNCHANGED <<plugged, header, pages, status, snapshot, hpc, crc, misses, mine>>,
         tuner' \in {tuner, "off"}
  PROVE  Whose'
<1>1. \A h \in Heads : made[h] \subseteq made'[h]
  BY DEF Set, TypeOK
<1>2. v \in made'[mine]
  BY DEF Set, TypeOK, Mine
<1> QED
  BY <1>1, <1>2 DEF Whose, KeptWhole, MineInUse, MineChanged, MineWritten, MineLoaded,
                    MineTuned, NoneChanged, Mine, Set

\* So do the other tasks and the environment.
LEMMA OthersWhose ==
  ASSUME TypeOK, Whose, Clients \/ StepResponse \/ Unplug \/ (\E h \in Heads : Plug(h)) \/ PowerCut
  PROVE  Whose'
<1>0. status = "ATTACHED" => Mine(Default)
  BY DEF Whose, MineInUse, Mine, KeptWhole
<1> USE DEF eeVars, ramVars, tuneVars, saidVars, taskVars
<1>1. CASE SetPoint
  BY <1>1, <1>0, SetWhose DEF SetPoint
<1>2. CASE SetAll
  BY <1>2, <1>0, SetWhose DEF SetAll
<1>3. CASE TuneSet
  <2>1. Mine(Default) /\ status # "INITIALIZING"
    BY <1>3 DEF TuneSet, Whose, MineTuned
  <2> QED  BY <1>3, <2>1, SetWhose DEF TuneSet
<1> USE DEF Whose, KeptWhole, MineInUse, MineChanged, MineWritten, MineLoaded, MineTuned,
            NoneChanged, Mine
<1>4. CASE Tune
  BY <1>4, <1>0 DEF Tune
<1>5. CASE TuneStop \/ TuneGet
  BY <1>5 DEF TuneStop, TuneGet
<1>6. CASE Unplug
  BY <1>6 DEF Unplug
<1>7. CASE \E h \in Heads : Plug(h)
  BY <1>7 DEF Plug
<1>8. CASE PowerCut
  BY <1>8 DEF PowerCut
<1> QED
  BY <1>1, <1>2, <1>3, <1>4, <1>5, <1>6, <1>7, <1>8 DEF Clients, StepResponse

\* The invariant holds, by induction over the steps.
LEMMA Invariance == Spec => [](TypeOK /\ Whose)
<1>1. Init => TypeOK
  <2>1. /\ 0 \in 0..MaxChanges /\ 0 \in 0..MaxTunes /\ 0 \in 0..MaxGlitches
        /\ 0 \in 0..MaxPlugs /\ 0 \in 0..MaxCuts
    BY BoundAssumption
  <2>2. [h \in Heads |-> {Default}] \in [Heads -> SUBSET Values]
    BY ValuesClosed
  <2> QED  BY <2>1, <2>2, ValuesClosed, CountsTyped, Zenon DEF Init, TypeOK
<1>2. Init => Whose
  BY DEF Init, Whose, KeptWhole, MineInUse, MineChanged, MineWritten, MineLoaded, MineTuned,
         NoneChanged
<1>3. TypeOK /\ Whose /\ [Next]_vars => TypeOK'
  BY TypeStep DEF Whose
<1>4. TypeOK /\ Whose /\ UNCHANGED vars => Whose'
  BY DEF vars, eeVars, taskVars, ramVars, tuneVars, saidVars, Whose, KeptWhole, MineInUse,
         MineChanged, MineWritten, MineLoaded, MineTuned, NoneChanged, Mine
<1>5. TypeOK /\ Whose /\ [Next]_vars => Whose'
  BY <1>4, HeadTaskWhose, OthersWhose DEF Next
<1> QED  BY <1>1, <1>2, <1>3, <1>5, PTL DEF Spec

\* Every variable keeps its type; failed probes never exceed the threshold.
THEOREM TypeCorrect == Spec => []TypeOK
BY Invariance, PTL

\* Whatever write or read is broken off, each head holds settings that it was
\* given as a whole.
THEOREM HeadsKeepTheirOwn == Spec => []HeadKeepsOwn
<1>1. TypeOK /\ Whose => HeadKeepsOwn
  <2> SUFFICES ASSUME TypeOK, Whose, NEW h \in Heads PROVE Stored(h) \in made[h]
    BY DEF HeadKeepsOwn
  <2>1. pages[h] \in Values /\ Blank \notin Values
    BY MarkAssumption DEF TypeOK
  <2>2. Default \in made[h] /\ header[h] \in made[h] \cup {Blank}
    BY DEF Whose, KeptWhole
  <2> QED  BY <2>1, <2>2 DEF Stored
<1> QED  BY <1>1, Invariance, PTL

\* The device works with settings the head it last loaded was given as a whole.
THEOREM UsesTheirOwn == Spec => []UsesOwn
<1>1. Whose => UsesOwn
  BY DEF Whose, MineInUse, Mine, UsesOwn
<1> QED  BY <1>1, Invariance, PTL
=============================================================================
