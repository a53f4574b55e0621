----------------------------- MODULE AsyncPref -----------------------------
(***************************************************************************)
(* One AsyncPreference (lib/async_preference.hpp) over its DataGuard       *)
(* (lib/data_guard.hpp) and the key of the NVS it is kept under.           *)
(*                                                                         *)
(* The user, a task of higher priority, updates the value word by word     *)
(* between beginWrite and endWrite.  The "prefs" task (components/prefs.hpp)*)
(* copies it word by word without a lock, accepts the copy if the version  *)
(* has not moved, and writes it to flash.  The write may fail, and the     *)
(* power may go at any step.                                               *)
(*                                                                         *)
(* A word is abstracted to the number of the update that last wrote it, so *)
(* a value that no user has ever set is recognised.  Reads of the NVS do   *)
(* not fail: then get() never reloads a value after the constructor, and   *)
(* is_preloaded needs no variable.                                         *)
(***************************************************************************)
EXTENDS Naturals

CONSTANTS
  Words,       \* the parts of a value that are copied one after the other
  NoKey,       \* what the NVS holds before the first write
  MaxUpdates,  \* bound: updates by the user
  MaxFails,    \* bound: failed writes
  MaxCuts      \* bound: power cuts

ASSUME WordsAssumption  == Words # {}
ASSUME BoundsAssumption == MaxUpdates \in Nat /\ MaxFails \in Nat /\ MaxCuts \in Nat

Values  == [Words -> 0..MaxUpdates]
Initial == [w \in Words |-> 0]

ASSUME NoKeyAssumption == NoKey \notin Values

VARIABLES
  value,     \* databox.value
  version,   \* data_version
  snapshot,  \* databox.snapshot
  last,      \* last_snapshot_version
  pending,   \* has_pending_write
  todo,      \* words the running update has still to write
  seen,      \* version_before, on the stack of makeSnapshot
  left,      \* words makeSnapshot has still to copy
  wpc,       \* what the prefs task does next
  kv,        \* the NVS entry: a value or NoKey
  current,   \* the value as of the last complete update (history)
  updates, fails, cuts

memVars  == <<value, version, current, todo>>
taskVars == <<snapshot, last, pending, seen, left, wpc>>
vars == <<memVars, taskVars, kv, updates, fails, cuts>>

TypeOK ==
  /\ value \in Values /\ snapshot \in Values /\ current \in Values
  /\ version \in Nat /\ last \in Nat /\ seen \in Nat
  /\ pending \in BOOLEAN
  /\ todo \subseteq Words /\ left \subseteq Words
  /\ wpc \in {"sleep", "copy", "save"}
  /\ kv \in Values \cup {NoKey}
  /\ updates \in 0..MaxUpdates /\ fails \in 0..MaxFails /\ cuts \in 0..MaxCuts

\* The version is odd exactly while an update runs.
Updating == version % 2 = 1

\* Mutant: the constructor does not preload.
LoadNothing(k) == Initial

\* Mutant: a missing key is loaded like any other.
LoadRaw(k) == k

\* preload: what the constructor finds.
Load(k) == IF k = NoKey THEN Initial ELSE k

Init ==
  /\ value = Initial /\ current = Initial /\ version = 0 /\ todo = {}
  /\ snapshot = Initial /\ last = 0 /\ pending = FALSE
  /\ seen = 0 /\ left = {} /\ wpc = "sleep"
  /\ kv = NoKey
  /\ updates = 0 /\ fails = 0 /\ cuts = 0

(***************************************************************************)
(* The user.                                                               *)
(***************************************************************************)

\* valueUpdateBegin, by set() with another value or by a caller that edits
\* the value in place.
ValueUpdateBegin ==
  /\ ~Updating /\ updates < MaxUpdates
  /\ todo' \in SUBSET Words \ {{}}
  /\ updates' = updates + 1
  /\ version' = version + 1
  /\ UNCHANGED <<value, current, taskVars, kv, fails, cuts>>

WriteWord ==
  /\ \E w \in todo : /\ value' = [value EXCEPT ![w] = updates]
                     /\ todo' = todo \ {w}
  /\ UNCHANGED <<version, current, taskVars, kv, updates, fails, cuts>>

ValueUpdateEnd ==
  /\ Updating /\ todo = {}
  /\ version' = version + 1
  /\ current' = value
  /\ UNCHANGED <<value, todo, taskVars, kv, updates, fails, cuts>>

(***************************************************************************)
(* The prefs task.                                                         *)
(***************************************************************************)

\* Mutant: a failed write is not repeated.
TickForgetful ==
  /\ wpc = "sleep" /\ last # version /\ ~Updating
  /\ wpc' = "copy" /\ seen' = version /\ left' = Words
  /\ UNCHANGED <<memVars, snapshot, last, pending, kv, updates, fails, cuts>>

\* tick: repeat a write that failed, else begin a snapshot of a value that
\* has changed and is not being changed. Other ticks do nothing.
Tick ==
  /\ wpc = "sleep"
  /\ \/ /\ pending
        /\ wpc' = "save"
        /\ UNCHANGED <<seen, left>>
     \/ /\ ~pending /\ last # version /\ ~Updating
        /\ wpc' = "copy" /\ seen' = version /\ left' = Words
  /\ UNCHANGED <<memVars, snapshot, last, pending, kv, updates, fails, cuts>>

CopyWord ==
  /\ wpc = "copy"
  /\ \E w \in left : /\ snapshot' = [snapshot EXCEPT ![w] = value[w]]
                     /\ left' = left \ {w}
  /\ UNCHANGED <<memVars, last, pending, seen, wpc, kv, updates, fails, cuts>>

\* Mutant: the copy is accepted without looking at the version again.
AcceptBlindly ==
  /\ wpc = "copy" /\ left = {}
  /\ last' = seen /\ wpc' = "save"
  /\ UNCHANGED <<memVars, snapshot, pending, seen, left, kv, updates, fails, cuts>>

\* Mutant: a copy that was disturbed counts as the snapshot of the new version.
AcceptSkips ==
  /\ wpc = "copy" /\ left = {}
  /\ last' = version
  /\ wpc' = IF version = seen THEN "save" ELSE "sleep"
  /\ UNCHANGED <<memVars, snapshot, pending, seen, left, kv, updates, fails, cuts>>

\* The end of makeSnapshot.
Accept ==
  /\ wpc = "copy" /\ left = {}
  /\ IF version = seen
     THEN last' = seen /\ wpc' = "save"
     ELSE wpc' = "sleep" /\ UNCHANGED last
  /\ UNCHANGED <<memVars, snapshot, pending, seen, left, kv, updates, fails, cuts>>

\* Serializer::save. A failure flags the write for repetition (and nothing
\* ever clears the flag); a failed commit may have stored the value.
Save ==
  /\ wpc = "save" /\ wpc' = "sleep"
  /\ \/ kv' = snapshot /\ UNCHANGED <<pending, fails>>
     \/ /\ fails < MaxFails
        /\ kv' \in {kv, snapshot}
        /\ pending' = TRUE /\ fails' = fails + 1
  /\ UNCHANGED <<memVars, snapshot, last, seen, left, updates, cuts>>

\* Power is lost and comes back: memory starts over from what the NVS holds.
\* (The NVS can be opened: one with no free pages, or of a newer version, is erased.)
PowerCut ==
  /\ cuts < MaxCuts /\ cuts' = cuts + 1
  /\ value' = Load(kv) /\ current' = Load(kv) /\ version' = 0 /\ todo' = {}
  /\ snapshot' = Initial /\ last' = 0 /\ pending' = FALSE
  /\ seen' = 0 /\ left' = {} /\ wpc' = "sleep"
  /\ UNCHANGED <<kv, updates, fails>>

User  == ValueUpdateBegin \/ WriteWord \/ ValueUpdateEnd
Prefs == Tick \/ CopyWord \/ Accept \/ Save

Next == User \/ Prefs \/ PowerCut

Spec == Init /\ [][Next]_vars

\* An update that has begun ends, and the prefs task keeps being scheduled:
\* it has the lowest priority, and the others block between their ticks. A
\* write that is tried again and again succeeds in the end (MaxFails).
FairSpec == Spec /\ WF_vars(WriteWord \/ ValueUpdateEnd) /\ WF_vars(Prefs)

-----------------------------------------------------------------------------
(***************************************************************************)
(* Properties.                                                             *)
(***************************************************************************)

\* A copy is good to be written, now or on a later try.
Holds == wpc = "save" \/ pending

Cell == INSTANCE DurableCell
          WITH Contents <- Values, Default <- Initial, Nothing <- NoKey,
               mem <- current, disk <- kv,
               shot <- IF Holds THEN snapshot ELSE NoKey

\* The preference implements DurableCell: whatever update interrupts the copy,
\* whichever write fails and whenever power is lost, what the NVS holds is one
\* value the user has set as a whole.
StoredWhole == Cell!CellSpec

\* The NVS never goes back to an older value, neither by a repeated write of an
\* old snapshot nor by an update after a power cut (async_preference.hpp:169).
NoRollback ==
  [][kv # NoKey => \A w \in Words : kv'[w] >= kv[w]]_vars

\* The NVS has caught up with memory.
Saved == Load(kv) = current

\* The task that saves preferences does save them: when the user leaves the
\* value alone for good, the NVS gets it ("write old data first, and postpone
\* snapshot to next call", async_preference.hpp:170).
EventuallySaved == <>[](~Updating) => <>[]Saved

\* So it does as long as no write fails, whatever power cuts come.
SavedUnlessFailed == [](fails = 0) => EventuallySaved

\* A failed write is repeated until the snapshot it was for is stored, however
\* many updates come in between ("flag repeat on fail", :166).
Repeated == pending ~> (kv = snapshot \/ ~pending)
=============================================================================
