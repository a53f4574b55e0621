----------------------------- MODULE HeaterRun -----------------------------
(***************************************************************************)
(* What a client of the device is promised about runs: one task at a time, *)
(* in phases that only go forward.  A task is entered, may ignite once, and *)
(* is extinguished; only then it is left, and only then another is entered. *)
(* Nothing burns outside a task.  An abort takes the device down, and the  *)
(* restart finds no task.                                                  *)
(***************************************************************************)
CONSTANTS Tasks, NoTask

VARIABLES task, phase, down

runVars == <<task, phase, down>>

RunInit == task = NoTask /\ phase = "out" /\ down = FALSE

\* A task is asked for.
Enter(t) == task = NoTask /\ phase = "out" /\ task' = t /\ phase' = "starting"

\* Its preconditions hold and the heater starts.
Ignite == phase = "starting" /\ phase' = "burning" /\ UNCHANGED task

\* The start is refused, or the task is stopped, or it finishes.
Extinguish == phase \in {"starting", "burning"} /\ phase' = "over" /\ UNCHANGED task

\* The application leaves the task.
Leave == phase = "over" /\ task' = NoTask /\ phase' = "out"

Work == (\E t \in Tasks : Enter(t)) \/ Ignite \/ Extinguish \/ Leave

Abort   == ~down /\ down' = TRUE /\ UNCHANGED <<task, phase>>
Restart == down /\ down' = FALSE /\ task' = NoTask /\ phase' = "out"

RunNext == (~down /\ Work /\ UNCHANGED down) \/ Abort \/ Restart

RunSpec == RunInit /\ [][RunNext]_runVars
=============================================================================
