---------------------------- MODULE MCHeaterApp ----------------------------
(***************************************************************************)
(* TLC instances of HeaterApp.                                             *)
(***************************************************************************)
EXTENDS HeaterApp

OnOff == {0, 1}
AllCommands == TaskStates
ReflowOnly == {"REFLOW"}
AllGestures == Buttons
StopGesture == {"Press1"}
=============================================================================
