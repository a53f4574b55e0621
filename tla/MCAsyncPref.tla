---------------------------- MODULE MCAsyncPref ----------------------------
(***************************************************************************)
(* TLC instances of AsyncPref: a value of two words, so that a copy can be *)
(* torn.                                                                   *)
(***************************************************************************)
EXTENDS AsyncPref

TwoWords == {"lo", "hi"}
=============================================================================
