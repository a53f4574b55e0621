---------------------------- MODULE MCHeadStore ----------------------------
(* Instances of HeadStore for TLC: two parts of settings, few heads.       *)
EXTENDS HeadStore

\* The settings are written in two pages.
TwoParts == {"cal", "adrc"}
=============================================================================
