--------------------------- MODULE MCHistorySync ----------------------------
(* Instance of HistorySync for TLC.                                        *)
EXTENDS HistorySync

TwoTemps == {20, 21}
=============================================================================
