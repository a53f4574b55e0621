----------------------------- MODULE MCBleAuth ------------------------------
(* Instance of BleAuth for TLC.                                            *)
EXTENDS BleAuth

CONSTANTS a, b, f

ThreeClients == {a, b, f}
FastClock    == {f}
=============================================================================
