----------------------------- MODULE MCBleLink -----------------------------
(***************************************************************************)
(* TLC instances of BleLink: requests and responses of several chunks, of  *)
(* one chunk, and an empty response.                                       *)
(***************************************************************************)
EXTENDS BleLink

Requests  == <<2, 3, 1>>
Responses == <<2, 0, 1>>
=============================================================================
