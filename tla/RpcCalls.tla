------------------------------ MODULE RpcCalls ------------------------------
(***************************************************************************)
(* What the RPC link promises its caller.  Calls are asked one after the   *)
(* other.  A call runs on the device at most once and never after a later  *)
(* one; it is answered only when it has run.  A call that fails may have   *)
(* run, or may still run, or never will.                                   *)
(***************************************************************************)
EXTENDS Naturals, Sequences

CONSTANT Calls    \* how many calls are asked

VARIABLES asked, ran, outcome

callVars == <<asked, ran, outcome>>

CallsInit == asked = 0 /\ ran = <<>> /\ outcome = [c \in 1..Calls |-> "none"]

Ask ==
  /\ asked < Calls
  /\ asked > 0 => outcome[asked] # "none"
  /\ asked' = asked + 1
  /\ UNCHANGED <<ran, outcome>>

Run(c) ==
  /\ outcome[c] # "ok"
  /\ \A i \in DOMAIN ran : ran[i] < c
  /\ ran' = Append(ran, c)
  /\ UNCHANGED <<asked, outcome>>

Answer(c) ==
  /\ (\E i \in DOMAIN ran : ran[i] = c) /\ outcome[c] = "none"
  /\ outcome' = [outcome EXCEPT ![c] = "ok"]
  /\ UNCHANGED <<asked, ran>>

Fail(c) ==
  /\ outcome[c] = "none"
  /\ outcome' = [outcome EXCEPT ![c] = "failed"]
  /\ UNCHANGED <<asked, ran>>

CallsNext == Ask \/ \E c \in 1..asked : Run(c) \/ Answer(c) \/ Fail(c)

CallsSpec == CallsInit /\ [][CallsNext]_callVars
=============================================================================
