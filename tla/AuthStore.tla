----------------------------- MODULE AuthStore ------------------------------
(***************************************************************************)
(* BleAuthStore (firmware/src/rpc/ble_auth_store.hpp): a fixed table of    *)
(* paired clients and, beside it, a table of the times they were last seen *)
(* at.  Each table is a preference of its own; here they are values, and   *)
(* the operations are functions of them.                                   *)
(***************************************************************************)
EXTENDS Naturals

CONSTANTS
  MaxRecords,  \* slots of the store
  Day,         \* one_day_ms
  Clients,     \* ids of web clients
  NoClient     \* the id of all zeros, which is in the slots never used

ASSUME RecordsAssumption == MaxRecords \in Nat \ {0} /\ Day \in Nat
ASSUME NoClientAssumption == NoClient \notin Clients

Slots == 1..MaxRecords
Empty == [id |-> NoClient, secret |-> 0]

\* idxById finds the first slot with the id; the id of zeros is never found.
HasId(clients, c) == c # NoClient /\ \E i \in Slots : clients[i].id = c
IdxById(clients, c) ==
  CHOOSE i \in Slots : clients[i].id = c /\ \A j \in 1..(i - 1) : clients[j].id # c

\* std::min_element: the first of the smallest timestamps.
IdxLRU(stamps) ==
  CHOOSE i \in Slots :
    /\ \A j \in Slots : stamps[i] <= stamps[j]
    /\ \A j \in 1..(i - 1) : stamps[i] < stamps[j]

\* Mutant: the id is not looked for.
SlotAnyway(clients, stamps, c) == IdxLRU(stamps)

\* Where create puts a client, and both tables after it.
SlotFor(clients, stamps, c) == IF HasId(clients, c) THEN IdxById(clients, c) ELSE IdxLRU(stamps)
Created(clients, stamps, c, secret) ==
  LET i == SlotFor(clients, stamps, c)
  IN [clients |-> [clients EXCEPT ![i] = [id |-> c, secret |-> secret]],
      stamps  |-> [stamps EXCEPT ![i] = 0]]

\* set_timestamp: once a day is often enough, unless the clock went back.
Due(current, time) == time = 0 \/ time > current + Day \/ current > time

\* Mutant: a client is stamped at its first visit only.
StampedOnce(clients, stamps, c, time) ==
  LET i == IdxById(clients, c)
  IN IF stamps[i] = 0 THEN [stamps EXCEPT ![i] = time] ELSE stamps

\* Any time more than a day ahead of the one just given is pulled back to it.
Stamped(clients, stamps, c, time) ==
  LET i == IdxById(clients, c)
  IN IF Due(stamps[i], time)
     THEN [j \in Slots |-> IF j = i \/ (stamps[j] # 0 /\ stamps[j] > time + Day)
                             THEN time ELSE stamps[j]]
     ELSE stamps
=============================================================================
