------------------------------ MODULE BleAuth -------------------------------
(***************************************************************************)
(* Pairing and authentication: the loop of each web client                 *)
(* (webapp/src/lib/ble/BleRpcClient.ts) against the methods auth_info,     *)
(* pair and authenticate of the device (rpc/api.cpp), its sessions         *)
(* (rpc/rpc.cpp), its store of clients with the preferences behind it, and *)
(* the application's Bonding state, which opens and closes the window in   *)
(* which it pairs.                                                         *)
(*                                                                         *)
(* A call is one step: BleLink shows that a request runs once and its      *)
(* answer is its own.  A connection may drop at any time; when it drops    *)
(* after the device ran a call, the answer is lost.  The HMAC of a message *)
(* under a secret is the pair of the two.  A page that is reloaded is a    *)
(* connection that drops: what it keeps is in localStorage.  A page hears  *)
(* of a dropped connection late (handleDisconnection) or by a call that    *)
(* throws; until then it can do nothing that the device would see, so here *)
(* it hears at once, and isConnectedFlag and isAuthenticatedFlag are the   *)
(* connection's session and its authenticated flag.                        *)
(*                                                                         *)
(* Left out: needPairingFlag, which only the page shows; application       *)
(* states other than Idle and Bonding; a device id other than one.         *)
(***************************************************************************)
EXTENDS AuthStore, Sequences, FiniteSets

CONSTANTS
  MaxSessions, \* BLE_MAX_CONNECTIONS, the size of session_pool
  Fast,        \* clients whose clock runs ahead of the others'
  Ahead,       \* by so much
  MaxTime,     \* bound: the clock
  MaxPairs,    \* bound: secrets made
  MaxPresses,  \* bound: button events
  MaxFaults    \* bound: connections dropped and power cuts

ASSUME SessionsAssumption == MaxSessions \in Nat \ {0}
ASSUME FastAssumption == Fast \subseteq Clients /\ Ahead \in Nat
ASSUME BoundsAssumption ==
  MaxTime \in Nat \ {0} /\ {MaxPairs, MaxPresses, MaxFaults} \subseteq Nat

Secrets  == 1..MaxPairs   \* each made once
NoSecret == 0
Times    == 0..(MaxTime + Ahead)

VARIABLES
  clients, stamps,   \* the two tables of the store
  diskClients, diskStamps,   \* and the preferences they are kept in
  pairable,    \* pairing_enabled_flag, on in Bonding only
  timer,       \* xTimeoutTimer runs
  inbox,       \* the application's queue
  session,     \* clients that have a connection, and with it a session
  auth,        \* Session::authenticated
  random,      \* authenticate() holds the session's random
  cpc,         \* what the client's loop does next
  secret,      \* the client's secret for the device
  now,         \* the clock of the clients
  used,        \* when a client was last let in with this secret (history)
  torn,        \* power was cut with one of the tables not saved (history)
  pairs, presses, faults

ram    == <<clients, stamps>>
disk   == <<diskClients, diskStamps>>
appVars  == <<pairable, timer, inbox>>
linkVars == <<session, auth, random>>
webVars  == <<cpc, secret>>
hist   == <<now, used, torn>>
bounds == <<pairs, presses, faults>>
vars == <<ram, disk, appVars, linkVars, webVars, hist, bounds>>

Records == [id : Clients \cup {NoClient}, secret : Secrets \cup {NoSecret}]

TypeOK ==
  /\ clients \in [Slots -> Records] /\ diskClients \in [Slots -> Records]
  /\ stamps \in [Slots -> Times] /\ diskStamps \in [Slots -> Times]
  /\ pairable \in BOOLEAN /\ timer \in BOOLEAN /\ inbox \in Seq({"5x", "1x", "BondOff"})
  /\ session \in [Clients -> BOOLEAN] /\ auth \in [Clients -> BOOLEAN]
  /\ random \in [Clients -> BOOLEAN]
  /\ cpc \in [Clients -> {"loop", "pair", "info2", "auth"}]
  /\ secret \in [Clients -> Secrets \cup {NoSecret}]
  /\ now \in 1..MaxTime /\ used \in [Clients -> 0..MaxTime] /\ torn \in BOOLEAN
  /\ pairs \in 0..MaxPairs

All(v) == [c \in Clients |-> v]

Init ==
  /\ clients = [i \in Slots |-> Empty] /\ stamps = [i \in Slots |-> 0]
  /\ diskClients = clients /\ diskStamps = stamps
  /\ pairable = FALSE /\ timer = FALSE /\ inbox = <<>>
  /\ session = All(FALSE) /\ auth = All(FALSE) /\ random = All(FALSE)
  /\ cpc = All("loop") /\ secret = All(NoSecret)
  /\ now = 1 /\ used = All(0) /\ torn = FALSE
  /\ pairs = 0 /\ presses = 0 /\ faults = 0

(***************************************************************************)
(* Connections.                                                            *)
(***************************************************************************)

\* Every session is taken, by clients that may have authenticated or not.
PoolFull == Cardinality({c \in Clients : session[c]}) >= MaxSessions

\* The loop connects when it is not connected; onConnect makes a new session. When
\* the pool has none left it disconnects the client again, which then is where it was.
Connect(c) ==
  /\ ~session[c] /\ ~PoolFull
  /\ session' = [session EXCEPT ![c] = TRUE]
  /\ UNCHANGED <<ram, disk, appVars, auth, random, webVars, hist, bounds>>

\* onDisconnect destroys the session. In the page, the flags are reset, and a
\* call under way throws: authenticate() returns false and keeps the secret.
Disconnected(gone) ==
  /\ session' = [c \in Clients |-> c \notin gone /\ session[c]]
  /\ auth' = [c \in Clients |-> c \notin gone /\ auth[c]]
  /\ random' = [c \in Clients |-> c \notin gone /\ random[c]]
  /\ cpc' = [c \in Clients |-> IF c \in gone THEN "loop" ELSE cpc[c]]

\* After the last fault nobody reads the disk, and it is forgotten.
Fault ==
  /\ faults < MaxFaults /\ faults' = faults + 1
  /\ IF faults' < MaxFaults THEN UNCHANGED disk
     ELSE diskClients' = [i \in Slots |-> Empty] /\ diskStamps' = [i \in Slots |-> 0]

\* The answer to a call that is lost with the connection.
Lost(c) == Fault /\ Disconnected({c})

Drop(c) ==
  /\ session[c] /\ Lost(c)
  /\ UNCHANGED <<ram, appVars, secret, hist, pairs, presses>>

(***************************************************************************)
(* The calls of authenticate(), each with its method on the device.        *)
(***************************************************************************)

\* Mutant: the answer carries the random from before it was renewed.
AuthInfoStale(c) ==
  /\ \/ cpc[c] = "loop" /\ ~auth[c]
     \/ cpc[c] = "info2"
  /\ session[c]
  /\ LET next == IF secret[c] # NoSecret THEN "auth"
                 ELSE IF pairable /\ cpc[c] = "loop" THEN "pair" ELSE "loop"
     IN cpc' = [cpc EXCEPT ![c] = next]
  /\ UNCHANGED <<ram, disk, appVars, session, auth, random, secret, hist, bounds>>

\* auth_info renews the random, and authenticate() keeps it in a local. Without
\* a secret the client pairs if it may, or gives up. After a pairing the random
\* is fetched again; an empty secret makes no HMAC then: importKey throws.
AuthInfo(c) ==
  /\ \/ cpc[c] = "loop" /\ ~auth[c]
     \/ cpc[c] = "info2"
  /\ session[c]
  /\ LET next == IF secret[c] # NoSecret THEN "auth"
                 ELSE IF pairable /\ cpc[c] = "loop" THEN "pair" ELSE "loop"
     IN /\ cpc' = [cpc EXCEPT ![c] = next]
        /\ random' = [random EXCEPT ![c] = next # "loop"]
  /\ UNCHANGED <<ram, disk, appVars, session, auth, secret, hist, bounds>>

\* pair makes a secret while the window is open, and asks for its end. Once it
\* is closed the answer is empty, and what the client stores is no secret.
MakeSecret(c) ==
  /\ pairable /\ pairs < MaxPairs /\ pairs' = pairs + 1
  /\ LET after == Created(clients, stamps, c, pairs')
     IN clients' = after.clients /\ stamps' = after.stamps
  /\ used' = [used EXCEPT ![c] = 0]
  /\ inbox' = Append(inbox, "BondOff")
  /\ UNCHANGED <<pairable, timer, now, torn, presses>>

Pair(c) ==
  /\ cpc[c] = "pair" /\ session[c]
  /\ \/ MakeSecret(c) /\ secret' = [secret EXCEPT ![c] = pairs'] /\ UNCHANGED disk
     \/ ~pairable /\ UNCHANGED <<ram, disk, appVars, secret, hist, pairs, presses>>
  /\ cpc' = [cpc EXCEPT ![c] = "info2"]
  /\ UNCHANGED <<session, auth, random, faults>>

PairLost(c) ==
  /\ cpc[c] = "pair" /\ session[c]
  /\ MakeSecret(c) /\ Lost(c)
  /\ UNCHANGED secret

\* The device has the client's secret.
Knows(c) == HasId(clients, c) /\ clients[IdxById(clients, c)].secret = secret[c]
LetIn(c) == random[c] /\ Knows(c)

Time(c) == IF c \in Fast THEN now + Ahead ELSE now
Seen(c) ==
  /\ stamps' = IF LetIn(c) THEN Stamped(clients, stamps, c, Time(c)) ELSE stamps
  /\ used' = IF LetIn(c) THEN [used EXCEPT ![c] = now] ELSE used
  /\ UNCHANGED <<clients, appVars, now, torn, pairs, presses>>

\* Mutant: a refusal leaves the secret where it is.
AuthenticateKeeps(c) ==
  /\ cpc[c] = "auth" /\ session[c]
  /\ Seen(c)
  /\ random' = [random EXCEPT ![c] = FALSE]
  /\ auth' = [auth EXCEPT ![c] = LetIn(c)]
  /\ cpc' = [cpc EXCEPT ![c] = "loop"]
  /\ UNCHANGED <<disk, session, secret, faults>>

\* authenticate renews the random, then compares. A client that is turned away
\* drops its secret.
Authenticate(c) ==
  /\ cpc[c] = "auth" /\ session[c]
  /\ Seen(c)
  /\ random' = [random EXCEPT ![c] = FALSE]
  /\ auth' = [auth EXCEPT ![c] = LetIn(c)]
  /\ secret' = IF LetIn(c) THEN secret ELSE [secret EXCEPT ![c] = NoSecret]
  /\ cpc' = [cpc EXCEPT ![c] = "loop"]
  /\ UNCHANGED <<disk, session, faults>>

AuthenticateLost(c) ==
  /\ cpc[c] = "auth" /\ session[c]
  /\ Seen(c) /\ Lost(c)
  /\ UNCHANGED secret

(***************************************************************************)
(* The window.                                                             *)
(***************************************************************************)

\* Five clicks take their time: what was in the queue is long done. A click in
\* Idle does nothing.
Press ==
  /\ presses < MaxPresses /\ presses < now /\ presses' = presses + 1
  /\ inbox = <<>> /\ inbox' = <<IF pairable THEN "1x" ELSE "5x">>
  /\ UNCHANGED <<ram, disk, pairable, timer, linkVars, webVars, hist, pairs, faults>>

\* The timer's callback posts; it has run once then.
Timeout ==
  /\ timer /\ timer' = FALSE
  /\ inbox' = Append(inbox, "BondOff")
  /\ UNCHANGED <<ram, disk, pairable, linkVars, webVars, hist, bounds>>

\* Idle takes five clicks, Bonding one click and BondOff. The window opens also when
\* its timer cannot be created or started. HeaterApp has the rest.
EnterBonding == pairable' = TRUE /\ timer' \in BOOLEAN
LeaveBonding == pairable' = FALSE /\ timer' = FALSE
App ==
  /\ inbox # <<>> /\ inbox' = Tail(inbox)
  /\ \/ ~pairable /\ Head(inbox) = "5x" /\ EnterBonding
     \/ pairable /\ Head(inbox) # "5x" /\ LeaveBonding
     \/ (pairable <=> Head(inbox) = "5x") /\ UNCHANGED <<pairable, timer>>
  /\ UNCHANGED <<ram, disk, linkVars, webVars, hist, bounds>>

(***************************************************************************)
(* The preferences, power cuts and the clock.                              *)
(***************************************************************************)

SaveClients ==
  /\ faults < MaxFaults
  /\ diskClients # clients /\ diskClients' = clients
  /\ UNCHANGED <<ram, diskStamps, appVars, linkVars, webVars, hist, bounds>>

SaveStamps ==
  /\ faults < MaxFaults
  /\ diskStamps # stamps /\ diskStamps' = stamps
  /\ UNCHANGED <<ram, diskClients, appVars, linkVars, webVars, hist, bounds>>

\* The device restarts with what is on disk; the clients live on.
PowerCut ==
  /\ Fault
  /\ clients' = diskClients /\ stamps' = diskStamps
  /\ torn' = (torn \/ ram # disk)
  /\ pairable' = FALSE /\ timer' = FALSE /\ inbox' = <<>>
  /\ Disconnected(Clients)
  /\ UNCHANGED <<secret, now, used, pairs, presses>>

\* A unit of time is half a day or more: no call, no write to the disk and no
\* window that has its timer takes as long. The clock counts from the first time a client is let in.
Tick ==
  /\ \E c \in Clients : used[c] # 0
  /\ \A c \in Clients : cpc[c] = "loop"
  /\ ~timer /\ inbox = <<>>
  /\ ram = disk \/ faults = MaxFaults
  /\ now < MaxTime /\ now' = now + 1
  /\ UNCHANGED <<ram, disk, appVars, linkVars, webVars, used, torn, bounds>>

\* The loop of a page.
Page(c) == Connect(c) \/ AuthInfo(c) \/ Pair(c) \/ Authenticate(c)

Next == \/ \E c \in Clients : Page(c) \/ Drop(c) \/ PairLost(c) \/ AuthenticateLost(c)
        \/ Press \/ Timeout \/ App
        \/ SaveClients \/ SaveStamps \/ PowerCut \/ Tick

Spec == Init /\ [][Next]_vars

\* The device's tasks run, a timer expires, and the page of a client that has a
\* secret is open; whether the others ever come is up to their users.
FairSpec ==
  /\ Spec
  /\ \A c \in Clients : WF_vars(secret[c] # NoSecret /\ Page(c))
  /\ WF_vars(Timeout \/ App)

-----------------------------------------------------------------------------
(***************************************************************************)
(* Properties.                                                             *)
(***************************************************************************)

\* No client is ever in two slots, in memory or on disk, though it pairs again
\* when the answer to the first pairing was lost.
OneSlot(table) ==
  \A i, j \in Slots : table[i].id = table[j].id /\ table[i].id # NoClient => i = j
IdsUnique == OneSlot(clients) /\ OneSlot(diskClients)

\* With the types of the state: what the store relies on.
StoreOK == TypeOK /\ IdsUnique

\* "Wrong key. Clear it" (BleRpcClient.ts:193): a client drops its secret only
\* when the device has another for it, or none. No lost answer, stale random or
\* restart makes it forget a pairing that still stands.
SecretDroppedOnlyIfGone ==
  [][\A c \in Clients : secret[c] # NoSecret /\ secret'[c] = NoSecret => ~Knows(c)]_vars

\* idxLRU: of two clients, the one that pairing drives out was not let in later
\* than the other, but for a day (set_timestamp). Clients whose clock is ahead
\* have no claim, and neither has anyone once a power cut caught the two tables
\* apart.
EvictsLeastRecent ==
  [][\A e, d \in Clients \ Fast :
       HasId(clients, e) /\ ~HasId(clients', e) /\ HasId(clients, d) /\ HasId(clients', d) =>
         torn' \/ used[e] <= used[d] + Day]_vars

\* A client is kept out only by the others: they hold all the sessions.
KeptOut(c) == PoolFull /\ ~session[c]

\* Nobody knocks for ever at a device that has a session for it: when no more
\* connections drop, a client that holds a secret is let in, or has dropped the
\* secret, so that it can be paired again, or the pool is full of others.
HoldersGetIn ==
  <>[](\A c \in Clients : secret[c] # NoSecret => auth[c] \/ KeptOut(c))
=============================================================================
