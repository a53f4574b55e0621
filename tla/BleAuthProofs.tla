--------------------------- MODULE BleAuthProofs ----------------------------
(***************************************************************************)
(* Proofs about BleAuth, for any number of clients, of slots of the store  *)
(* and of faults: the tables keep their types and no client is in two      *)
(* slots (StoreOK), and a client drops a secret only when the device has   *)
(* not got it (SecretDroppedOnlyIfGone), and a pairing drives out the      *)
(* client that was let in least recently, but for a day                    *)
(* (EvictsLeastRecent).                                                    *)
(***************************************************************************)
EXTENDS BleAuth, WellFoundedInduction, TLAPS

(***************************************************************************)
(* The operations of the store.                                            *)
(***************************************************************************)

\* create keeps the tables what they are, whatever slot it chooses.
LEMMA CreatedTyped ==
  ASSUME NEW table \in [Slots -> Records], NEW s \in [Slots -> Times],
         NEW c \in Clients, NEW x \in Secrets
  PROVE  /\ Created(table, s, c, x).clients \in [Slots -> Records]
         /\ Created(table, s, c, x).stamps \in [Slots -> Times]
<1>1. [id |-> c, secret |-> x] \in Records
  BY DEF Records
<1>2. 0 \in Times
  BY BoundsAssumption, FastAssumption DEF Times
<1> DEFINE i == SlotFor(table, s, c)
<1>3. /\ [table EXCEPT ![i] = [id |-> c, secret |-> x]] \in [Slots -> Records]
      /\ [s EXCEPT ![i] = 0] \in [Slots -> Times]
  BY <1>1, <1>2
<1> QED  BY <1>3 DEF Created

\* A client that is in the store is found, where there is but one of it.
LEMMA FoundById ==
  ASSUME NEW table \in [Slots -> Records], OneSlot(table), NEW c \in Clients, HasId(table, c)
  PROVE  IdxById(table, c) \in Slots /\ table[IdxById(table, c)].id = c
<1>1. PICK i \in Slots : table[i].id = c
  BY DEF HasId
<1>2. \A j \in 1..(i - 1) : table[j].id # c
  BY <1>1, RecordsAssumption, NoClientAssumption DEF OneSlot, Slots
<1> QED  BY <1>1, <1>2 DEF IdxById

\* create never puts a client into a second slot.
LEMMA CreatedOnce ==
  ASSUME NEW table \in [Slots -> Records], OneSlot(table), NEW s, NEW c \in Clients, NEW x
  PROVE  OneSlot(Created(table, s, c, x).clients)
<1> DEFINE i == SlotFor(table, s, c)
           after == [table EXCEPT ![i] = [id |-> c, secret |-> x]]
<1>1. \A j \in Slots \ {i} : after[j].id = table[j].id /\ table[j].id # c
  <2>1. CASE HasId(table, c)
    BY <2>1, FoundById, NoClientAssumption DEF OneSlot, SlotFor
  <2>2. CASE ~HasId(table, c)
    BY <2>2, NoClientAssumption DEF HasId
  <2> QED  BY <2>1, <2>2
<1>2. i \in Slots => after[i].id = c
  OBVIOUS
<1>3. OneSlot(after)
  <2> SUFFICES ASSUME NEW j \in Slots, NEW k \in Slots,
                      after[j].id = after[k].id, after[j].id # NoClient
               PROVE  j = k
    BY DEF OneSlot
  <2>1. CASE j = i
    BY <2>1, <1>1, <1>2
  <2>2. CASE k = i
    BY <2>2, <1>1, <1>2
  <2>3. CASE j # i /\ k # i
    BY <2>3, <1>1 DEF OneSlot
  <2> QED  BY <2>1, <2>2, <2>3
<1> QED  BY <1>3 DEF Created

\* set_timestamp keeps the table of times what it is.
LEMMA StampedTyped ==
  ASSUME NEW table, NEW s \in [Slots -> Times], NEW c, NEW time \in Times
  PROVE  Stamped(table, s, c, time) \in [Slots -> Times]
BY DEF Stamped

-----------------------------------------------------------------------------
(***************************************************************************)
(* The invariant.                                                          *)
(***************************************************************************)

\* A client that is about to authenticate has the random of its session: nothing
\* but a new connection, which begins anew, has renewed it in between.
RandomHeld == \A c \in Clients : cpc[c] = "auth" => random[c]
IInv == StoreOK /\ RandomHeld

LEMMA ConstantsTyped ==
  /\ 0 \in Times /\ 0 \in 0..MaxTime /\ NoSecret \in Secrets \cup {NoSecret}
  /\ Empty \in Records
  /\ \A t \in 0..MaxTime : t \in Times /\ t + Ahead \in Times
BY BoundsAssumption, FastAssumption DEF Times, Records, Empty, NoSecret

\* What a connection that ends does to the client that had it.
LEMMA DisconnectedKeeps ==
  ASSUME TypeOK, RandomHeld, NEW gone, Disconnected(gone)
  PROVE  /\ session' \in [Clients -> BOOLEAN] /\ auth' \in [Clients -> BOOLEAN]
         /\ random' \in [Clients -> BOOLEAN]
         /\ cpc' \in [Clients -> {"loop", "pair", "info2", "auth"}]
         /\ RandomHeld'
<1>1. session' \in [Clients -> BOOLEAN] /\ auth' \in [Clients -> BOOLEAN]
      /\ random' \in [Clients -> BOOLEAN]
  BY Zenon DEF Disconnected
<1>2. cpc' \in [Clients -> {"loop", "pair", "info2", "auth"}]
  BY DEF Disconnected, TypeOK
<1>3. RandomHeld'
  BY DEF Disconnected, RandomHeld, TypeOK
<1> QED  BY <1>1, <1>2, <1>3

\* A fault leaves the preferences as they are, or as they were to begin with.
LEMMA FaultKeeps ==
  ASSUME TypeOK, OneSlot(diskClients), Fault
  PROVE  /\ diskClients' \in [Slots -> Records] /\ diskStamps' \in [Slots -> Times]
         /\ OneSlot(diskClients')
BY ConstantsTyped, NoClientAssumption DEF Fault, TypeOK, OneSlot, Empty, disk

\* What is made for a client is a secret that no client had, and it is stored.
LEMMA MakeSecretKeeps ==
  ASSUME TypeOK, OneSlot(clients), NEW c \in Clients, MakeSecret(c)
  PROVE  /\ clients' \in [Slots -> Records] /\ stamps' \in [Slots -> Times]
         /\ OneSlot(clients')
         /\ pairs' \in 0..MaxPairs /\ pairs' \in Secrets
         /\ used' \in [Clients -> 0..MaxTime]
         /\ inbox' \in Seq({"5x", "1x", "BondOff"})
<1>1. pairs' \in 0..MaxPairs /\ pairs' \in Secrets
  BY BoundsAssumption DEF MakeSecret, TypeOK, Secrets
<1>2. /\ clients' = Created(clients, stamps, c, pairs').clients
      /\ stamps' = Created(clients, stamps, c, pairs').stamps
  BY DEF MakeSecret
<1>3. clients' \in [Slots -> Records] /\ stamps' \in [Slots -> Times] /\ OneSlot(clients')
  BY <1>1, <1>2, CreatedTyped, CreatedOnce DEF TypeOK
<1>4. used' \in [Clients -> 0..MaxTime] /\ inbox' \in Seq({"5x", "1x", "BondOff"})
  BY ConstantsTyped DEF MakeSecret, TypeOK
<1> QED  BY <1>1, <1>3, <1>4

\* A client that is let in is stamped with its time.
LEMMA SeenKeeps ==
  ASSUME TypeOK, NEW c \in Clients, Seen(c)
  PROVE  stamps' \in [Slots -> Times] /\ used' \in [Clients -> 0..MaxTime]
<1>1. Time(c) \in Times
  BY ConstantsTyped, BoundsAssumption DEF Time, TypeOK
<1>2. stamps' \in [Slots -> Times]
  BY <1>1, StampedTyped DEF Seen, TypeOK
<1>3. used' \in [Clients -> 0..MaxTime]
  BY BoundsAssumption DEF Seen, TypeOK
<1> QED  BY <1>2, <1>3

\* The types, by who holds the variables.
StoreTypes ==
  /\ clients \in [Slots -> Records] /\ diskClients \in [Slots -> Records]
  /\ stamps \in [Slots -> Times] /\ diskStamps \in [Slots -> Times]
AppTypes ==
  pairable \in BOOLEAN /\ timer \in BOOLEAN /\ inbox \in Seq({"5x", "1x", "BondOff"})
LinkTypes ==
  /\ session \in [Clients -> BOOLEAN] /\ auth \in [Clients -> BOOLEAN]
  /\ random \in [Clients -> BOOLEAN]
WebTypes ==
  /\ cpc \in [Clients -> {"loop", "pair", "info2", "auth"}]
  /\ secret \in [Clients -> Secrets \cup {NoSecret}]
HistTypes ==
  now \in 1..MaxTime /\ used \in [Clients -> 0..MaxTime] /\ torn \in BOOLEAN
Typed == StoreTypes /\ AppTypes /\ LinkTypes /\ WebTypes /\ HistTypes /\ pairs \in 0..MaxPairs

LEMMA TypeSplit == TypeOK <=> Typed
BY Zenon DEF TypeOK, Typed, StoreTypes, AppTypes, LinkTypes, WebTypes, HistTypes

LEMMA InitIInv == Init => IInv
<1> SUFFICES ASSUME Init PROVE IInv
  OBVIOUS
<1>1. TypeOK
  <2>1. StoreTypes /\ inbox \in Seq({"5x", "1x", "BondOff"})
    BY ConstantsTyped DEF Init, StoreTypes
  <2>2. WebTypes /\ used \in [Clients -> 0..MaxTime]
    BY ConstantsTyped DEF Init, WebTypes, All
  <2>3. LinkTypes /\ pairable \in BOOLEAN /\ timer \in BOOLEAN /\ torn \in BOOLEAN
    BY Zenon DEF Init, LinkTypes, All
  <2>4. now \in 1..MaxTime /\ pairs \in 0..MaxPairs
    BY BoundsAssumption DEF Init
  <2> QED  BY <2>1, <2>2, <2>3, <2>4, TypeSplit, Zenon DEF Typed, AppTypes, HistTypes
<1>2. IdsUnique
  BY NoClientAssumption DEF Init, IdsUnique, OneSlot, Empty
<1>3. RandomHeld
  BY DEF Init, RandomHeld, All
<1> QED  BY <1>1, <1>2, <1>3 DEF IInv, StoreOK

-----------------------------------------------------------------------------
(***************************************************************************)
(* The steps.                                                              *)
(***************************************************************************)

\* A step of one client that leaves the store alone, or changes it by one of its
\* operations.
LEMMA ConnectStep == ASSUME IInv, NEW c \in Clients, Connect(c) PROVE IInv'
<1>1. session' \in [Clients -> BOOLEAN]
  BY Zenon DEF Connect, IInv, StoreOK, TypeOK
<1>2. TypeOK'
  BY <1>1, Zenon DEF Connect, IInv, StoreOK, TypeOK, ram, disk, appVars, webVars, hist, bounds
<1>3. IdsUnique' /\ RandomHeld'
  BY DEF Connect, IInv, StoreOK, IdsUnique, OneSlot, RandomHeld, ram, disk, webVars
<1> QED  BY <1>2, <1>3 DEF IInv, StoreOK

LEMMA DropStep == ASSUME IInv, NEW c \in Clients, Drop(c) PROVE IInv'
<1>1. TypeOK /\ RandomHeld /\ OneSlot(clients) /\ OneSlot(diskClients)
  BY DEF IInv, StoreOK, IdsUnique
<1>2. Disconnected({c}) /\ Fault
  BY DEF Drop, Lost
<1>3. TypeOK'
  BY <1>1, <1>2, DisconnectedKeeps, FaultKeeps, Zenon
     DEF Drop, TypeOK, ram, appVars, hist
<1>4. IdsUnique'
  BY <1>1, <1>2, FaultKeeps DEF Drop, IdsUnique, OneSlot, ram
<1> QED  BY <1>1, <1>2, <1>3, <1>4, DisconnectedKeeps DEF IInv, StoreOK

LEMMA AuthInfoStep == ASSUME IInv, NEW c \in Clients, AuthInfo(c) PROVE IInv'
<1>1. TypeOK /\ RandomHeld /\ IdsUnique
  BY DEF IInv, StoreOK
<1>2. PICK next \in {"loop", "pair", "auth"} :
        /\ cpc' = [cpc EXCEPT ![c] = next]
        /\ random' = [random EXCEPT ![c] = next # "loop"]
  BY DEF AuthInfo
<1>3. cpc' \in [Clients -> {"loop", "pair", "info2", "auth"}]
  BY <1>1, <1>2 DEF TypeOK
<1>4. random' \in [Clients -> BOOLEAN]
  BY <1>1, <1>2, Zenon DEF TypeOK
<1>5. TypeOK'
  BY <1>1, <1>3, <1>4, Zenon DEF AuthInfo, TypeOK, ram, disk, appVars, hist, bounds
<1>6. IdsUnique' /\ RandomHeld'
  BY <1>1, <1>2 DEF AuthInfo, IdsUnique, OneSlot, RandomHeld, TypeOK, ram, disk
<1> QED  BY <1>5, <1>6 DEF IInv, StoreOK

LEMMA PairStep == ASSUME IInv, NEW c \in Clients, Pair(c) PROVE IInv'
<1>1. TypeOK /\ RandomHeld /\ OneSlot(clients) /\ OneSlot(diskClients)
  BY DEF IInv, StoreOK, IdsUnique
<1>2. cpc' \in [Clients -> {"loop", "pair", "info2", "auth"}] /\ RandomHeld'
  BY <1>1 DEF Pair, TypeOK, RandomHeld
<1>3. CASE MakeSecret(c) /\ secret' = [secret EXCEPT ![c] = pairs'] /\ UNCHANGED disk
  <2>1. secret' \in [Clients -> Secrets \cup {NoSecret}]
    BY <1>1, <1>3, MakeSecretKeeps DEF TypeOK
  <2>2. TypeOK'
    BY <1>1, <1>2, <1>3, <2>1, MakeSecretKeeps, Zenon DEF Pair, MakeSecret, TypeOK, disk
  <2>3. IdsUnique'
    BY <1>1, <1>3, MakeSecretKeeps DEF IdsUnique, OneSlot, disk
  <2> QED  BY <1>2, <2>2, <2>3 DEF IInv, StoreOK
<1>4. CASE UNCHANGED <<ram, disk, appVars, secret, hist, pairs, presses>>
  <2>1. TypeOK'
    BY <1>1, <1>2, <1>4, Zenon DEF Pair, TypeOK, ram, disk, appVars, hist
  <2>2. IdsUnique'
    BY <1>1, <1>4 DEF IdsUnique, OneSlot, ram, disk
  <2> QED  BY <1>2, <2>1, <2>2 DEF IInv, StoreOK
<1> QED  BY <1>3, <1>4 DEF Pair

LEMMA PairLostStep == ASSUME IInv, NEW c \in Clients, PairLost(c) PROVE IInv'
<1>1. TypeOK /\ RandomHeld /\ OneSlot(clients) /\ OneSlot(diskClients)
  BY DEF IInv, StoreOK, IdsUnique
<1>2. MakeSecret(c) /\ Disconnected({c}) /\ Fault /\ UNCHANGED secret
  BY DEF PairLost, Lost
<1>3. TypeOK'
  BY <1>1, <1>2, MakeSecretKeeps, DisconnectedKeeps, FaultKeeps, Zenon DEF MakeSecret, TypeOK
<1>4. IdsUnique'
  BY <1>1, <1>2, MakeSecretKeeps, FaultKeeps DEF IdsUnique, OneSlot
<1> QED  BY <1>1, <1>2, <1>3, <1>4, DisconnectedKeeps DEF IInv, StoreOK

LEMMA AuthenticateStep == ASSUME IInv, NEW c \in Clients, Authenticate(c) PROVE IInv'
<1>1. TypeOK /\ RandomHeld /\ IdsUnique
  BY DEF IInv, StoreOK
<1>2. Seen(c)
  BY DEF Authenticate
<1>3. cpc' \in [Clients -> {"loop", "pair", "info2", "auth"}]
      /\ secret' \in [Clients -> Secrets \cup {NoSecret}]
  BY <1>1 DEF Authenticate, TypeOK
<1>4. LetIn(c) \in BOOLEAN
  BY <1>1, Zenon DEF LetIn, Knows, HasId, TypeOK
<1>5. auth' \in [Clients -> BOOLEAN] /\ random' \in [Clients -> BOOLEAN]
  BY <1>1, <1>4, Zenon DEF Authenticate, TypeOK
<1>6. TypeOK'
  BY <1>1, <1>2, <1>3, <1>5, SeenKeeps, Zenon DEF Authenticate, Seen, TypeOK, disk, appVars
<1>7. IdsUnique' /\ RandomHeld'
  BY <1>1, <1>2 DEF Authenticate, Seen, IdsUnique, OneSlot, RandomHeld, TypeOK, disk
<1> QED  BY <1>6, <1>7 DEF IInv, StoreOK

LEMMA AuthenticateLostStep ==
  ASSUME IInv, NEW c \in Clients, AuthenticateLost(c) PROVE IInv'
<1>1. TypeOK /\ RandomHeld /\ OneSlot(clients) /\ OneSlot(diskClients)
  BY DEF IInv, StoreOK, IdsUnique
<1>2. Seen(c) /\ Disconnected({c}) /\ Fault /\ UNCHANGED secret
  BY DEF AuthenticateLost, Lost
<1>3. TypeOK'
  BY <1>1, <1>2, SeenKeeps, DisconnectedKeeps, FaultKeeps, Zenon DEF Seen, TypeOK, appVars
<1>4. IdsUnique'
  BY <1>1, <1>2, FaultKeeps DEF Seen, IdsUnique, OneSlot
<1> QED  BY <1>1, <1>2, <1>3, <1>4, DisconnectedKeeps DEF IInv, StoreOK

\* The window, the queue and the clock have nothing to do with the store.
LEMMA OtherStep ==
  ASSUME IInv, Press \/ Timeout \/ App \/ Tick \/ UNCHANGED vars PROVE IInv'
<1>1. TypeOK /\ RandomHeld /\ IdsUnique
  BY DEF IInv, StoreOK
<1>2. UNCHANGED <<ram, disk, linkVars, webVars, used, torn, pairs>>
  BY DEF Press, Timeout, App, Tick, vars, hist, bounds
<1>3. inbox' \in Seq({"5x", "1x", "BondOff"})
  <2>1. inbox \in Seq({"5x", "1x", "BondOff"})
    BY <1>1 DEF TypeOK
  <2>2. CASE Press
    <3>1. <<"1x">> \in Seq({"5x", "1x", "BondOff"}) /\ <<"5x">> \in Seq({"5x", "1x", "BondOff"})
      OBVIOUS
    <3> QED  BY <2>2, <3>1, Zenon DEF Press
  <2>3. CASE Timeout
    BY <2>1, <2>3 DEF Timeout
  <2>4. CASE App
    <3>1. inbox # <<>> /\ inbox' = Tail(inbox)
      BY <2>4 DEF App
    <3> QED  BY <2>1, <3>1
  <2>5. CASE Tick \/ UNCHANGED vars
    BY <2>1, <2>5 DEF Tick, vars, appVars
  <2> QED  BY <2>2, <2>3, <2>4, <2>5
<1>4. pairable' \in BOOLEAN /\ timer' \in BOOLEAN
  BY <1>1, Zenon
     DEF Press, Timeout, App, Tick, vars, appVars, TypeOK, EnterBonding, LeaveBonding
<1>5. now' \in 1..MaxTime
  BY <1>1, BoundsAssumption DEF Press, Timeout, App, Tick, vars, hist, TypeOK
<1>6. TypeOK'
  BY <1>1, <1>2, <1>3, <1>4, <1>5, Zenon DEF TypeOK, ram, disk, linkVars, webVars
<1>7. IdsUnique' /\ RandomHeld'
  BY <1>1, <1>2 DEF IdsUnique, OneSlot, RandomHeld, ram, disk, linkVars, webVars
<1> QED  BY <1>6, <1>7 DEF IInv, StoreOK

LEMMA SaveStep == ASSUME IInv, SaveClients \/ SaveStamps PROVE IInv'
<1>1. TypeOK /\ RandomHeld /\ IdsUnique
  BY DEF IInv, StoreOK
<1>2. TypeOK'
  BY <1>1, Zenon DEF SaveClients, SaveStamps, TypeOK, ram, appVars, linkVars, webVars, hist, bounds
<1>3. IdsUnique' /\ RandomHeld'
  BY <1>1 DEF SaveClients, SaveStamps, IdsUnique, OneSlot, RandomHeld, ram, linkVars, webVars
<1> QED  BY <1>2, <1>3 DEF IInv, StoreOK

LEMMA PowerCutStep == ASSUME IInv, PowerCut PROVE IInv'
<1>1. TypeOK /\ RandomHeld /\ OneSlot(clients) /\ OneSlot(diskClients)
  BY DEF IInv, StoreOK, IdsUnique
<1>2. Disconnected(Clients) /\ Fault
  BY DEF PowerCut
<1>3. inbox' \in Seq({"5x", "1x", "BondOff"})
  BY DEF PowerCut
<1>4. torn' \in BOOLEAN /\ pairable' \in BOOLEAN /\ timer' \in BOOLEAN
  BY Zenon DEF PowerCut
<1>5. TypeOK'
  BY <1>1, <1>2, <1>3, <1>4, DisconnectedKeeps, FaultKeeps, Zenon DEF PowerCut, TypeOK
<1>6. IdsUnique'
  BY <1>1, <1>2, FaultKeeps DEF PowerCut, IdsUnique, OneSlot
<1> QED  BY <1>1, <1>2, <1>5, <1>6, DisconnectedKeeps DEF IInv, StoreOK

LEMMA Step == IInv /\ [Next]_vars => IInv'
BY ConnectStep, DropStep, AuthInfoStep, PairStep, PairLostStep, AuthenticateStep,
   AuthenticateLostStep, OtherStep, SaveStep, PowerCutStep
   DEF Next, Page

LEMMA Invariance == Spec => []IInv
<1> QED  BY InitIInv, Step, PTL DEF Spec

\* No client is ever in two slots of the store, in memory or on disk, however
\* often it pairs anew and wherever the power is cut.
THEOREM StoreIsOK == Spec => []StoreOK
<1>1. IInv => StoreOK
  BY DEF IInv
<1> QED  BY <1>1, Invariance, PTL

\* No step but a refusal takes a client's secret from it, and the device refuses
\* only a client whose secret it has not got.
LEMMA DropsIfGone ==
  ASSUME IInv, [Next]_vars, NEW c \in Clients, secret[c] # NoSecret, secret'[c] = NoSecret
  PROVE  ~Knows(c)
<1>1. TypeOK /\ RandomHeld
  BY DEF IInv, StoreOK
<1>2. secret' # secret
  OBVIOUS
<1>3. CASE \E d \in Clients : Pair(d)
  <2>1. PICK d \in Clients : Pair(d)
    BY <1>3
  <2>2. secret' = [secret EXCEPT ![d] = pairs'] /\ MakeSecret(d)
    BY <1>2, <2>1 DEF Pair
  <2>3. pairs' \in Nat \ {0}
    BY <1>1, <2>2, BoundsAssumption DEF MakeSecret, TypeOK
  <2> QED  BY <1>1, <2>2, <2>3 DEF TypeOK, NoSecret
<1>4. CASE \E d \in Clients : Authenticate(d)
  <2>1. PICK d \in Clients : Authenticate(d)
    BY <1>4
  <2>2. ~LetIn(d) /\ d = c
    BY <1>1, <2>1 DEF Authenticate, TypeOK
  <2>3. random[c]
    BY <1>1, <2>1, <2>2 DEF Authenticate, RandomHeld
  <2> QED  BY <2>2, <2>3 DEF LetIn
<1>5. CASE ~(\E d \in Clients : Pair(d) \/ Authenticate(d))
  <2>1. UNCHANGED secret
    BY <1>5, Zenon
       DEF Next, Page, vars, webVars, Connect, AuthInfo, Drop, PairLost, AuthenticateLost,
           Press, Timeout, App, SaveClients, SaveStamps, PowerCut, Tick
  <2> QED  BY <1>2, <2>1
<1> QED  BY <1>3, <1>4, <1>5

\* A pairing that stands is never forgotten by the client, whatever answers are
\* lost, connections drop and restarts come in between.
THEOREM PairingsStand == Spec => SecretDroppedOnlyIfGone
<1>1. IInv /\ [Next]_vars =>
        [\A c \in Clients : secret[c] # NoSecret /\ secret'[c] = NoSecret => ~Knows(c)]_vars
  BY DropsIfGone
<1> QED  BY <1>1, Invariance, PTL DEF Spec, SecretDroppedOnlyIfGone
-----------------------------------------------------------------------------
(***************************************************************************)
(* Whom a pairing drives out.                                              *)
(***************************************************************************)

\* Any numbers have a least one among them.
LEMMA LeastNumber ==
  ASSUME NEW T \in SUBSET Nat, T # {}
  PROVE  \E m \in T : \A x \in T : m <= x
<1>1. PICK m \in T : \A x \in T : ~(<<x, m>> \in OpToRel(<, Nat))
  BY WFMin, NatLessThanWellFounded, Zenon
<1>2. \A x \in T : x < m => <<x, m>> \in OpToRel(<, Nat)
  BY Zenon DEF OpToRel
<1>3. \A x \in T : ~(x < m)
  BY <1>1, <1>2, Zenon
<1>4. \A x \in T : m <= x
  BY <1>3
<1> QED  BY <1>4

\* min_element finds a slot: none has a smaller time.
LEMMA LRUFound ==
  ASSUME NEW s \in [Slots -> Times]
  PROVE  IdxLRU(s) \in Slots /\ \A j \in Slots : s[IdxLRU(s)] <= s[j]
<1>1. Slots \subseteq Nat /\ 1 \in Slots
  BY RecordsAssumption DEF Slots
<1>2. \A i \in Slots : s[i] \in Nat
  BY BoundsAssumption, FastAssumption DEF Times
<1> DEFINE values == {s[i] : i \in Slots}
<1>3. PICK m \in values : \A x \in values : m <= x
  <2>1. values \in SUBSET Nat /\ values # {}
    BY <1>1, <1>2
  <2> HIDE DEF values
  <2> QED  BY <2>1, LeastNumber
<1> DEFINE oldest == {i \in Slots : s[i] = m}
<1>4. PICK i \in oldest : \A x \in oldest : i <= x
  <2>1. oldest \in SUBSET Nat /\ oldest # {}
    BY <1>1, <1>3
  <2> HIDE DEF oldest
  <2> QED  BY <2>1, LeastNumber
<1>5. \A j \in Slots : s[i] <= s[j]
  BY <1>3, <1>4
<1>6. \A j \in 1..(i - 1) : s[i] < s[j]
  <2> SUFFICES ASSUME NEW j \in 1..(i - 1) PROVE s[i] < s[j]
    OBVIOUS
  <2>1. j \in Slots /\ j < i
    BY <1>1, <1>4, RecordsAssumption DEF Slots
  <2>2. s[j] # m
    BY <1>1, <1>4, <2>1
  <2> QED  BY <1>2, <1>4, <1>5, <2>1, <2>2
<1>7. i \in Slots
  BY <1>4
<1> QED  BY <1>5, <1>6, <1>7 DEF IdxLRU

\* The time in the slot of a client is the last time it was let in, or up to a
\* day older. A client whose clock is ahead has a time of its own, and once the
\* tables were torn apart nothing is known.
Follows(c) ==
  /\ used[c] <= now
  /\ \A i \in Slots : clients[i].id = c => stamps[i] <= used[c] /\ used[c] <= stamps[i] + Day
StampsFollow == torn \/ \A c \in Clients \ Fast : Follows(c)

LEMMA TimesAreNumbers ==
  ASSUME TypeOK
  PROVE  /\ now \in Nat \ {0} /\ Day \in Nat /\ Ahead \in Nat
         /\ \A i \in Slots : stamps[i] \in Nat
         /\ \A c \in Clients : used[c] \in Nat
BY BoundsAssumption, FastAssumption, RecordsAssumption DEF TypeOK, Times

\* A new secret starts the times of its client anew.
LEMMA MakeSecretFollows ==
  ASSUME IInv, StampsFollow, NEW c \in Clients, MakeSecret(c)
  PROVE  StampsFollow'
<1>1. TypeOK /\ OneSlot(clients)
  BY DEF IInv, StoreOK, IdsUnique
<1> DEFINE i == SlotFor(clients, stamps, c)
<1>2. /\ clients' = [clients EXCEPT ![i] = [id |-> c, secret |-> pairs']]
      /\ stamps' = [stamps EXCEPT ![i] = 0]
      /\ used' = [used EXCEPT ![c] = 0]
      /\ now' = now /\ torn' = torn
  BY DEF MakeSecret, Created
<1>3. \A j \in Slots : clients[j].id = c => i = j
  <2> SUFFICES ASSUME NEW j \in Slots, clients[j].id = c PROVE i = j
    OBVIOUS
  <2>1. HasId(clients, c)
    BY NoClientAssumption DEF HasId
  <2>2. i \in Slots /\ clients[i].id = c
    BY <1>1, <2>1, FoundById DEF SlotFor, TypeOK
  <2> QED  BY <1>1, <2>2, NoClientAssumption DEF OneSlot
<1> HIDE DEF i
<1> SUFFICES ASSUME ~torn, NEW d \in Clients \ Fast PROVE Follows(d)'
  BY <1>2 DEF StampsFollow
<1>4. Follows(d)
  BY DEF StampsFollow
<1>5. CASE d = c
  <2>1. used'[d] = 0
    BY <1>1, <1>2, <1>5 DEF TypeOK
  <2>2. \A j \in Slots : clients'[j].id = d => stamps'[j] = 0
    BY <1>1, <1>2, <1>3, <1>5 DEF TypeOK
  <2> QED  BY <1>1, <1>2, <2>1, <2>2, TimesAreNumbers DEF Follows
<1>6. CASE d # c
  <2>1. used'[d] = used[d]
    BY <1>2, <1>6
  <2>2. \A j \in Slots : clients'[j].id = d => clients[j].id = d /\ stamps'[j] = stamps[j]
    BY <1>1, <1>2, <1>6 DEF TypeOK
  <2> QED  BY <1>2, <1>4, <2>1, <2>2 DEF Follows
<1> QED  BY <1>5, <1>6

\* set_timestamp leaves the times of the others alone, for none is in the future,
\* and writes the client's own but when it is recent enough.
LEMMA SeenFollows ==
  ASSUME IInv, StampsFollow, NEW c \in Clients, Seen(c)
  PROVE  StampsFollow'
<1>1. TypeOK /\ OneSlot(clients)
  BY DEF IInv, StoreOK, IdsUnique
<1>2. clients' = clients /\ now' = now /\ torn' = torn
  BY DEF Seen
<1> SUFFICES ASSUME ~torn, NEW d \in Clients \ Fast PROVE Follows(d)'
  BY <1>2 DEF StampsFollow
<1>3. Follows(d)
  BY DEF StampsFollow
<1>4. CASE ~LetIn(c)
  BY <1>2, <1>3, <1>4 DEF Seen, Follows
<1>5. CASE LetIn(c)
  <2> DEFINE i == IdxById(clients, c)
             time == Time(c)
  <2>1. i \in Slots /\ clients[i].id = c
    BY <1>1, <1>5, FoundById DEF LetIn, Knows, TypeOK
  <2>2. /\ stamps' = Stamped(clients, stamps, c, time)
        /\ used' = [used EXCEPT ![c] = now]
    BY <1>5 DEF Seen
  <2>3. time \in Nat /\ now <= time /\ (c \notin Fast => time = now)
    BY <1>1, TimesAreNumbers DEF Time
  <2>4. \A j \in Slots : stamps'[j] = stamps[j] \/ (stamps'[j] = time /\ Due(stamps[i], time)
                           /\ (j = i \/ stamps[j] > time + Day))
    BY <1>1, <2>2 DEF Stamped, TypeOK
  <2>5. Due(stamps[i], time) => stamps'[i] = time
    BY <2>1, <2>2 DEF Stamped
  <2>6. ~Due(stamps[i], time) => stamps' = stamps
    BY <2>2 DEF Stamped
  <2> HIDE DEF i, time
  <2>7. CASE d = c
    <3>1. used'[d] = now
      BY <1>1, <2>2, <2>7 DEF TypeOK
    <3>2. \A j \in Slots : clients[j].id = d => j = i
      BY <1>1, <2>1, <2>7, NoClientAssumption DEF OneSlot
    <3>3. stamps[i] <= now /\ time = now
      BY <1>1, <1>3, <2>1, <2>3, <2>7, TimesAreNumbers DEF Follows
    <3>4. stamps'[i] <= now /\ now <= stamps'[i] + Day
      <4>1. CASE Due(stamps[i], time)
        BY <1>1, <2>5, <3>3, <4>1, TimesAreNumbers
      <4>2. CASE ~Due(stamps[i], time)
        BY <1>1, <2>1, <2>6, <3>3, <4>2, TimesAreNumbers DEF Due
      <4> QED  BY <4>1, <4>2
    <3> QED  BY <1>1, <1>2, <3>1, <3>2, <3>4, TimesAreNumbers DEF Follows
  <2>8. CASE d # c
    <3>1. used'[d] = used[d]
      BY <2>2, <2>8
    <3>2. \A j \in Slots : clients[j].id = d => stamps'[j] = stamps[j]
      <4> SUFFICES ASSUME NEW j \in Slots, clients[j].id = d PROVE stamps'[j] = stamps[j]
        OBVIOUS
      <4>1. j # i
        BY <2>1, <2>8
      <4>2. ~(stamps[j] > time + Day)
        BY <1>1, <1>3, <2>3, TimesAreNumbers DEF Follows
      <4> QED  BY <2>4, <4>1, <4>2
    <3> QED  BY <1>2, <1>3, <3>1, <3>2 DEF Follows
  <2> QED  BY <2>7, <2>8
<1> QED  BY <1>4, <1>5

\* What a step can do to the store and its times.
StoreKept == UNCHANGED <<clients, stamps, used, torn>> /\ now' \in {now, now + 1}
LEMMA StoreSteps ==
  ASSUME [Next]_vars
  PROVE  StoreKept \/ PowerCut \/ \E c \in Clients : MakeSecret(c) \/ Seen(c)
<1>1. CASE \E c \in Clients : Page(c) \/ Drop(c) \/ PairLost(c) \/ AuthenticateLost(c)
  BY <1>1 DEF Page, Connect, AuthInfo, Pair, Authenticate, Drop, PairLost, AuthenticateLost,
              StoreKept, ram, hist
<1>2. CASE Press \/ Timeout \/ App \/ SaveClients \/ SaveStamps \/ Tick \/ UNCHANGED vars
  BY <1>2 DEF Press, Timeout, App, SaveClients, SaveStamps, Tick, vars, StoreKept, ram, hist
<1> QED  BY <1>1, <1>2 DEF Next

\* A power cut that tears nothing leaves the store as it was.
LEMMA CutKeeps ==
  ASSUME PowerCut, ~torn'
  PROVE  ~torn /\ UNCHANGED <<clients, stamps, used, now>>
BY DEF PowerCut, ram, disk

LEMMA StampsFollowStep ==
  ASSUME IInv, StampsFollow, [Next]_vars
  PROVE  StampsFollow'
<1>1. CASE StoreKept
  <2>1. TypeOK
    BY DEF IInv, StoreOK
  <2> SUFFICES ASSUME ~torn, NEW c \in Clients \ Fast, Follows(c) PROVE Follows(c)'
    BY <1>1 DEF StampsFollow, StoreKept
  <2> QED  BY <1>1, <2>1, TimesAreNumbers DEF StoreKept, Follows
<1>2. CASE PowerCut
  BY <1>2, CutKeeps DEF StampsFollow, Follows
<1>3. CASE \E c \in Clients : MakeSecret(c) \/ Seen(c)
  BY <1>3, MakeSecretFollows, SeenFollows
<1> QED  BY <1>1, <1>2, <1>3, StoreSteps

LEMMA StampsFollowInvariance == Spec => []StampsFollow
<1>1. Init => StampsFollow
  BY NoClientAssumption DEF Init, StampsFollow, Follows, Empty, All
<1>2. IInv /\ StampsFollow /\ [Next]_vars => StampsFollow'
  BY StampsFollowStep
<1> QED  BY <1>1, <1>2, Invariance, PTL DEF Spec

\* A client leaves the store by the pairing of another, which finds it in the
\* slot with the smallest time.
LEMMA EvictedIsLeast ==
  ASSUME IInv, StampsFollow, [Next]_vars, ~torn',
         NEW e \in Clients \ Fast, NEW d \in Clients \ Fast,
         HasId(clients, e), ~HasId(clients', e), HasId(clients, d)
  PROVE  used[e] <= used[d] + Day
<1>1. TypeOK /\ OneSlot(clients)
  BY DEF IInv, StoreOK, IdsUnique
<1>2. clients' # clients
  OBVIOUS
<1>3. PICK c \in Clients : MakeSecret(c)
  BY <1>2, StoreSteps, CutKeeps DEF StoreKept, Seen
<1>4. ~torn
  BY <1>3 DEF MakeSecret
<1> DEFINE i == SlotFor(clients, stamps, c)
<1>5. clients' = [clients EXCEPT ![i] = [id |-> c, secret |-> pairs']]
  BY <1>3 DEF MakeSecret, Created
<1>6. PICK j \in Slots : clients[j].id = e
  BY DEF HasId
<1>7. j = i /\ c # e
  <2>1. \A k \in Slots : clients'[k].id # e
    BY NoClientAssumption DEF HasId
  <2> QED  BY <1>1, <1>5, <1>6, <2>1 DEF TypeOK
<1>8. i = IdxLRU(stamps)
  <2>1. CASE HasId(clients, c)
    BY <1>1, <1>6, <1>7, <2>1, FoundById DEF SlotFor, TypeOK
  <2>2. CASE ~HasId(clients, c)
    BY <2>2 DEF SlotFor
  <2> QED  BY <2>1, <2>2
<1>9. PICK k \in Slots : clients[k].id = d
  BY DEF HasId
<1>10. stamps[j] <= stamps[k]
  BY <1>1, <1>7, <1>8, LRUFound DEF TypeOK
<1>11. used[e] <= stamps[j] + Day /\ stamps[k] <= used[d]
  BY <1>4, <1>6, <1>9 DEF StampsFollow, Follows
<1> QED  BY <1>1, <1>10, <1>11, TimesAreNumbers

\* Of two clients with true clocks, pairing drives out the one that was let in
\* earlier, or at most a day later, whatever was lost and restarted on the way,
\* unless a power cut tore the tables apart.
THEOREM LeastRecentGoes == Spec => EvictsLeastRecent
<1>1. IInv /\ StampsFollow /\ [Next]_vars =>
        [\A e, d \in Clients \ Fast :
           HasId(clients, e) /\ ~HasId(clients', e) /\ HasId(clients, d) /\ HasId(clients', d) =>
             torn' \/ used[e] <= used[d] + Day]_vars
  BY EvictedIsLeast
<1> QED  BY <1>1, Invariance, StampsFollowInvariance, PTL DEF Spec, EvictsLeastRecent
=============================================================================
