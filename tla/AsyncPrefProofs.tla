-------------------------- MODULE AsyncPrefProofs --------------------------
(***************************************************************************)
(* Proofs about AsyncPref, for every number of words, updates, failed      *)
(* writes and power cuts: what reaches the NVS is never torn.              *)
(***************************************************************************)
EXTENDS AsyncPref, TLAPS

LEMMA InitialValue == Initial \in Values
BY BoundsAssumption DEF Initial, Values

LEMMA TypeStep == TypeOK /\ [Next]_vars => TypeOK'
<1> SUFFICES ASSUME TypeOK, [Next]_vars PROVE TypeOK'
  OBVIOUS
<1> USE DEF TypeOK, memVars, taskVars
<1>1. CASE ValueUpdateBegin
  BY <1>1, BoundsAssumption DEF ValueUpdateBegin
<1>2. CASE WriteWord
  <2>1. value' \in Values
    BY <1>2 DEF WriteWord, Values
  <2>2. todo' \subseteq Words
    BY <1>2 DEF WriteWord
  <2> QED  BY <1>2, <2>1, <2>2, Zenon DEF WriteWord
<1>3. CASE ValueUpdateEnd
  <2>1. version' \in Nat
    BY <1>3 DEF ValueUpdateEnd
  <2> QED  BY <1>3, <2>1, Zenon DEF ValueUpdateEnd
<1>4. CASE Tick
  <2>1. wpc' \in {"sleep", "copy", "save"} /\ seen' \in Nat /\ left' \subseteq Words
    BY <1>4 DEF Tick
  <2> QED  BY <1>4, <2>1, Zenon DEF Tick
<1>5. CASE CopyWord
  <2>1. snapshot' \in Values
    BY <1>5 DEF CopyWord, Values
  <2>2. left' \subseteq Words
    BY <1>5 DEF CopyWord
  <2> QED  BY <1>5, <2>1, <2>2, Zenon DEF CopyWord
<1>6. CASE Accept
  <2>1. wpc' \in {"sleep", "copy", "save"} /\ last' \in Nat
    BY <1>6 DEF Accept
  <2> QED  BY <1>6, <2>1, Zenon DEF Accept
<1>7. CASE Save
  <2>1. kv' \in Values \cup {NoKey} /\ wpc' \in {"sleep", "copy", "save"}
    BY <1>7 DEF Save
  <2>2. fails' \in 0..MaxFails
    BY <1>7, BoundsAssumption DEF Save
  <2>3. pending' \in BOOLEAN
    BY <1>7, Zenon DEF Save
  <2> QED  BY <1>7, <2>1, <2>2, <2>3, Zenon DEF Save
<1>8. CASE PowerCut
  <2>1. Load(kv) \in Values
    BY InitialValue DEF Load
  <2>2. cuts' \in 0..MaxCuts
    BY <1>8, BoundsAssumption DEF PowerCut
  <2>3. 0 \in Nat /\ {} \subseteq Words
    OBVIOUS
  <2> QED  BY <1>8, <2>1, <2>2, <2>3, InitialValue, Zenon DEF PowerCut
<1>9. CASE UNCHANGED vars
  BY <1>9 DEF vars
<1> QED
  BY <1>1, <1>2, <1>3, <1>4, <1>5, <1>6, <1>7, <1>8, <1>9 DEF Next, User, Prefs

\* Every variable keeps its type.
THEOREM TypeCorrect == Spec => []TypeOK
<1>1. Init => TypeOK
  <2>1. 0 \in Nat /\ {} \subseteq Words /\ 0 \in 0..MaxUpdates /\ 0 \in 0..MaxFails
          /\ 0 \in 0..MaxCuts
    BY BoundsAssumption
  <2> QED  BY <2>1, InitialValue, Zenon DEF Init, TypeOK
<1> QED  BY <1>1, TypeStep, PTL DEF Spec

-----------------------------------------------------------------------------
\* Counting parity: an increment changes it.
LEMMA Parity ==
  ASSUME NEW n \in Nat
  PROVE  /\ n % 2 \in {0, 1}
         /\ (n + 1) % 2 = 1 <=> n % 2 = 0
OBVIOUS

\* While the version is even nobody is inside an update; and as long as the
\* version has not left the one a copy began with, the words already copied
\* are those of the value.
CopyInv ==
  /\ ~Updating => value = current /\ todo = {}
  /\ wpc = "copy" =>
       /\ ~pending
       /\ seen <= version /\ seen % 2 = 0
       /\ version = seen => \A w \in Words \ left : snapshot[w] = value[w]

Inv == TypeOK /\ CopyInv

LEMMA CopyStep == Inv /\ [Next]_vars => CopyInv'
<1> SUFFICES ASSUME Inv, [Next]_vars PROVE CopyInv'
  OBVIOUS
<1>a. TypeOK /\ version \in Nat /\ seen \in Nat
  BY DEF Inv, TypeOK
<1>b. (version % 2 \in {0, 1}) /\ ((version + 1) % 2 = 1 <=> version % 2 = 0)
  BY <1>a, Parity
<1> USE DEF Inv, CopyInv, Updating, memVars, taskVars
<1>1. CASE ValueUpdateBegin
  BY <1>1, <1>a, <1>b DEF ValueUpdateBegin
<1>2. CASE WriteWord
  <2>1. (version % 2 = 1 /\ seen % 2 = 0) \/ wpc # "copy"
    BY <1>2, <1>b DEF WriteWord
  <2> QED  BY <1>2, <1>b, <2>1 DEF WriteWord
<1>3. CASE ValueUpdateEnd
  <2>1. wpc = "copy" => seen < version
    BY <1>3, <1>a DEF ValueUpdateEnd
  <2> QED  BY <1>3, <1>a, <1>b, <2>1 DEF ValueUpdateEnd
<1>4. CASE Tick
  BY <1>4, <1>a, <1>b DEF Tick
<1>5. CASE CopyWord
  <2>1. snapshot \in [Words -> 0..MaxUpdates]
    BY DEF TypeOK, Values
  <2> QED  BY <1>5, <2>1 DEF CopyWord
<1>6. CASE Accept
  BY <1>6 DEF Accept
<1>7. CASE Save
  BY <1>7 DEF Save
<1>8. CASE PowerCut
  BY <1>8 DEF PowerCut
<1>9. CASE UNCHANGED vars
  BY <1>9 DEF vars
<1> QED
  BY <1>1, <1>2, <1>3, <1>4, <1>5, <1>6, <1>7, <1>8, <1>9 DEF Next, User, Prefs

LEMMA Invariance == Spec => []Inv
<1>1. Init => CopyInv
  BY DEF Init, CopyInv, Updating
<1>2. TypeOK /\ CopyInv /\ [Next]_vars => CopyInv'
  BY CopyStep DEF Inv
<1>3. Inv <=> TypeOK /\ CopyInv
  BY DEF Inv
<1> QED  BY <1>1, <1>2, <1>3, TypeCorrect, PTL DEF Spec

\* A copy that is accepted is the value of the last complete update.
LEMMA AcceptedIsWhole ==
  ASSUME Inv, wpc = "copy", left = {}, version = seen
  PROVE  snapshot = current
<1>1. \A w \in Words : snapshot[w] = value[w]
  BY DEF Inv, CopyInv
<1>2. value = current
  BY DEF Inv, CopyInv, Updating
<1>3. snapshot \in [Words -> 0..MaxUpdates] /\ value \in [Words -> 0..MaxUpdates]
  BY DEF Inv, TypeOK, Values
<1> QED  BY <1>1, <1>2, <1>3

LEMMA RefinementStep == Inv /\ [Next]_vars => [Cell!CellNext]_(Cell!cellVars)
<1> SUFFICES ASSUME Inv, [Next]_vars PROVE [Cell!CellNext]_(Cell!cellVars)
  OBVIOUS
<1>a. snapshot # NoKey /\ current \in Values /\ value \in Values
  BY NoKeyAssumption DEF Inv, TypeOK
<1> USE DEF Holds, memVars, taskVars, Cell!cellVars, Cell!CellNext
<1>1. CASE ValueUpdateBegin
  BY <1>1 DEF ValueUpdateBegin
<1>2. CASE WriteWord
  BY <1>2 DEF WriteWord
<1>3. CASE ValueUpdateEnd
  BY <1>3, <1>a DEF ValueUpdateEnd, Cell!Set
<1>4. CASE Tick
  BY <1>4 DEF Tick
<1>5. CASE CopyWord
  BY <1>5 DEF CopyWord, Inv, CopyInv
<1>6. CASE Accept
  <2>1. CASE version = seen
    BY <1>6, <2>1, AcceptedIsWhole DEF Accept, Inv, CopyInv, Cell!Take
  <2>2. CASE version # seen
    BY <1>6, <2>2 DEF Accept, Inv, CopyInv
  <2> QED  BY <2>1, <2>2
<1>7. CASE Save
  BY <1>7, <1>a DEF Save, Cell!Store
<1>8. CASE PowerCut
  BY <1>8 DEF PowerCut, Load, Cell!PowerCut
<1>9. CASE UNCHANGED vars
  BY <1>9 DEF vars
<1> QED
  BY <1>1, <1>2, <1>3, <1>4, <1>5, <1>6, <1>7, <1>8, <1>9 DEF Next, User, Prefs

\* What the NVS holds is always one value the user has set as a whole, for any
\* interleaving of updates, copies, failed writes and power cuts.
THEOREM StoredIsWhole == Spec => StoredWhole
<1>1. Init => Cell!CellInit
  BY DEF Init, Holds, Cell!CellInit
<1> QED
  BY <1>1, Invariance, RefinementStep, PTL DEF Spec, StoredWhole, Cell!CellSpec
-----------------------------------------------------------------------------
\* Values only grow, word by word: memory never falls behind a copy that is
\* still to be written, nor such a copy behind the NVS.
Older(a, b) == \A w \in Words : a[w] <= b[w]

AgeInv ==
  /\ \A w \in Words : value[w] <= updates
  /\ Older(current, value)
  /\ kv # NoKey => Older(kv, current)
  /\ Holds => Older(snapshot, current)
  /\ Holds /\ kv # NoKey => Older(kv, snapshot)

\* An order on values, with the initial one at the bottom.
LEMMA OlderOrder ==
  /\ \A a \in Values : Older(a, a) /\ Older(Initial, a)
  /\ \A a, b, c \in Values : Older(a, b) /\ Older(b, c) => Older(a, c)
BY BoundsAssumption DEF Values, Older, Initial

LEMMA AgeStep == Inv /\ AgeInv /\ [Next]_vars => AgeInv'
<1> SUFFICES ASSUME Inv, AgeInv, [Next]_vars PROVE AgeInv'
  OBVIOUS
<1>a. /\ value \in Values /\ current \in Values /\ snapshot \in Values
      /\ kv \in Values \cup {NoKey} /\ updates \in Nat
  BY BoundsAssumption DEF Inv, TypeOK
<1>b. \A a \in Values, w \in Words : a[w] \in Nat
  BY BoundsAssumption DEF Values
<1> USE DEF AgeInv, Holds, memVars, taskVars
<1>1. CASE ValueUpdateBegin
  BY <1>1, <1>a, <1>b DEF ValueUpdateBegin
<1>2. CASE WriteWord
  <2>1. \A w \in Words : value'[w] \in {value[w], updates}
    BY <1>2, <1>a DEF WriteWord, Values
  <2>2. UNCHANGED <<current, updates, snapshot, kv, wpc, pending>>
    BY <1>2 DEF WriteWord
  <2>3. \A w \in Words : current[w] <= value[w] /\ value[w] <= updates
    BY DEF Older
  <2>4. \A w \in Words : current[w] <= value'[w] /\ value'[w] <= updates
    BY <1>a, <1>b, <2>1, <2>3
  <2> QED  BY <2>2, <2>4 DEF Older
<1>3. CASE ValueUpdateEnd
  BY <1>3, <1>a, OlderOrder DEF ValueUpdateEnd
<1>4. CASE Tick
  BY <1>4 DEF Tick, Inv, CopyInv
<1>5. CASE CopyWord
  BY <1>5 DEF CopyWord, Inv, CopyInv
<1>6. CASE Accept
  <2>1. CASE version = seen
    BY <1>6, <1>a, <2>1, AcceptedIsWhole, OlderOrder DEF Accept
  <2>2. CASE version # seen
    BY <1>6, <2>2 DEF Accept, Inv, CopyInv
  <2> QED  BY <2>1, <2>2
<1>7. CASE Save
  BY <1>7, <1>a, OlderOrder DEF Save
<1>8. CASE PowerCut
  <2>1. CASE kv = NoKey
    BY <1>8, <1>a, <1>b, <2>1, InitialValue, OlderOrder DEF PowerCut, Load, Initial
  <2>2. CASE kv # NoKey
    <3>1. kv \in Values /\ value' = kv /\ current' = kv /\ UNCHANGED <<kv, updates>> /\ ~Holds'
      BY <1>8, <1>a, <2>2 DEF PowerCut, Load
    <3>2. \A w \in Words : kv[w] <= current[w] /\ current[w] <= value[w] /\ value[w] <= updates
      BY <2>2 DEF Older
    <3>3. \A w \in Words : kv[w] <= updates
      BY <1>a, <1>b, <3>1, <3>2
    <3> QED  BY <3>1, <3>3, OlderOrder
  <2> QED  BY <2>1, <2>2
<1>9. CASE UNCHANGED vars
  BY <1>9 DEF vars
<1> QED
  BY <1>1, <1>2, <1>3, <1>4, <1>5, <1>6, <1>7, <1>8, <1>9 DEF Next, User, Prefs

LEMMA AgeInvariance == Spec => []AgeInv
<1>1. Init => AgeInv
  BY OlderOrder, InitialValue DEF Init, AgeInv, Holds, Initial
<1> QED  BY <1>1, AgeStep, Invariance, PTL DEF Spec

\* The NVS never goes back to an older value.
THEOREM NeverRollsBack == Spec => NoRollback
<1>1. Inv /\ AgeInv /\ [Next]_vars
        => [kv # NoKey => \A w \in Words : kv'[w] >= kv[w]]_vars
  <2> SUFFICES ASSUME Inv, AgeInv, Next, kv # NoKey, NEW w \in Words
               PROVE  kv'[w] >= kv[w]
    OBVIOUS
  <2>1. kv \in Values /\ kv[w] \in Nat /\ snapshot[w] \in Nat
    BY BoundsAssumption DEF Inv, TypeOK, Values
  <2>2. CASE Save
    BY <2>1, <2>2 DEF Save, AgeInv, Holds, Older
  <2>3. CASE ~Save
    <3>1. kv' = kv
      BY <2>3 DEF Next, User, Prefs, ValueUpdateBegin, WriteWord, ValueUpdateEnd,
                  Tick, CopyWord, Accept, PowerCut
    <3> QED  BY <2>1, <3>1
  <2> QED  BY <2>2, <2>3
<1> QED  BY <1>1, Invariance, AgeInvariance, PTL DEF Spec, NoRollback
=============================================================================
