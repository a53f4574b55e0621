-------------------------- MODULE HeaterAppProofs --------------------------
(***************************************************************************)
(* Proofs about HeaterApp, for every queue size, set of power levels, set  *)
(* of clients and number of inputs.                                        *)
(***************************************************************************)
EXTENDS HeaterApp, TLAPS, SequenceTheorems

USE DEF ClosedLoop, OpenLoop, TaskStates, AppStates, Iterated

\* The lock and the handler's program counter agree, and the steps of
\* task_stop and task_start are only ever taken in a task state.
HolderInv ==
  /\ owner = "none" <=> hpc = "none"
  /\ hpc \in {"stop2", "stop3", "activate", "energize"} => app \in TaskStates

IInv == TypeOK /\ HolderInv /\ RunConfined /\ PairingWindow

LEMMA TargetType ==
  ASSUME NEW s \in AppStates, NEW m \in Queued \cup Commands
  PROVE  Target(s, m) \in AppStates
BY ClientAssumption DEF Target, Stops, Queued, Buttons

LEMMA EnqueueType ==
  ASSUME TypeOK, NEW m \in Queued, Enqueue(m)
  PROVE  /\ queue' \in Seq(Queued) /\ Len(queue') <= QueueSize
         /\ lost' \subseteq Queued
<1>1. Len(queue) \in Nat /\ queue \in Seq(Queued) /\ lost \subseteq Queued
  BY DEF TypeOK
<1>2. CASE Len(queue) < QueueSize
  <2>1. queue' = Append(queue, m) /\ lost' = lost
    BY <1>2 DEF Enqueue
  <2>2. queue' \in Seq(Queued) /\ Len(queue') = Len(queue) + 1
    BY <1>1, <2>1, AppendProperties
  <2> QED  BY <1>1, <1>2, <2>1, <2>2, QueueSizeAssumption
<1>3. CASE ~(Len(queue) < QueueSize)
  BY <1>3 DEF Enqueue, TypeOK
<1> QED  BY <1>2, <1>3

\* TypeOK, split for the provers: the Boolean variables, and the others.
Flags == active \in BOOLEAN /\ control \in BOOLEAN /\ healthy \in BOOLEAN
           /\ pairing \in BOOLEAN /\ panicked \in BOOLEAN

Data ==
  /\ app \in AppStates /\ next \in AppStates
  /\ owner \in {"none", "consumer", "rpc"}
  /\ hpc \in HandlerPcs
  /\ cmd \in Watts
  /\ queue \in Seq(Queued) /\ Len(queue) <= QueueSize
  /\ lost \subseteq Queued
  /\ iterator \in Iterated \cup {"none"}
  /\ power \in Watts
  /\ kpc \in TickPcs
  /\ kpower \in Watts
  /\ timers \subseteq {"live", "failed", "dying"}
  /\ inputs \in 0..MaxInputs

LEMMA TypeSplit == TypeOK <=> Flags /\ Data
BY Zenon DEF TypeOK, Flags, Data

LEMMA InitIInv == Init => IInv
<1> SUFFICES ASSUME Init PROVE IInv
  OBVIOUS
<1>1. queue \in Seq(Queued) /\ Len(queue) <= QueueSize
  BY QueueSizeAssumption, EmptySeq DEF Init
<1>2. Flags
  BY Zenon DEF Init, Flags
<1>3. Data
  BY <1>1, WattsAssumption, InputsAssumption DEF Init, Data, HandlerPcs, TickPcs
<1>4. HolderInv /\ RunConfined /\ PairingWindow
  BY DEF Init, HolderInv, RunConfined, PairingWindow
<1> QED  BY <1>2, <1>3, <1>4, TypeSplit DEF IInv

LEMMA FlagsStep == Flags /\ [Next]_vars => Flags'
<1> SUFFICES ASSUME Flags, [Next]_vars PROVE Flags'
  OBVIOUS
<1> USE DEF Flags, appVars, busVars, heatVars, tickVars, bondVars
<1>1. CASE ConsumerReceive
  BY <1>1, Zenon DEF ConsumerReceive, Receive
<1>2. CASE RpcReceive
  BY <1>2, Zenon DEF RpcReceive, Receive
<1>3. CASE ExitState
  BY <1>3, Zenon DEF ExitState, CloseWindow
<1>4. CASE StopIterator
  BY <1>4, Zenon DEF StopIterator
<1>5. CASE StopPower
  BY <1>5, Zenon DEF StopPower
<1>6. CASE EnterState
  BY <1>6, Zenon DEF EnterState, OpenWindow
<1>7. CASE Activate
  BY <1>7, Zenon DEF Activate
<1>8. CASE Energize
  BY <1>8, Zenon DEF Energize
<1>9. CASE TickHealth
  BY <1>9, Zenon DEF TickHealth, KUnchanged
<1>10. CASE TickGate
  BY <1>10, Zenon DEF TickGate, KUnchanged
<1>11. CASE TickRegulate
  BY <1>11, Zenon DEF TickRegulate, KUnchanged
<1>12. CASE TickApply
  BY <1>12, Zenon DEF TickApply, KUnchanged
<1>13. CASE TickIterate
  BY <1>13, Zenon DEF TickIterate, KUnchanged
<1>14. CASE TickInvoke
  BY <1>14, Zenon DEF TickInvoke
<1>15. CASE TickFinish
  BY <1>15, Zenon DEF TickFinish, KUnchanged
<1>16. CASE ButtonEvent
  BY <1>16, Zenon DEF ButtonEvent
<1>17. CASE RpcPair
  BY <1>17, Zenon DEF RpcPair
<1>18. CASE HealthChanges
  BY <1>18, Zenon DEF HealthChanges
<1>23. CASE PowerDown
  BY <1>23, Zenon DEF PowerDown
<1>19. CASE TimerExpires("live") \/ TimerExpires("dying")
  BY <1>19, Zenon DEF TimerExpires
<1>20. CASE TimerDeleted
  BY <1>20, Zenon DEF TimerDeleted
<1>21. CASE Reboot
  BY <1>21, Zenon DEF Reboot
<1>22. CASE UNCHANGED vars
  BY <1>22, Zenon DEF vars
<1> QED
  BY <1>1, <1>2, <1>3, <1>4, <1>5, <1>6, <1>7, <1>8, <1>9, <1>10, <1>11, <1>12, <1>13, <1>14, <1>15, <1>16, <1>17, <1>18, <1>19, <1>20, <1>21, <1>22, <1>23
     DEF Next, Handler, Tick

LEMMA DataStep == Flags /\ Data /\ [Next]_vars => Data'
<1> SUFFICES ASSUME Flags, Data, [Next]_vars PROVE Data'
  OBVIOUS
<1>a. TypeOK
  BY TypeSplit
<1> USE DEF Data, HandlerPcs, TickPcs, appVars, busVars, heatVars, tickVars, bondVars
<1>1. CASE ConsumerReceive
  <2>1. Head(queue) \in Queued /\ queue' \in Seq(Queued) /\ Len(queue') <= QueueSize
    BY <1>1, HeadTailProperties, QueueSizeAssumption DEF ConsumerReceive
  <2>2. Target(app, Head(queue)) \in AppStates
    BY <2>1, TargetType
  <2> QED  BY <1>1, <2>1, <2>2, WattsAssumption DEF ConsumerReceive, Receive
<1>2. CASE RpcReceive
  <2>1. PICK m \in Commands \cup {"Stop", "StopOk"}, w \in Watts : Receive("rpc", m, w)
    BY <1>2 DEF RpcReceive
  <2>2. Target(app, m) \in AppStates
    BY <2>1, TargetType DEF Queued
  <2> QED  BY <1>2, <2>1, <2>2, InputsAssumption DEF RpcReceive, Receive, Input
<1>3. CASE ExitState
  <2>1. timers' \subseteq {"live", "failed", "dying"}
    BY <1>3 DEF ExitState, CloseWindow
  <2>2. app' \in AppStates /\ hpc' \in HandlerPcs
    BY <1>3 DEF ExitState, CloseWindow
  <2> QED  BY <1>3, <2>1, <2>2, Zenon DEF ExitState, CloseWindow
<1>4. CASE StopIterator   BY <1>4 DEF StopIterator, Holding
<1>5. CASE StopPower      BY <1>5, WattsAssumption DEF StopPower, Holding
<1>6. CASE EnterState
  <2>1. timers' \subseteq {"live", "failed", "dying"}
    BY <1>6 DEF EnterState, OpenWindow
  <2>2. iterator' \in Iterated \cup {"none"}
    BY <1>6 DEF EnterState, OpenWindow
  <2>3. owner' \in {"none", "consumer", "rpc"} /\ hpc' \in HandlerPcs /\ next' \in AppStates
    BY <1>6 DEF EnterState, OpenWindow
  <2> QED  BY <1>6, <2>1, <2>2, <2>3, Zenon DEF EnterState, OpenWindow
<1>7. CASE Activate       BY <1>7 DEF Activate, Holding
<1>8. CASE Energize       BY <1>8 DEF Energize, Holding
<1>9. CASE TickHealth
  BY <1>9, <1>a, EnqueueType DEF TickHealth, KUnchanged, At, Queued
<1>10. CASE TickGate      BY <1>10 DEF TickGate, KUnchanged, At
<1>11. CASE TickRegulate  BY <1>11 DEF TickRegulate, KUnchanged, At
<1>12. CASE TickApply     BY <1>12 DEF TickApply, KUnchanged, At
<1>13. CASE TickIterate   BY <1>13 DEF TickIterate, KUnchanged, At
<1>14. CASE TickInvoke
  BY <1>14, <1>a, EnqueueType DEF TickInvoke, At, Queued
<1>15. CASE TickFinish
  <2>1. queue' \in Seq(Queued) /\ Len(queue') <= QueueSize /\ lost' \subseteq Queued
    BY <1>15, <1>a, EnqueueType DEF TickFinish, Queued
  <2>2. /\ kpc' \in TickPcs /\ kpower' \in Watts /\ power' \in Watts
        /\ iterator' \in Iterated \cup {"none"}
    BY <1>15, WattsAssumption DEF TickFinish
  <2>3. UNCHANGED <<app, next, owner, hpc, cmd, timers, inputs>>
    BY <1>15, Zenon DEF TickFinish, KUnchanged
  <2> QED  BY <2>1, <2>2, <2>3
<1>16. CASE ButtonEvent
  BY <1>16, <1>a, EnqueueType, ClientAssumption, InputsAssumption
     DEF ButtonEvent, Input, Queued, Buttons
<1>17. CASE RpcPair
  BY <1>17, <1>a, EnqueueType, InputsAssumption DEF RpcPair, Input, Queued
<1>18. CASE HealthChanges
  BY <1>18, InputsAssumption DEF HealthChanges, Input
<1>23. CASE PowerDown
  BY <1>23, <1>a, EnqueueType, InputsAssumption, WattsAssumption DEF PowerDown, Input, Queued
<1>19. CASE TimerExpires("live") \/ TimerExpires("dying")
  <2>1. queue' \in Seq(Queued) /\ Len(queue') <= QueueSize /\ lost' \subseteq Queued
    BY <1>19, <1>a, EnqueueType DEF TimerExpires, Queued
  <2>2. timers' \subseteq {"live", "failed", "dying"}
    BY <1>19 DEF TimerExpires
  <2> QED  BY <1>19, <2>1, <2>2 DEF TimerExpires
<1>20. CASE TimerDeleted  BY <1>20 DEF TimerDeleted
<1>21. CASE Reboot
  <2>1. queue' \in Seq(Queued) /\ Len(queue') <= QueueSize
    BY <1>21, EmptySeq, QueueSizeAssumption DEF Reboot
  <2>2. timers' \subseteq {"live", "failed", "dying"} /\ lost' \subseteq Queued
    BY <1>21 DEF Reboot
  <2> QED  BY <1>21, <2>1, <2>2, WattsAssumption DEF Reboot
<1>22. CASE UNCHANGED vars  BY <1>22 DEF vars
<1> QED
  BY <1>1, <1>2, <1>3, <1>4, <1>5, <1>6, <1>7, <1>8, <1>9, <1>10, <1>11, <1>12,
     <1>13, <1>14, <1>15, <1>16, <1>17, <1>18, <1>19, <1>20, <1>21, <1>22, <1>23
     DEF Next, Handler, Tick

\* Every variable keeps its type, whatever the tasks interleave.
THEOREM TypeCorrect == Spec => []TypeOK
<1>1. Init => TypeOK
  BY InitIInv DEF IInv
<1>2. TypeOK /\ [Next]_vars => TypeOK'
  BY FlagsStep, DataStep, Zenon DEF TypeOK, Flags, Data
<1> QED  BY <1>1, <1>2, PTL DEF Spec
-----------------------------------------------------------------------------
\* No step of any task breaks the lock discipline, lets the machinery run
\* outside its state, or opens the pairing window outside BONDING.
LEMMA SafeStep == IInv /\ [Next]_vars => (HolderInv /\ RunConfined /\ PairingWindow)'
<1> SUFFICES ASSUME IInv, [Next]_vars PROVE (HolderInv /\ RunConfined /\ PairingWindow)'
  OBVIOUS
<1> USE DEF IInv, TypeOK, HandlerPcs, HolderInv, RunConfined, PairingWindow,
            appVars, heatVars, bondVars
<1>1. CASE ConsumerReceive
  BY <1>1 DEF ConsumerReceive, Receive
<1>2. CASE RpcReceive
  BY <1>2 DEF RpcReceive, Receive, Input
<1>3. CASE ExitState
  BY <1>3 DEF ExitState, CloseWindow, Holding
<1>4. CASE StopIterator
  BY <1>4 DEF StopIterator, Holding
<1>5. CASE StopPower
  BY <1>5 DEF StopPower, Holding
<1>6. CASE EnterState
  BY <1>6 DEF EnterState, OpenWindow, Holding
<1>7. CASE Activate
  BY <1>7 DEF Activate, Holding
<1>8. CASE Energize
  BY <1>8 DEF Energize, Holding
<1>9. CASE TickHealth
  BY <1>9 DEF TickHealth, KUnchanged
<1>10. CASE TickGate
  BY <1>10 DEF TickGate, KUnchanged
<1>11. CASE TickRegulate
  BY <1>11 DEF TickRegulate, KUnchanged
<1>12. CASE TickApply
  BY <1>12 DEF TickApply, KUnchanged
<1>13. CASE TickIterate
  BY <1>13 DEF TickIterate, KUnchanged
<1>14. CASE TickInvoke
  BY <1>14 DEF TickInvoke
<1>15. CASE TickFinish
  BY <1>15 DEF TickFinish, KUnchanged
<1>16. CASE ButtonEvent
  BY <1>16 DEF ButtonEvent
<1>17. CASE RpcPair
  BY <1>17 DEF RpcPair
<1>18. CASE HealthChanges
  BY <1>18 DEF HealthChanges
<1>23. CASE PowerDown
  BY <1>23 DEF PowerDown
<1>19. CASE TimerExpires("live") \/ TimerExpires("dying")
  BY <1>19 DEF TimerExpires
<1>20. CASE TimerDeleted
  BY <1>20 DEF TimerDeleted
<1>21. CASE Reboot
  BY <1>21 DEF Reboot
<1>22. CASE UNCHANGED vars
  BY <1>22 DEF vars
<1> QED
  BY <1>1, <1>2, <1>3, <1>4, <1>5, <1>6, <1>7, <1>8, <1>9, <1>10, <1>11, <1>12, <1>13, <1>14, <1>15, <1>16, <1>17, <1>18, <1>19, <1>20, <1>21, <1>22, <1>23
     DEF Next, Handler, Tick

LEMMA Invariance == Spec => []IInv
<1>1. Init => IInv
  BY InitIInv
<1>2. IInv /\ [Next]_vars => IInv'
  <2>1. IInv /\ [Next]_vars => TypeOK'
    BY FlagsStep, DataStep, Zenon DEF IInv, TypeOK, Flags, Data
  <2> QED  BY <2>1, SafeStep DEF IInv
<1> QED  BY <1>1, <1>2, PTL DEF Spec

\* The heater task machinery is on only inside the state that owns it,
\* wherever the two tasks that stop it are interrupted.
THEOREM RunIsConfined == Spec => []RunConfined
<1>1. IInv => RunConfined
  BY DEF IInv
<1> QED  BY <1>1, Invariance, PTL

\* The pairing window is open exactly in BONDING.
THEOREM PairingIsConfined == Spec => []PairingWindow
<1>1. IInv => PairingWindow
  BY DEF IInv
<1> QED  BY <1>1, Invariance, PTL

-----------------------------------------------------------------------------
\* Messages in the queue: what Enqueue adds and what Tail takes away. Of the
\* two messages that end a state by themselves, none is forgotten.
BusGrows ==
  /\ Waiting("BondOff") => Waiting("BondOff")'
  /\ Waiting("StopOk") => Waiting("StopOk")'
  /\ lost \subseteq lost'

LEMMA BusRests == ASSUME UNCHANGED busVars PROVE BusGrows
BY DEF busVars, BusGrows, Waiting

LEMMA EnqueueKeeps ==
  ASSUME TypeOK, NEW m \in Queued, Enqueue(m)
  PROVE  /\ Waiting(m)' \/ m \in lost'
         /\ BusGrows
<1>1. queue \in Seq(Queued)
  BY DEF TypeOK
<1>2. CASE Len(queue) < QueueSize
  <2>1. queue' = Append(queue, m) /\ lost' = lost
    BY <1>2 DEF Enqueue
  <2>2. /\ Len(queue') = Len(queue) + 1
        /\ \A i \in 1..Len(queue) : queue'[i] = queue[i]
        /\ queue'[Len(queue) + 1] = m
    BY <1>1, <2>1, AppendProperties
  <2>3. /\ DOMAIN queue = 1..Len(queue) /\ DOMAIN queue' = 1..(Len(queue) + 1)
        /\ Len(queue) \in Nat
    BY <1>1, <2>1, <2>2, AppendProperties, LenProperties
  <2> QED  BY <2>1, <2>2, <2>3 DEF Waiting, BusGrows
<1>3. CASE ~(Len(queue) < QueueSize)
  BY <1>3 DEF Enqueue, Waiting, BusGrows
<1> QED  BY <1>2, <1>3

LEMMA TailKeeps ==
  ASSUME TypeOK, queue # <<>>, queue' = Tail(queue), NEW m \in Queued,
         Waiting(m), Head(queue) # m
  PROVE  Waiting(m)'
<1>1. queue \in Seq(Queued) /\ Len(queue) \in Nat /\ DOMAIN queue = 1..Len(queue)
  BY LenProperties DEF TypeOK
<1>2. PICK i \in 1..Len(queue) : queue[i] = m
  BY <1>1 DEF Waiting
<1>3. i # 1
  BY <1>1, <1>2, HeadTailProperties
<1>4. /\ Tail(queue) \in Seq(Queued) /\ Len(Tail(queue)) = Len(queue) - 1
      /\ \A k \in 1..Len(Tail(queue)) : Tail(queue)[k] = queue[k + 1]
  BY <1>1, HeadTailProperties
<1>5. i - 1 \in 1..Len(Tail(queue)) /\ Tail(queue)[i - 1] = m
  BY <1>1, <1>2, <1>3, <1>4
<1>6. i - 1 \in DOMAIN queue' /\ queue'[i - 1] = m
  BY <1>4, <1>5, LenProperties
<1> QED  BY <1>6 DEF Waiting

-----------------------------------------------------------------------------
\* FinishedRunLeaves, strengthened over the last step of the entry.
FinishedRunLeaving ==
  app \in TaskStates /\ hpc \in {"none", "energize"} /\ ~active =>
    kpc \in {"fin2", "fin3", "report"} \/ Waiting("StopOk") \/ "StopOk" \in lost

ClosingInv == IInv /\ BondingCloses /\ FinishedRunLeaving

LEMMA ClosingStep ==
  ClosingInv /\ [Next]_vars => (BondingCloses /\ FinishedRunLeaving)'
<1> SUFFICES ASSUME ClosingInv, [Next]_vars
             PROVE  (BondingCloses /\ FinishedRunLeaving)'
  OBVIOUS
<1>a. TypeOK /\ HolderInv /\ RunConfined
  BY DEF ClosingInv, IInv
<1>b. BondingCloses /\ FinishedRunLeaving
  BY DEF ClosingInv
<1> USE <1>a, <1>b DEF BondingCloses, FinishedRunLeaving, BusGrows,
            appVars, heatVars, bondVars, HolderInv, RunConfined
<1>1. CASE ConsumerReceive
  <2>1. queue # <<>> /\ queue' = Tail(queue) /\ lost' = lost
    BY <1>1 DEF ConsumerReceive
  <2>2. Waiting("BondOff") /\ Head(queue) # "BondOff" => Waiting("BondOff")'
    BY <2>1, TailKeeps DEF Queued
  <2>3. Waiting("StopOk") /\ Head(queue) # "StopOk" => Waiting("StopOk")'
    BY <2>1, TailKeeps DEF Queued
  <2>4. hpc = "none" /\ UNCHANGED <<app, active, kpc, timers>>
    BY <1>1 DEF ConsumerReceive, Receive, tickVars
  <2>5. hpc' = "none" => Target(app, Head(queue)) = app
    BY <1>1 DEF ConsumerReceive, Receive
  <2>6. hpc' \in {"none", "exit"}
    BY <1>1 DEF ConsumerReceive, Receive
  <2>7. app = "BONDING" /\ hpc' = "none" => Head(queue) # "BondOff"
    BY <2>5, ClientAssumption DEF Target, Stops, Buttons
  <2>8. app \in TaskStates /\ hpc' = "none" => Head(queue) # "StopOk"
    BY <2>5, ClientAssumption DEF Target, Stops, Buttons
  <2> QED
    BY <2>1, <2>2, <2>3, <2>4, <2>6, <2>7, <2>8
<1>2. CASE RpcReceive
  BY <1>2, BusRests DEF RpcReceive, Receive, Input, tickVars
<1>3. CASE ExitState
  BY <1>3, BusRests DEF ExitState, CloseWindow, Holding
<1>4. CASE StopIterator
  BY <1>4, BusRests DEF StopIterator, Holding
<1>5. CASE StopPower
  BY <1>5, BusRests DEF StopPower, Holding
<1>6. CASE EnterState
  BY <1>6, BusRests DEF EnterState, OpenWindow, Holding
<1>7. CASE Activate
  BY <1>7, BusRests DEF Activate, Holding
<1>8. CASE Energize
  BY <1>8, BusRests DEF Energize, Holding, tickVars
<1>9. CASE TickHealth
  <2>1. BusGrows
    BY <1>9, BusRests, EnqueueKeeps DEF TickHealth, Queued
  <2> QED  BY <1>9, <2>1 DEF TickHealth, KUnchanged, At
<1>10. CASE TickGate
  BY <1>10, BusRests DEF TickGate, KUnchanged, At
<1>11. CASE TickRegulate
  BY <1>11, BusRests DEF TickRegulate, KUnchanged, At
<1>12. CASE TickApply
  BY <1>12, BusRests DEF TickApply, KUnchanged, At
<1>13. CASE TickIterate
  BY <1>13, BusRests DEF TickIterate, KUnchanged, At
<1>14. CASE TickInvoke
  <2>1. BusGrows
    BY <1>14, BusRests, EnqueueKeeps DEF TickInvoke, Queued
  <2> QED  BY <1>14, <2>1 DEF TickInvoke, At
<1>15. CASE TickFinish
  <2>1. BusGrows
    BY <1>15, BusRests, EnqueueKeeps DEF TickFinish, Queued
  <2>2. kpc = "report" => Waiting("StopOk")' \/ "StopOk" \in lost'
    BY <1>15, EnqueueKeeps DEF TickFinish, At, Queued
  <2>3. kpc # "report" => kpc' \in {"fin2", "fin3", "report"}
    BY <1>15 DEF TickFinish, At
  <2> QED  BY <1>15, <2>1, <2>2, <2>3 DEF TickFinish, KUnchanged
<1>16. CASE ButtonEvent
  <2>1. BusGrows
    BY <1>16, EnqueueKeeps, ClientAssumption DEF ButtonEvent, Queued
  <2> QED  BY <1>16, <2>1 DEF ButtonEvent, tickVars
<1>17. CASE RpcPair
  <2>1. BusGrows
    BY <1>17, EnqueueKeeps DEF RpcPair, Queued
  <2> QED  BY <1>17, <2>1 DEF RpcPair, tickVars
<1>18. CASE HealthChanges
  BY <1>18, BusRests DEF HealthChanges, tickVars
<1>23. CASE PowerDown
  <2>1. BusGrows
    BY <1>23, EnqueueKeeps DEF PowerDown, Queued
  <2> QED  BY <1>23, <2>1 DEF PowerDown, tickVars
<1>19. CASE TimerExpires("live") \/ TimerExpires("dying")
  <2>1. BusGrows /\ (Waiting("BondOff")' \/ "BondOff" \in lost')
    BY <1>19, EnqueueKeeps DEF TimerExpires, Queued
  <2> QED  BY <1>19, <2>1 DEF TimerExpires, tickVars
<1>20. CASE TimerDeleted
  BY <1>20, BusRests DEF TimerDeleted, tickVars
<1>21. CASE Reboot
  BY <1>21 DEF Reboot
<1>22. CASE UNCHANGED vars
  BY <1>22, BusRests DEF vars, tickVars, busVars
<1> QED
  BY <1>1, <1>2, <1>3, <1>4, <1>5, <1>6, <1>7, <1>8, <1>9, <1>10, <1>11, <1>12,
     <1>13, <1>14, <1>15, <1>16, <1>17, <1>18, <1>19, <1>20, <1>21, <1>22, <1>23
     DEF Next, Handler, Tick

LEMMA ClosingInvariance == Spec => []ClosingInv
<1>1. Init => BondingCloses /\ FinishedRunLeaving
  BY DEF Init, BondingCloses, FinishedRunLeaving
<1>2. Init => ClosingInv
  BY <1>1, InitIInv DEF ClosingInv
<1>3. IInv /\ IInv' /\ ClosingInv /\ [Next]_vars => ClosingInv'
  BY ClosingStep DEF ClosingInv
<1>4. ClosingInv => IInv
  BY DEF ClosingInv
<1> QED  BY <1>2, <1>3, <1>4, Invariance, PTL DEF Spec

\* A BONDING window that was given its timer has a way out of its own, however
\* timer, queue and handlers interleave, unless a full queue dropped a BondOff.
THEOREM BondingCanClose == Spec => []BondingCloses
<1>1. ClosingInv => BondingCloses
  BY DEF ClosingInv
<1> QED  BY <1>1, ClosingInvariance, PTL

\* A run that has ended by itself never sits in its task state unnoticed.
THEOREM FinishedRunIsLeaving == Spec => []FinishedRunLeaves
<1>1. ClosingInv => FinishedRunLeaves
  BY DEF ClosingInv, FinishedRunLeaving, FinishedRunLeaves
<1> QED  BY <1>1, ClosingInvariance, PTL

\* Neither transient state is a dead end unseen: what ends it is on its way, a
\* full queue has dropped it, or the window opened without its timer.
THEOREM AlwaysAWayOutHolds == Spec => []AlwaysAWayOut
<1>1. BondingCloses /\ FinishedRunLeaves => AlwaysAWayOut
  BY DEF AlwaysAWayOut
<1> QED  BY <1>1, BondingCanClose, FinishedRunIsLeaving, PTL
-----------------------------------------------------------------------------
(***************************************************************************)
(* HeaterApp implements HeaterRun.                                         *)
(***************************************************************************)

\* A task state is only ever left for a state without a task.
LeaveInv == app \in TaskStates /\ hpc \in {"exit", "stop2", "stop3"} => next = "IDLE"

LEMMA LeaveTarget ==
  ASSUME NEW s \in TaskStates, NEW m, Target(s, m) # s
  PROVE  Target(s, m) = "IDLE"
BY DEF Target, Stops

LEMMA LeaveStep == IInv /\ LeaveInv /\ [Next]_vars => LeaveInv'
<1> SUFFICES ASSUME IInv, LeaveInv, [Next]_vars PROVE LeaveInv'
  OBVIOUS
<1> USE DEF IInv, HolderInv, LeaveInv, appVars
<1>1. CASE ConsumerReceive
  BY <1>1, LeaveTarget DEF ConsumerReceive, Receive
<1>2. CASE RpcReceive
  BY <1>2, LeaveTarget DEF RpcReceive, Receive, Input
<1>3. CASE ExitState
  BY <1>3 DEF ExitState, CloseWindow, Holding
<1>4. CASE StopIterator
  BY <1>4 DEF StopIterator, Holding
<1>5. CASE StopPower
  BY <1>5 DEF StopPower, Holding
<1>6. CASE EnterState
  BY <1>6 DEF EnterState, OpenWindow, Holding
<1>7. CASE Activate
  BY <1>7 DEF Activate, Holding
<1>8. CASE Energize
  BY <1>8 DEF Energize, Holding
<1>9. CASE TickHealth
  BY <1>9 DEF TickHealth, KUnchanged
<1>10. CASE TickGate
  BY <1>10 DEF TickGate, KUnchanged
<1>11. CASE TickRegulate
  BY <1>11 DEF TickRegulate, KUnchanged
<1>12. CASE TickApply
  BY <1>12 DEF TickApply, KUnchanged
<1>13. CASE TickIterate
  BY <1>13 DEF TickIterate, KUnchanged
<1>14. CASE TickInvoke
  BY <1>14 DEF TickInvoke
<1>15. CASE TickFinish
  BY <1>15 DEF TickFinish, KUnchanged
<1>16. CASE ButtonEvent
  BY <1>16 DEF ButtonEvent
<1>17. CASE RpcPair
  BY <1>17 DEF RpcPair
<1>18. CASE HealthChanges
  BY <1>18 DEF HealthChanges
<1>23. CASE PowerDown
  BY <1>23 DEF PowerDown
<1>19. CASE TimerExpires("live") \/ TimerExpires("dying")
  BY <1>19 DEF TimerExpires
<1>20. CASE TimerDeleted
  BY <1>20 DEF TimerDeleted
<1>21. CASE Reboot
  BY <1>21 DEF Reboot
<1>22. CASE UNCHANGED vars
  BY <1>22 DEF vars
<1> QED
  BY <1>1, <1>2, <1>3, <1>4, <1>5, <1>6, <1>7, <1>8, <1>9, <1>10, <1>11, <1>12,
     <1>13, <1>14, <1>15, <1>16, <1>17, <1>18, <1>19, <1>20, <1>21, <1>22, <1>23
     DEF Next, Handler, Tick

LEMMA LeaveInvariance == Spec => []LeaveInv
<1>1. Init => LeaveInv
  BY DEF Init, LeaveInv
<1> QED  BY <1>1, LeaveStep, Invariance, PTL DEF Spec

LEMMA RefinementStep ==
  IInv /\ LeaveInv /\ [Next]_vars => [Run!RunNext]_(Run!runVars)
<1> SUFFICES ASSUME IInv, LeaveInv, [Next]_vars
             PROVE  [Run!RunNext]_(Run!runVars)
  OBVIOUS
<1> USE DEF IInv, TypeOK, HolderInv, RunConfined, LeaveInv, RunTask, RunPhase,
            Run!runVars, Run!RunNext, Run!Work, Run!Enter, Run!Ignite,
            Run!Extinguish, Run!Leave, Run!Abort, Run!Restart,
            appVars, heatVars, At
<1>1. CASE ConsumerReceive
  BY <1>1 DEF ConsumerReceive, Receive
<1>2. CASE RpcReceive
  BY <1>2 DEF RpcReceive, Receive, Input
<1>3. CASE ExitState
  BY <1>3 DEF ExitState, CloseWindow, Holding
<1>4. CASE StopIterator
  BY <1>4 DEF StopIterator, Holding
<1>5. CASE StopPower
  BY <1>5 DEF StopPower, Holding
<1>6. CASE EnterState
  BY <1>6 DEF EnterState, OpenWindow, Holding
<1>7. CASE Activate
  BY <1>7 DEF Activate, Holding
<1>8. CASE Energize
  BY <1>8 DEF Energize, Holding
<1>9. CASE TickHealth
  BY <1>9 DEF TickHealth, KUnchanged
<1>10. CASE TickGate
  BY <1>10 DEF TickGate, KUnchanged
<1>11. CASE TickRegulate
  BY <1>11 DEF TickRegulate, KUnchanged
<1>12. CASE TickApply
  BY <1>12 DEF TickApply, KUnchanged
<1>13. CASE TickIterate
  BY <1>13 DEF TickIterate, KUnchanged
<1>14. CASE TickInvoke
  BY <1>14 DEF TickInvoke
<1>15. CASE TickFinish
  BY <1>15 DEF TickFinish, KUnchanged
<1>16. CASE ButtonEvent
  BY <1>16 DEF ButtonEvent
<1>17. CASE RpcPair
  BY <1>17 DEF RpcPair
<1>18. CASE HealthChanges
  BY <1>18 DEF HealthChanges
<1>23. CASE PowerDown
  BY <1>23 DEF PowerDown
<1>19. CASE TimerExpires("live") \/ TimerExpires("dying")
  BY <1>19 DEF TimerExpires
<1>20. CASE TimerDeleted
  BY <1>20 DEF TimerDeleted
<1>21. CASE Reboot
  BY <1>21 DEF Reboot
<1>22. CASE UNCHANGED vars
  BY <1>22 DEF vars
<1> QED
  BY <1>1, <1>2, <1>3, <1>4, <1>5, <1>6, <1>7, <1>8, <1>9, <1>10, <1>11, <1>12,
     <1>13, <1>14, <1>15, <1>16, <1>17, <1>18, <1>19, <1>20, <1>21, <1>22, <1>23
     DEF Next, Handler, Tick

\* The state machine and the heater task together keep the promise of
\* HeaterRun, whatever interleaving the scheduler picks: runs come one at a
\* time and each goes through its phases forwards only.
THEOREM RunsComeInOrder == Spec => RunsInOrder
<1>1. Init => Run!RunInit
  BY DEF Init, Run!RunInit, RunTask, RunPhase
<1> QED
  BY <1>1, RefinementStep, Invariance, LeaveInvariance, PTL
     DEF Spec, RunsInOrder, Run!RunSpec

(***************************************************************************)
(* Without closed-loop runs.  Nothing switches the ADRC on, so no tick     *)
(* holds a power on its stack, and what is set is set inside a run.        *)
(***************************************************************************)
OpenInv == ~control /\ kpc # "apply" /\ (power # 0 => app \in TaskStates)

LEMMA OpenStep ==
  ASSUME IInv, OpenInv, app \notin ClosedLoop, [Next]_vars
  PROVE  OpenInv'
<1> USE DEF IInv, TypeOK, HolderInv, OpenInv, appVars, busVars, heatVars, tickVars
<1>1. CASE ConsumerReceive \/ RpcReceive
  BY <1>1 DEF ConsumerReceive, RpcReceive, Receive
<1>2. CASE Handler
  BY <1>2 DEF Handler, ExitState, StopIterator, StopPower, EnterState, Activate, Energize, Holding
<1>3. CASE TickHealth \/ TickGate \/ TickRegulate \/ TickApply \/ TickIterate
  BY <1>3 DEF TickHealth, TickGate, TickRegulate, TickApply, TickIterate, KUnchanged, At
<1>4. CASE TickInvoke \/ TickFinish
  BY <1>4 DEF TickInvoke, TickFinish, KUnchanged
<1>5. CASE \/ ButtonEvent \/ RpcPair \/ HealthChanges \/ PowerDown
           \/ TimerExpires("live") \/ TimerExpires("dying") \/ TimerDeleted
  BY <1>5 DEF ButtonEvent, RpcPair, HealthChanges, PowerDown, TimerExpires, TimerDeleted
<1>6. CASE Reboot
  BY <1>6 DEF Reboot
<1>7. CASE UNCHANGED vars
  BY <1>7 DEF vars
<1> QED  BY <1>1, <1>2, <1>3, <1>4, <1>5, <1>6, <1>7 DEF Next, Tick

\* As long as no closed-loop task is run, a heater that is stopped gets no power,
\* wherever stop, tick and commands interrupt each other.
THEOREM OpenLoopStopsUnpowered == Spec => OpenLoopStops
<1>1. Init => OpenInv
  BY DEF Init, OpenInv
<1>2. OpenInv => StoppedIsUnpowered
  BY DEF OpenInv, StoppedIsUnpowered
<1>3. IInv /\ OpenInv /\ app \notin ClosedLoop /\ [Next]_vars => OpenInv'
  BY OpenStep
<1> QED  BY <1>1, <1>2, <1>3, Invariance, PTL DEF Spec, OpenLoopStops
=============================================================================
