---------------------------- MODULE BrokerProofs ----------------------------
(***************************************************************************)
(* Proofs about Broker for any set of messages, any number of additions    *)
(* and any windows with 0 < SlidingWindow <= MaxWindow.                    *)
(***************************************************************************)
EXTENDS Broker, TLAPS

(* Every variable of the broker keeps its type under every action. *)
THEOREM TypeCorrect == Spec => []TypeOK
<1> USE MaxAddsAssumption, WindowsAssumption
<1>1. Init => TypeOK
  <2>1. Init => TypeOfFlags
    BY Zenon DEF Init, TypeOfFlags
  <2>2. Init => TypeOfData
    BY DEF Init, TypeOfData, Timers, NoTimeout, Drained
  <2> QED BY <2>1, <2>2 DEF TypeOK
<1>2. TypeOK /\ [Next]_vars => TypeOK'
  <2> SUFFICES ASSUME TypeOK, [Next]_vars PROVE TypeOK'
    OBVIOUS
  <2>a. TypeOfFlags'
    BY Zenon DEF TypeOK, TypeOfFlags, Next, vars, queueVars, batchVars, counters,
       AddRateLimited, QueueAdd, GetItem, ProcessEvent, FinishItem, ReceiveEvent,
       Dispatch, SlidingTimerExpires, MaxTimerExpires, DispatcherStops, Tick, Stop
  <2>b. TypeOfData'
    <3> USE DEF TypeOK, TypeOfData, queueVars, batchVars, counters, Timers, NoTimeout, Drained
    <3>1. ASSUME NEW m \in Messages, AddRateLimited(m) PROVE TypeOfData'
      BY <3>1 DEF AddRateLimited
    <3>2. ASSUME NEW m \in Messages, QueueAdd(m) PROVE TypeOfData'
      BY <3>2 DEF QueueAdd
    <3>3. CASE GetItem
      BY <3>3 DEF GetItem
    <3>4. CASE ProcessEvent
      BY <3>4 DEF ProcessEvent, AfterEvent
    <3>5. CASE FinishItem
      <4>1. monitoredNamespaces' \in Int
        <5>1. NamespaceDelta(item) \in Int
          BY DEF NamespaceDelta
        <5> QED BY <3>5, <5>1 DEF FinishItem
      <4>2. queue' \in Seq(Messages)
        BY <3>5 DEF FinishItem
      <4> QED
        BY <3>5, <4>1, <4>2 DEF FinishItem, KubePub, Done
    <3>6. CASE ReceiveEvent
      BY <3>6 DEF ReceiveEvent, RestartSliding, RestartMax
    <3>7. CASE SlidingTimerExpires
      BY <3>7 DEF SlidingTimerExpires, Dispatch, Disarm
    <3>8. CASE MaxTimerExpires
      BY <3>8 DEF MaxTimerExpires, Dispatch, Disarm
    <3>9. CASE DispatcherStops
      BY <3>9 DEF DispatcherStops
    <3>10. CASE Tick
      BY <3>10 DEF Tick, Countdown
    <3>11. CASE Stop
      BY <3>11 DEF Stop
    <3>12. CASE UNCHANGED vars
      BY <3>12 DEF vars
    <3> QED
      BY <3>1, <3>2, <3>3, <3>4, <3>5, <3>6, <3>7, <3>8, <3>9, <3>10, <3>11, <3>12 DEF Next
  <2> QED
    BY <2>a, <2>b DEF TypeOK
<1> QED
  BY <1>1, <1>2, PTL DEF Spec

-----------------------------------------------------------------------------
(* The timers run exactly while a batch is pending and measure its age.      *)
(* TimersFollowBatch alone is inductive; TimersMeasureAge needs it to know   *)
(* that a tick runs both timers of a pending batch down.                     *)
TimerInv == TimersFollowBatch /\ TimersMeasureAge

(* Timers, batch and the age of the batch agree. *)
LEMMA TimerInvariant == Spec => []TimerInv
<1> USE MaxAddsAssumption, WindowsAssumption
<1>1. Init => TimerInv
  BY DEF Init, TimerInv, TimersFollowBatch, TimersMeasureAge
<1>2. TypeOK /\ TimerInv /\ [Next]_vars => TimerInv'
  <2> SUFFICES ASSUME TypeOK, TimerInv, [Next]_vars PROVE TimerInv'
    OBVIOUS
  <2> USE DEF TypeOK, TypeOfData, TimerInv, TimersFollowBatch, TimersMeasureAge,
              batchVars, Timers, NoTimeout, Drained
  <2>1. CASE ReceiveEvent
    BY <2>1 DEF ReceiveEvent, RestartSliding, RestartMax
  <2>2. CASE SlidingTimerExpires
    BY <2>2 DEF SlidingTimerExpires, Dispatch, Disarm
  <2>3. CASE MaxTimerExpires
    BY <2>3 DEF MaxTimerExpires, Dispatch, Disarm
  <2>4. CASE Tick
    BY <2>4 DEF Tick, Countdown
  <2>5. CASE UNCHANGED batchVars
    BY <2>5
  <2>6. \/ ReceiveEvent \/ SlidingTimerExpires \/ MaxTimerExpires \/ Tick
        \/ UNCHANGED batchVars
    BY DEF Next, vars, AddRateLimited, QueueAdd, GetItem, ProcessEvent, FinishItem,
           DispatcherStops, Stop
  <2> QED
    BY <2>1, <2>2, <2>3, <2>4, <2>5, <2>6
<1> QED
  BY <1>1, <1>2, TypeCorrect, PTL DEF Spec

(* The dispatcher never drains an empty timer channel and never leaves a     *)
(* pending batch without a running timer, for any windows and messages.      *)
THEOREM TimersAlwaysFollowBatch == Spec => []TimersFollowBatch
  BY TimerInvariant, PTL DEF TimerInv

(* No broadcast is held longer than proxyUpdateMaxWindow, nor longer than    *)
(* proxyUpdateSlidingWindow after the last event that joined its batch.      *)
THEOREM BatchesAreBounded == Spec => []HeldAtMostWindow
<1>1. TypeOK /\ TimerInv => HeldAtMostWindow
  BY WindowsAssumption DEF TypeOK, TypeOfData, TimerInv, TimersFollowBatch,
     TimersMeasureAge, HeldAtMostWindow, Timers, NoTimeout, Drained
<1> QED
  BY <1>1, TypeCorrect, TimerInvariant, PTL

-----------------------------------------------------------------------------
(* A message that updates no proxy is not broadcast. *)
LEMMA TopicsDiffer == NoTopic # BroadcastTopic
  BY DEF NoTopic, BroadcastTopic

(* The counters of the broker never claim more dispatches than the proxy     *)
(* events read from the work queue can account for.                          *)
THEOREM CountersAgree == Spec => []DispatchAccounting
<1>1. Init => DispatchAccounting
  BY DEF Init, DispatchAccounting
<1>2. TypeOK /\ TimerInv /\ DispatchAccounting /\ [Next]_vars => DispatchAccounting'
  <2> SUFFICES ASSUME TypeOK, TimerInv, DispatchAccounting, [Next]_vars
               PROVE DispatchAccounting'
    OBVIOUS
  <2> USE DEF TypeOK, TypeOfData, DispatchAccounting, batchVars, counters
  <2>1. CASE GetItem
    BY <2>1 DEF GetItem
  <2>2. CASE ProcessEvent
    BY <2>2, TopicsDiffer DEF ProcessEvent, AfterEvent, PublishedAtOnce, UpdatesProxies
  <2>3. CASE FinishItem
    BY <2>3 DEF FinishItem
  <2>4. CASE ReceiveEvent
    BY <2>4 DEF ReceiveEvent
  <2>5. CASE SlidingTimerExpires \/ MaxTimerExpires
    BY <2>5 DEF SlidingTimerExpires, MaxTimerExpires, Dispatch, TimerInv,
                TimersFollowBatch, NoTimeout
  <2>6. CASE UNCHANGED <<workerPC, batchCount, totalQProxyEventCount,
                         totalDispatchedProxyEventCount>>
    BY <2>6
  <2>7. \/ GetItem \/ ProcessEvent \/ FinishItem \/ ReceiveEvent
        \/ SlidingTimerExpires \/ MaxTimerExpires
        \/ UNCHANGED <<workerPC, batchCount, totalQProxyEventCount,
                       totalDispatchedProxyEventCount>>
    BY DEF Next, vars, AddRateLimited, QueueAdd, DispatcherStops, Tick, Stop
  <2> QED
    BY <2>1, <2>2, <2>3, <2>4, <2>5, <2>6, <2>7
<1> QED
  BY <1>1, <1>2, TypeCorrect, TimerInvariant, PTL DEF Spec
-----------------------------------------------------------------------------
(* A step that publishes and only takes requests out of the pipeline is a    *)
(* Publish step of UpdatePipeline.                                           *)
LEMMA PublishStep ==
  ASSUME InFlight' \subseteq InFlight,
         totalDispatchedProxyEventCount' = totalDispatchedProxyEventCount + 1
  PROVE  Pipeline!Next
<1>1. InFlight \ InFlight' \in SUBSET InFlight
  OBVIOUS
<1>2. InFlight' = InFlight \ (InFlight \ InFlight')
  OBVIOUS
<1>3. Pipeline!Publish(InFlight \ InFlight')
  BY <1>2 DEF Pipeline!Publish
<1> QED
  BY <1>1, <1>3 DEF Pipeline!Next

(* The broker implements UpdatePipeline: an update asked for stays in the    *)
(* queue, at the worker or in the batch until a publication answers it.      *)
THEOREM BrokerDropsNoUpdate == Spec => NoUpdateDropped
<1>1. Init => Pipeline!Init
  BY DEF Init, Pipeline!Init, InFlight, AtWorker
<1>2. TypeOK /\ TypeOK' /\ [Next]_vars => [Pipeline!Next]_<<InFlight, totalDispatchedProxyEventCount>>
  <2> SUFFICES ASSUME TypeOK, TypeOK', [Next]_vars
               PROVE  [Pipeline!Next]_<<InFlight, totalDispatchedProxyEventCount>>
    OBVIOUS
  <2> USE DEF TypeOK, TypeOfData, queueVars, batchVars, counters
  <2>1. ASSUME NEW m \in Messages, AddRateLimited(m)
        PROVE  [Pipeline!Next]_<<InFlight, totalDispatchedProxyEventCount>>
    <3>1. CASE UpdatesProxies(m)
      <4>1. InFlight' = InFlight \cup {m}
        BY <2>1, <3>1 DEF AddRateLimited, InFlight, AtWorker
      <4>2. m \in Updates
        BY <3>1 DEF Updates
      <4> QED
        BY <2>1, <4>1, <4>2 DEF AddRateLimited, Pipeline!Next, Pipeline!Request
    <3>2. CASE ~UpdatesProxies(m)
      BY <2>1, <3>2 DEF AddRateLimited, InFlight, AtWorker
    <3> QED BY <3>1, <3>2
  <2>2. ASSUME NEW m \in Messages, QueueAdd(m)
        PROVE  UNCHANGED <<InFlight, totalDispatchedProxyEventCount>>
    BY <2>2 DEF QueueAdd, InFlight, AtWorker
  <2>3. CASE GetItem
    <3>1. item' \in Messages
      BY <2>3 DEF GetItem
    <3>2. CASE UpdatesProxies(item')
      <4>1. InFlight' = InFlight \cup {item'}
        BY <2>3, <3>2 DEF GetItem, InFlight, AtWorker
      <4>2. item' \in Updates
        BY <3>1, <3>2 DEF Updates
      <4> QED
        BY <2>3, <4>1, <4>2 DEF GetItem, Pipeline!Next, Pipeline!Request
    <3>3. CASE ~UpdatesProxies(item')
      BY <2>3, <3>3 DEF GetItem, InFlight, AtWorker
    <3> QED BY <3>2, <3>3
  <2>4. CASE ProcessEvent
    <3>1. CASE PublishedAtOnce(item)
      <4>1. InFlight' \subseteq InFlight
        BY <2>4, <3>1 DEF ProcessEvent, AfterEvent, PublishedAtOnce, InFlight, AtWorker
      <4> QED
        BY <2>4, <3>1, <4>1, PublishStep DEF ProcessEvent
    <3>2. CASE ~PublishedAtOnce(item)
      BY <2>4, <3>2, TopicsDiffer DEF ProcessEvent, AfterEvent, PublishedAtOnce,
         UpdatesProxies, InFlight, AtWorker
    <3> QED BY <3>1, <3>2
  <2>5. CASE FinishItem
    BY <2>5 DEF FinishItem, InFlight, AtWorker
  <2>6. CASE ReceiveEvent
    BY <2>6 DEF ReceiveEvent, InFlight, AtWorker
  <2>7. CASE SlidingTimerExpires \/ MaxTimerExpires
    <3>1. InFlight' \subseteq InFlight
      BY <2>7 DEF SlidingTimerExpires, MaxTimerExpires, Dispatch, InFlight, AtWorker
    <3> QED
      BY <2>7, <3>1, PublishStep DEF SlidingTimerExpires, MaxTimerExpires, Dispatch
  <2>8. CASE DispatcherStops \/ Tick \/ Stop \/ UNCHANGED vars
    BY <2>8 DEF DispatcherStops, Tick, Stop, vars, InFlight, AtWorker
  <2> QED
    BY <2>1, <2>2, <2>3, <2>4, <2>5, <2>6, <2>7, <2>8 DEF Next
<1> QED
  BY <1>1, <1>2, TypeCorrect, PTL DEF Spec, NoUpdateDropped, Pipeline!Spec
=============================================================================
