------------------------------- MODULE Broker -------------------------------
(***************************************************************************)
(* The message broker of the control plane (pkg/messaging).  Informer      *)
(* handlers add messages to a rate limited work queue; one worker          *)
(* goroutine takes them out, hands the ones that concern every proxy to    *)
(* the dispatcher goroutine over an unbuffered channel and publishes the   *)
(* ones that concern one proxy at once; the dispatcher batches broadcasts  *)
(* with a sliding timer and a maximum timer.                               *)
(*                                                                         *)
(* The queue is client-go's: an item in `dirty' is not added again, an     *)
(* item being processed is queued again only when its processing is done.  *)
(* Time passes in Tick steps.  A timer is the number of ticks left, 0 once *)
(* its expiry waits in the timer's channel.  Every producer enqueues an    *)
(* events.PubSubMessage and nothing shuts the queue down, so the two early *)
(* returns of processNextItem are unreachable.                             *)
(***************************************************************************)
EXTENDS Integers, Sequences, ProxyUpdateEvent

CONSTANTS
  Messages,        \* the messages that producers may add
  MaxAdds,         \* bound on the number of additions
  SlidingWindow,   \* proxyUpdateSlidingWindow, in ticks
  MaxWindow        \* proxyUpdateMaxWindow, in ticks

ASSUME MaxAddsAssumption == MaxAdds \in Nat
ASSUME WindowsAssumption ==
  /\ SlidingWindow \in Nat \ {0}
  /\ MaxWindow \in Nat
  /\ SlidingWindow <= MaxWindow

VARIABLES
  adds,             \* number of additions so far (bounds the model)
  waiting,          \* items held back by the rate limiter
  queue, dirty, processing,
  workerPC,         \* where the worker is: "get", "event", "send" or "kube"
  item,             \* the item it works on
  dispatcher,       \* "select" or "exited"
  dispatchPending, batchCount, event, slidingTimer, maxTimer,
  totalQEventCount, totalQProxyEventCount, totalDispatchedProxyEventCount,
  kubeEvents,           \* messages published on kubeEventPubSub
  monitoredNamespaces,  \* the MonitoredNamespaceCounter gauge
  stopped,          \* stopCh is closed
  batch,            \* history: messages handed over since the last dispatch
  heldFor,          \* history: age in ticks of the oldest of them
  sinceLast         \* history: age in ticks of the latest of them

queueVars == <<waiting, queue, dirty, processing>>
batchVars == <<dispatchPending, batchCount, event, slidingTimer, maxTimer,
               batch, heldFor, sinceLast>>
counters == <<totalQEventCount, totalQProxyEventCount,
              totalDispatchedProxyEventCount, kubeEvents, monitoredNamespaces>>
vars == <<adds, queueVars, workerPC, item, dispatcher, batchVars, counters, stopped>>

(* A timer reset to a decade, and a timer that has expired and been drained:  *)
(* Stop() returns false on the latter, and draining it again blocks for ever. *)
NoTimeout == -1
Drained == -2

NoItem == [id |-> 0, kind |-> <<"none", "none">>]

Topic(m) == GetProxyUpdateTopic(m)
UpdatesProxies(m) == Topic(m) # NoTopic
-----------------------------------------------------------------------------
Init ==
  /\ adds = 0
  /\ waiting = {} /\ queue = <<>> /\ dirty = {} /\ processing = {}
  /\ workerPC = "get" /\ item = NoItem
  /\ dispatcher = "select"
  /\ dispatchPending = FALSE /\ batchCount = 0 /\ event = NoItem
  /\ slidingTimer = NoTimeout /\ maxTimer = NoTimeout
  /\ totalQEventCount = 0 /\ totalQProxyEventCount = 0
  /\ totalDispatchedProxyEventCount = 0
  /\ kubeEvents = 0 /\ monitoredNamespaces = 0
  /\ stopped = FALSE
  /\ batch = {} /\ heldFor = 0 /\ sinceLast = 0

(* An informer handler or the resync ticker adds a message.  *)
AddRateLimited(m) ==
  /\ adds < MaxAdds
  /\ adds' = adds + 1
  /\ waiting' = waiting \cup {m}
  /\ UNCHANGED <<queue, dirty, processing, workerPC, item, dispatcher, batchVars,
                 counters, stopped>>

(* The rate limiter lets it go: the queue's Add. *)
QueueAdd(m) ==
  /\ m \in waiting
  /\ waiting' = waiting \ {m}
  /\ dirty' = dirty \cup {m}
  /\ queue' = IF m \in dirty \cup processing THEN queue ELSE Append(queue, m)
  /\ UNCHANGED <<adds, processing, workerPC, item, dispatcher, batchVars,
                 counters, stopped>>

GetItem ==
  /\ workerPC = "get"
  /\ queue # <<>>
  /\ item' = Head(queue)
  /\ queue' = Tail(queue)
  /\ processing' = processing \cup {Head(queue)}
  /\ dirty' = dirty \ {Head(queue)}
  /\ totalQEventCount' = totalQEventCount + 1
  /\ workerPC' = "event"
  /\ UNCHANGED <<adds, waiting, dispatcher, batchVars, totalQProxyEventCount,
                 totalDispatchedProxyEventCount, kubeEvents, monitoredNamespaces,
                 stopped>>

(* Where a message goes.  Mutants: a broadcast that is not handed over while *)
(* another one is pending; a broadcast that is published on the spot too.    *)
AfterEventSkipsPending(m) ==
  IF Topic(m) = BroadcastTopic /\ ~dispatchPending THEN "send" ELSE "kube"
AfterEvent(m) == IF Topic(m) = BroadcastTopic THEN "send" ELSE "kube"
PublishedAtOnceAlways(m) == UpdatesProxies(m)
PublishedAtOnce(m) == UpdatesProxies(m) /\ Topic(m) # BroadcastTopic

(* processEvent up to the send to the dispatcher. *)
ProcessEvent ==
  /\ workerPC = "event"
  /\ workerPC' = AfterEvent(item)
  /\ totalQProxyEventCount' =
       totalQProxyEventCount + (IF UpdatesProxies(item) THEN 1 ELSE 0)
  /\ totalDispatchedProxyEventCount' =
       totalDispatchedProxyEventCount + (IF PublishedAtOnce(item) THEN 1 ELSE 0)
  /\ UNCHANGED <<adds, queueVars, item, dispatcher, batchVars, totalQEventCount,
                 kubeEvents, monitoredNamespaces, stopped>>

(* The message is published to the control plane's own subscribers.  Mutant: *)
(* processNextItem without Done.                                             *)
KubePub(m) == kubeEvents + 1
NotDone(m) == processing
Done(m) == processing \ {m}

(* updateMetric *)
NamespaceDelta(m) ==
  IF m.kind = <<"Namespace", "Added">> THEN 1
  ELSE IF m.kind = <<"Namespace", "Deleted">> THEN -1 ELSE 0

(* The rest of processEvent and of processNextItem: Forget, then Done, which *)
(* queues the item again when it was added while it was being processed.     *)
FinishItem ==
  /\ workerPC = "kube"
  /\ kubeEvents' = KubePub(item)
  /\ monitoredNamespaces' = monitoredNamespaces + NamespaceDelta(item)
  /\ processing' = Done(item)
  /\ queue' = IF item \in dirty \ processing' THEN Append(queue, item) ELSE queue
  /\ workerPC' = "get"
  /\ item' = NoItem
  /\ UNCHANGED <<adds, waiting, dirty, dispatcher, batchVars, totalQEventCount,
                 totalQProxyEventCount, totalDispatchedProxyEventCount, stopped>>
-----------------------------------------------------------------------------
(* The timers an incoming broadcast restarts: the sliding timer always, the  *)
(* maximum timer only when it opens a batch.  Mutant: a maximum that slides   *)
(* too.                                                                      *)
RestartSliding(t) == SlidingWindow

RestartMaxAlways(t) == MaxWindow
RestartMax(t) == IF dispatchPending THEN t ELSE MaxWindow

(* The dispatcher receives the broadcast the worker is sending.  The timers  *)
(* it resets are stopped and drained first, hence not Drained.               *)
ReceiveEvent ==
  /\ workerPC = "send"
  /\ dispatcher = "select"
  /\ slidingTimer # Drained
  /\ dispatchPending \/ maxTimer # Drained
  /\ event' = item
  /\ slidingTimer' = RestartSliding(slidingTimer)
  /\ maxTimer' = RestartMax(maxTimer)
  /\ dispatchPending' = TRUE
  /\ batchCount' = batchCount + 1
  /\ batch' = batch \cup {item}
  /\ heldFor' = IF dispatchPending THEN heldFor ELSE 0
  /\ sinceLast' = 0
  /\ workerPC' = "kube"
  /\ UNCHANGED <<adds, queueVars, item, dispatcher, counters, stopped>>

(* What the dispatcher does when either timer has expired. *)
Dispatch ==
  /\ totalDispatchedProxyEventCount' = totalDispatchedProxyEventCount + 1
  /\ dispatchPending' = FALSE
  /\ batchCount' = 0
  /\ batch' = {} /\ heldFor' = 0 /\ sinceLast' = 0
  /\ UNCHANGED <<adds, queueVars, workerPC, item, dispatcher, event,
                 totalQEventCount, totalQProxyEventCount, kubeEvents,
                 monitoredNamespaces, stopped>>

(* The other timer is stopped, drained and reset.  Mutant: it is not reset.  *)
DisarmWithoutReset(t) == Drained
Disarm(t) == NoTimeout

SlidingTimerExpires ==
  /\ dispatcher = "select"
  /\ slidingTimer = 0
  /\ slidingTimer' = NoTimeout
  /\ maxTimer # Drained
  /\ maxTimer' = Disarm(maxTimer)
  /\ Dispatch

MaxTimerExpires ==
  /\ dispatcher = "select"
  /\ maxTimer = 0
  /\ maxTimer' = NoTimeout
  /\ slidingTimer # Drained
  /\ slidingTimer' = Disarm(slidingTimer)
  /\ Dispatch

DispatcherStops ==
  /\ dispatcher = "select"
  /\ stopped
  /\ dispatcher' = "exited"
  /\ UNCHANGED <<adds, queueVars, workerPC, item, batchVars, counters, stopped>>
-----------------------------------------------------------------------------
(* Environment: the passing of time and the closing of stopCh.  An expired   *)
(* timer is served before the next tick: the dispatcher does nothing but     *)
(* wait in its select.                                                       *)
Countdown(timer) == IF timer > 0 THEN timer - 1 ELSE timer

Tick ==
  /\ dispatcher = "select"
  /\ slidingTimer # 0 /\ maxTimer # 0
  /\ slidingTimer > 0 \/ maxTimer > 0
  /\ slidingTimer' = Countdown(slidingTimer)
  /\ maxTimer' = Countdown(maxTimer)
  /\ heldFor' = heldFor + 1
  /\ sinceLast' = sinceLast + 1
  /\ UNCHANGED <<adds, queueVars, workerPC, item, dispatcher, dispatchPending,
                 batchCount, event, batch, counters, stopped>>

Stop ==
  /\ ~stopped
  /\ stopped' = TRUE
  /\ UNCHANGED <<adds, queueVars, workerPC, item, dispatcher, batchVars, counters>>

Next ==
  \/ \E m \in Messages : AddRateLimited(m) \/ QueueAdd(m)
  \/ GetItem \/ ProcessEvent \/ FinishItem
  \/ ReceiveEvent \/ SlidingTimerExpires \/ MaxTimerExpires \/ DispatcherStops
  \/ Tick \/ Stop

Spec == Init /\ [][Next]_vars

(* The Go scheduler runs both goroutines, timers run down, and the rate      *)
(* limiter's delays are finite.  A select that is ready is taken.            *)
Fairness ==
  /\ \A m \in Messages : WF_vars(QueueAdd(m))
  /\ WF_vars(GetItem) /\ WF_vars(ProcessEvent) /\ WF_vars(FinishItem)
  /\ WF_vars(ReceiveEvent) /\ WF_vars(SlidingTimerExpires)
  /\ WF_vars(MaxTimerExpires) /\ WF_vars(Tick)

FairSpec == Spec /\ Fairness
-----------------------------------------------------------------------------
Timers(window) == {NoTimeout, Drained} \cup 0..window

TypeOfFlags == dispatchPending \in BOOLEAN /\ stopped \in BOOLEAN
TypeOfData ==
  /\ adds \in 0..MaxAdds
  /\ waiting \subseteq Messages /\ dirty \subseteq Messages
  /\ processing \subseteq Messages /\ queue \in Seq(Messages)
  /\ workerPC \in {"get", "event", "send", "kube"}
  /\ item \in Messages \cup {NoItem}
  /\ workerPC # "get" => item \in Messages
  /\ dispatcher \in {"select", "exited"}
  /\ batchCount \in Nat /\ batch \subseteq Messages
  /\ event \in Messages \cup {NoItem}
  /\ slidingTimer \in Timers(SlidingWindow) /\ maxTimer \in Timers(MaxWindow)
  /\ totalQEventCount \in Nat /\ totalQProxyEventCount \in Nat
  /\ totalDispatchedProxyEventCount \in Nat /\ kubeEvents \in Nat
  /\ monitoredNamespaces \in Int
  /\ heldFor \in Nat /\ sinceLast \in Nat

(* Every variable has the type its Go declaration gives it; a worker past    *)
(* Get works on a message.                                                   *)
TypeOK == TypeOfFlags /\ TypeOfData

(* The dispatcher's two timers run exactly while a broadcast is pending, so  *)
(* that `if !timer.Stop() { <-timer.C }' of runProxyUpdateDispatcher never   *)
(* waits on an empty channel, and a pending batch is never left without a    *)
(* timer that will dispatch it.                                              *)
TimersFollowBatch ==
  IF dispatchPending
  THEN /\ slidingTimer >= 0 /\ maxTimer >= 0
       /\ event \in batch /\ batchCount > 0
  ELSE /\ slidingTimer = NoTimeout /\ maxTimer = NoTimeout
       /\ batch = {} /\ batchCount = 0

(* A broadcast is held for batching at most proxyUpdateMaxWindow, and at     *)
(* most proxyUpdateSlidingWindow after the last one that joined its batch.   *)
HeldAtMostWindow ==
  dispatchPending => heldFor <= MaxWindow /\ sinceLast <= SlidingWindow

(* The age of a batch and the time its timer has left add up to the window:  *)
(* what makes HeldAtMostWindow inductive.                                    *)
TimersMeasureAge ==
  dispatchPending => /\ heldFor + maxTimer = MaxWindow
                     /\ sinceLast + slidingTimer = SlidingWindow

(* The broker's counters: every proxy event counted by processEvent is still *)
(* on its way to the dispatcher, in the batch, or accounted for by an        *)
(* earlier dispatch; a dispatch never outnumbers the events it answers.      *)
DispatchAccounting ==
  totalDispatchedProxyEventCount + batchCount + (IF workerPC = "send" THEN 1 ELSE 0)
    <= totalQProxyEventCount

(* The messages whose proxy update has been asked for and not published.     *)
AtWorker == IF workerPC \in {"event", "send"} THEN {item} ELSE {}
InFlight == {m \in waiting \cup dirty \cup AtWorker \cup batch : UpdatesProxies(m)}

Updates == {m \in Messages : UpdatesProxies(m)}
Pipeline == INSTANCE UpdatePipeline WITH
  requests <- InFlight, published <- totalDispatchedProxyEventCount

(* No update is dropped: the broker implements UpdatePipeline, where a       *)
(* request leaves the pipeline only when a publication answers it.           *)
NoUpdateDropped == Pipeline!Spec

(* Every update asked for is eventually published on the proxies' pub-sub,   *)
(* unless the broker is stopped first.                                       *)
EveryUpdatePublished ==
  \A m \in Messages : m \in InFlight ~> (m \notin InFlight \/ stopped)
=============================================================================
