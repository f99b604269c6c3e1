----------------------------- MODULE PipySession -----------------------------
(***************************************************************************)
(* The life of a Pipy sidecar in the controller                            *)
(* (pkg/sidecar/providers/pipy: repo/broadcast.go, repo/inform.go,         *)
(* registry/registry.go).  The broadcast listener lists the pods, opens a  *)
(* session (a goroutine and an entry of the registry) for each that has    *)
(* none, runs a job for each that has its metadata and address, and starts *)
(* a goroutine that closes the sessions of all others: it tells each to    *)
(* quit, takes it out of the registry and deletes its codebase.            *)
(*                                                                         *)
(* A pod stands for its sidecar's UUID, which no other pod gets.  Of the   *)
(* Proxy objects that a pod has had, the model keeps the latest, and which *)
(* cleanups still refer to an earlier one.  Jobs, which end, and the       *)
(* codebases they publish are the matter of PipyRepo.                      *)
(***************************************************************************)
EXTENDS Integers, FiniteSets

CONSTANTS
  Pods,
  Limits,         \* values of MaxDataPlaneConnections; 0 is no limit
  MaxCleanups     \* bound: cleanup goroutines at work at the same time

ASSUME SessionConstants ==
  Limits \subseteq Nat /\ MaxCleanups \in Nat \ {0}

VARIABLES
  limit,       \* GetMaxDataPlaneConnections()
  pod,         \* pod -> what the informer's cache has of it
  registry,    \* connectedProxies: the pods whose latest Proxy is registered
  proxy,       \* pod -> its latest Proxy: has a session, metadata, an address
  listener,    \* the broadcast listener and its local variables
  timer,       \* slidingTimer is running
  reconfirm,
  cleanups     \* the cleanup goroutines

vars == <<limit, pod, registry, proxy, listener, timer, reconfirm, cleanups>>

NewProxy == [session |-> FALSE, meta |-> FALSE, addr |-> FALSE]
Idle == [pc |-> "idle", todo |-> {}, proxies |-> {}, disconnected |-> {}]
NoCleanup == [pc |-> "none", todo |-> {}, at |-> {}]
Exists(p) == pod[p] \in {"noip", "ip"}

(* A reference to a Proxy: the latest of its pod, or an earlier one. *)
Refs == Pods \X {"latest", "earlier"}

Init ==
  /\ limit \in Limits
  /\ pod \in [Pods -> {"none", "noip", "ip"}]
  /\ registry = {}
  /\ proxy = [p \in Pods |-> NewProxy]
  /\ listener = Idle /\ timer = TRUE /\ reconfirm = TRUE
  /\ cleanups = [i \in 1 .. MaxCleanups |-> NoCleanup]
-----------------------------------------------------------------------------
(* The environment: pods start, get an address and go. *)
PodChanges(p) ==
  /\ \/ pod[p] = "none" /\ pod' = [pod EXCEPT ![p] = "noip"]
     \/ pod[p] = "noip" /\ pod' = [pod EXCEPT ![p] = "ip"]
     \/ /\ pod[p] \in {"noip", "ip"}
        /\ pod' = [pod EXCEPT ![p] = "gone"]
  /\ UNCHANGED <<limit, registry, proxy, listener, timer, reconfirm, cleanups>>
-----------------------------------------------------------------------------
(* proxyUpdateChan: the broker broadcasts at any time. *)
ReceiveBroadcast ==
  /\ listener.pc = "idle"
  /\ timer' = TRUE /\ reconfirm' = TRUE
  /\ UNCHANGED <<limit, pod, registry, proxy, listener, cleanups>>

(* The timer fires: fireExistProxies lists the pods... *)
TimerFires ==
  /\ listener.pc = "idle"
  /\ timer
  /\ timer' = FALSE
  /\ listener' = [Idle EXCEPT !.pc = "fire", !.todo = {p \in Pods : Exists(p)}]
  /\ UNCHANGED <<limit, pod, registry, proxy, reconfirm, cleanups>>

(* informTrafficPolicies refuses a proxy beyond the limit.  Mutant: only one *)
(* later.                                                                    *)
FarTooManyConnections == limit # 0 /\ Cardinality(registry) > limit
TooManyConnections == limit # 0 /\ Cardinality(registry) >= limit

(* What recordPodMetadata finds. *)
Recorded(x, p) ==
  IF x.meta \/ ~Exists(p) THEN x
  ELSE [x EXCEPT !.meta = TRUE, !.addr = (pod[p] = "ip")]

(* ...takes the registered proxy of each... *)
FindSession(p) ==
  /\ listener.pc = "fire" /\ p \in listener.todo
  /\ p \in registry
  /\ listener' = [listener EXCEPT !.todo = @ \ {p}, !.proxies = @ \cup {p}]
  /\ UNCHANGED <<limit, pod, registry, proxy, timer, reconfirm, cleanups>>

(* ...or opens a session for it and waits until it has started.  What refers *)
(* to a Proxy of the pod refers to an earlier one now.                       *)
Outdated(refs, p) == {IF r[1] = p THEN <<p, "earlier">> ELSE r : r \in refs}

OpenSession(p) ==
  /\ listener.pc = "fire" /\ p \in listener.todo
  /\ p \notin registry
  /\ ~TooManyConnections
  /\ registry' = registry \cup {p}
  /\ proxy' = [proxy EXCEPT ![p] = Recorded([NewProxy EXCEPT !.session = TRUE], p)]
  /\ listener' = [listener EXCEPT !.todo = @ \ {p}, !.proxies = @ \cup {p}]
  /\ cleanups' = [i \in 1 .. MaxCleanups |->
       [cleanups[i] EXCEPT !.todo = Outdated(@, p), !.at = Outdated(@, p)]]
  /\ UNCHANGED <<limit, pod, timer, reconfirm>>

(* A refused session never says that it has started: the listener waits for  *)
(* ever.                                                                     *)
ListenerHangs(p) ==
  /\ listener.pc = "fire" /\ p \in listener.todo
  /\ p \notin registry
  /\ TooManyConnections
  /\ listener' = [Idle EXCEPT !.pc = "hangs"]
  /\ UNCHANGED <<limit, pod, registry, proxy, timer, reconfirm, cleanups>>

(* The proxies with metadata and address are connected.  Mutant: those with  *)
(* metadata.                                                                 *)
IsConnectedByMeta(x) == x.meta
IsConnected(x) == x.meta /\ x.addr

(* Mutant: connected ones too. *)
DisconnectedAll(connected) == registry
Disconnected(connected) == registry \ connected

(* Metadata that is missing is looked for again, and all registered proxies  *)
(* that are not connected are disconnected ones.                             *)
Confirm ==
  /\ listener.pc = "fire" /\ listener.todo = {}
  /\ proxy' = [p \in Pods |->
       IF p \in listener.proxies THEN Recorded(proxy[p], p) ELSE proxy[p]]
  /\ LET connected == {p \in listener.proxies : IsConnected(proxy'[p])}
     IN  /\ listener' = [Idle EXCEPT !.pc = "jobs", !.disconnected = Disconnected(connected)]
         /\ timer' = (timer \/ connected # listener.proxies)
  /\ UNCHANGED <<limit, pod, registry, reconfirm, cleanups>>

(* A cleanup of a number of proxies takes them in any order. *)
Cleanup(todo) ==
  IF todo = {} THEN {NoCleanup}
  ELSE {[pc |-> "quit", todo |-> todo \ {r}, at |-> {r}] : r \in todo}

(* The listener waits for a job of every connected proxy, then lets a        *)
(* goroutine close the disconnected ones.                                    *)
RunJobs ==
  /\ listener.pc = "jobs"
  /\ IF listener.disconnected = {} THEN UNCHANGED cleanups
     ELSE \E i \in 1 .. MaxCleanups :
            /\ cleanups[i] = NoCleanup
            /\ \A j \in 1 .. i - 1 : cleanups[j] # NoCleanup
            /\ \E c \in Cleanup(listener.disconnected \X {"latest"}) :
                 cleanups' = [cleanups EXCEPT ![i] = c]
  /\ listener' = Idle
  /\ reconfirm' = FALSE /\ timer' = (timer \/ reconfirm)
  /\ UNCHANGED <<limit, pod, registry, proxy>>
-----------------------------------------------------------------------------
(* UnregisterProxy: the session receives from Quit and ends; the one that    *)
(* sends to a session which has ended waits for ever.  The session's own     *)
(* deferred UnregisterProxy does, so that it changes nothing.  Mutant: Quit  *)
(* has a buffer.                                                             *)
CanAlwaysSend(r) == TRUE
CanSend(r) == r[2] = "latest" /\ proxy[r[1]].session

(* Mutant: the session goes on. *)
NotEnded(x) == x
Ended(x) == [x EXCEPT !.session = FALSE]

Quit(i, r) ==
  /\ cleanups[i].pc = "quit" /\ r \in cleanups[i].at
  /\ CanSend(r)
  /\ proxy' = IF r[2] = "latest" THEN [proxy EXCEPT ![r[1]] = Ended(@)] ELSE proxy
  /\ cleanups' = [cleanups EXCEPT ![i].pc = "unregister"]
  /\ UNCHANGED <<limit, pod, registry, listener, timer, reconfirm>>

(* A cleanup that waits for ever takes no part any more. *)
CleanupHangs(i) ==
  /\ cleanups[i].pc = "quit"
  /\ \A r \in cleanups[i].at : ~CanSend(r)
  /\ cleanups' = [cleanups EXCEPT ![i] = NoCleanup]
  /\ UNCHANGED <<limit, pod, registry, proxy, listener, timer, reconfirm>>

Unregister(i, r) ==
  /\ cleanups[i].pc = "unregister" /\ r \in cleanups[i].at
  /\ registry' = registry \ {r[1]}
  /\ \E c \in Cleanup(cleanups[i].todo) : cleanups' = [cleanups EXCEPT ![i] = c]
  /\ UNCHANGED <<limit, pod, proxy, listener, timer, reconfirm>>

Listen ==
  \/ ReceiveBroadcast \/ TimerFires \/ Confirm \/ RunJobs
  \/ \E p \in Pods : FindSession(p) \/ OpenSession(p) \/ ListenerHangs(p)

Clean(i) ==
  \/ \E r \in Refs : Quit(i, r) \/ Unregister(i, r)
  \/ CleanupHangs(i)

Next ==
  \/ \E p \in Pods : PodChanges(p)
  \/ Listen
  \/ \E i \in 1 .. MaxCleanups : Clean(i)

Spec == Init /\ [][Next]_vars

(* The listener and the cleanups go on, the timer gets to fire between two   *)
(* broadcasts, and the resync ticker broadcasts again and again.             *)
FairSpec ==
  /\ Spec
  /\ WF_vars(Listen) /\ SF_vars(TimerFires) /\ SF_vars(ReceiveBroadcast)
  /\ \A i \in 1 .. MaxCleanups : WF_vars(Clean(i))
-----------------------------------------------------------------------------
Proxies == [session : BOOLEAN, meta : BOOLEAN, addr : BOOLEAN]

(* informTrafficPolicies looks at the limit and registers later, but there   *)
(* are never more proxies registered than the limit: only the listener opens *)
(* sessions, one after the other.                                            *)
WithinLimit == limit # 0 => Cardinality(registry) <= limit

(* A session's proxy is registered, so that no second session is opened for  *)
(* the sidecar, however many cleanups of earlier ones are still under way    *)
(* and delete by the pod's name.                                             *)
SessionsAreRegistered == \A p \in Pods : proxy[p].session => p \in registry

Unregisters(i, p) == cleanups[i].pc = "unregister" /\ <<p, "latest">> \in cleanups[i].at

(* A registered proxy has a session, or exactly one cleanup is about to take *)
(* it out of the registry: no entry stays behind that nobody serves.         *)
RegisteredIsServed ==
  \A p \in registry :
    \/ proxy[p].session
    \/ \E i \in 1 .. MaxCleanups :
         Unregisters(i, p) /\ \A j \in (1 .. MaxCleanups) \ {i} : ~Unregisters(j, p)

(* The session of a proxy whose address is known is not closed while the pod *)
(* is there: the listener never takes a connected proxy for a disconnected   *)
(* one, and no cleanup of an earlier session closes the new one.             *)
ServedPodsStay ==
  [][\A p \in Pods :
       proxy[p].session /\ proxy[p].addr /\ ~proxy'[p].session => ~Exists(p)]_vars

(* Unless the listener hangs, a pod with an address ends up with a session   *)
(* that knows it, and a pod that is gone ends up out of the registry, also   *)
(* when some cleanups hang.                                                  *)
RegistryFollowsPods ==
  [](listener.pc # "hangs") =>
    \A p \in Pods :
      /\ <>[](pod[p] = "ip") =>
           <>[](proxy[p].session /\ proxy[p].addr)
      /\ <>[](pod[p] = "gone") =>
           <>[](p \notin registry)
=============================================================================
