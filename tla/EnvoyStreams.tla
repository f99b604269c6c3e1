---------------------------- MODULE EnvoyStreams ----------------------------
(***************************************************************************)
(* The streams of the Envoys at the ADS server (pkg/sidecar/providers/     *)
(* envoy: ads/stream.go and registry/registry.go), with the worker pool    *)
(* that runs their jobs (pkg/workerpool) and the topic on which rotated    *)
(* certificates are announced (messaging.Broker's certPubSub and the       *)
(* certificate manager).                                                   *)
(*                                                                         *)
(* A stream is a goroutine.  It is checked against the limit, registered   *)
(* under its Envoy's UUID and subscribed; then it takes one event after    *)
(* the other and waits for the job of each.  A job about secrets may       *)
(* itself rotate the certificate and announce that.  The announcement is   *)
(* put into the channel of one subscriber after the other, and who         *)
(* announces, subscribes or unsubscribes waits for that.                   *)
(*                                                                         *)
(* What a stream says to its Envoy is the matter of ADSStream, what is in  *)
(* it of EnvoyConf.  An Envoy connects again only after its connection has *)
(* broken, which the server may notice later.                              *)
(***************************************************************************)
EXTENDS Integers, Sequences, FiniteSets

CONSTANTS
  UUIDs,         \* the Envoys; each has an identity of its own
  Streams,       \* the connections they make,
  EnvoyOf,       \*   stream -> UUID,
  Mismatched,    \* the UUIDs whose pod has another service account
  Workers,       \* the workers, as many as wp.jobs has places
  Capacity,      \* of a subscriber's channel
  Scopes         \* bound: of one behaviour, the streams and those among them whose
                 \*   connection may break, the values of MaxDataPlaneConnections
                 \*   (0 is no limit), and how many events and rotations there are,
                 \*   [streams, breaks, limits, events, rotations]

ASSUME StreamConstants ==
  /\ IsFiniteSet(Streams) /\ IsFiniteSet(UUIDs)
  /\ EnvoyOf \in [Streams -> UUIDs] /\ Mismatched \subseteq UUIDs
  /\ Capacity \in Nat \ {0}
  /\ \A c \in Scopes : c.streams \subseteq Streams /\ c.limits \subseteq Nat /\ c.rotations \in Nat

VARIABLES
  scope,         \* one of Scopes
  limit,         \* GetMaxDataPlaneConnections()
  up,            \* the streams whose connection is up
  pc,            \* stream -> where its goroutine is
  todo,          \* stream -> the kind of job that it adds or waits for
  registry,      \* connectedProxies: UUID -> {} or {the stream of the Proxy}
  jobs,          \* wp.jobs, a sequence of streams
  worker,        \* worker -> what it runs
  subscribed,    \* to certPubSub
  inbox,         \* stream -> its certRotateChan, UUIDs
  bus,           \* the goroutine of certPubSub
  rotator,       \* checkAndRotate: the certificates that it has yet to announce
  rotations, events,
  holders,       \* the streams that have sent a certificate,
  outdated,      \*   and of these the ones that have not sent the latest
  raced          \* streams that were admitted while another one was, or that
                 \*   were registered together with another one of their Envoy

vars == <<scope, limit, up, pc, todo, registry, jobs, worker, subscribed, inbox, bus, rotator,
          rotations, events, holders, outdated, raced>>

Idle == [pc |-> "idle", stream |-> {}, fresh |-> FALSE]
Quiet == [msg |-> {}, rest |-> {}, at |-> {}]

(* From RegisterProxy to UnregisterProxy. *)
Registered == {"registered", "open", "adding", "waiting", "leaving", "unsubscribed"}
registered(u) == {s \in Streams : EnvoyOf[s] = u /\ pc[s] \in Registered}
admitted == {s \in Streams : pc[s] = "admitted"}

Init ==
  /\ scope \in Scopes /\ limit \in scope.limits
  /\ up = {} /\ pc = [s \in Streams |-> "new"] /\ todo = [s \in Streams |-> "none"]
  /\ registry = [u \in UUIDs |-> {}]
  /\ jobs = << >> /\ worker = [w \in Workers |-> Idle]
  /\ subscribed = {} /\ inbox = [s \in Streams |-> << >>] /\ bus = Quiet
  /\ rotator = {} /\ rotations = 0 /\ events = 0
  /\ holders = {} /\ outdated = {} /\ raced = {}
-----------------------------------------------------------------------------
(* GetConnectedProxyCount counts the entries of the registry.  Mutant: one *)
(* more is let in.                                                         *)
connectedProxies == {u \in UUIDs : registry[u] # {}}
TooManyConnectionsLater == limit > 0 /\ Cardinality(connectedProxies) > limit
TooManyConnections == limit > 0 /\ Cardinality(connectedProxies) >= limit

(* A stream opens: refused at the limit... *)
Connect(s) ==
  /\ pc[s] = "new" /\ s \in scope.streams
  /\ \A r \in up : EnvoyOf[r] # EnvoyOf[s]
  /\ IF TooManyConnections
     THEN pc' = [pc EXCEPT ![s] = "refused"] /\ UNCHANGED <<up, raced>>
     ELSE /\ pc' = [pc EXCEPT ![s] = "admitted"] /\ up' = up \cup {s}
          /\ raced' = IF admitted = {} THEN raced ELSE raced \cup admitted \cup {s}
  /\ UNCHANGED <<scope, limit, todo, registry, jobs, worker, subscribed, inbox, bus, rotator,
                 rotations, events, holders, outdated>>

(* ...or because of its pod's service account... *)
recordPodMetadataFails(s) ==
  /\ pc[s] = "admitted" /\ EnvoyOf[s] \in Mismatched
  /\ pc' = [pc EXCEPT ![s] = "refused"] /\ up' = up \ {s}
  /\ UNCHANGED <<scope, limit, todo, registry, jobs, worker, subscribed, inbox, bus, rotator,
                 rotations, events, holders, outdated, raced>>

(* ...or else registered. *)
RegisterProxy(s) ==
  LET others == registered(EnvoyOf[s])
  IN /\ pc[s] = "admitted" /\ EnvoyOf[s] \notin Mismatched
     /\ pc' = [pc EXCEPT ![s] = "registered"]
     /\ registry' = [registry EXCEPT ![EnvoyOf[s]] = {s}]
     /\ raced' = IF others = {} THEN raced ELSE raced \cup others \cup {s}
     /\ UNCHANGED <<scope, limit, up, todo, jobs, worker, subscribed, inbox, bus, rotator,
                    rotations, events, holders, outdated>>

Sub(s) ==
  /\ pc[s] = "registered" /\ bus = Quiet
  /\ pc' = [pc EXCEPT ![s] = "open"] /\ subscribed' = subscribed \cup {s}
  /\ UNCHANGED <<scope, limit, up, todo, registry, jobs, worker, inbox, bus, rotator,
                 rotations, events, holders, outdated, raced>>

(* The environment: a connection breaks. *)
Disconnect(s) ==
  /\ s \in up /\ s \in scope.breaks
  /\ up' = up \ {s}
  /\ UNCHANGED <<scope, limit, pc, todo, registry, jobs, worker, subscribed, inbox, bus, rotator,
                 rotations, events, holders, outdated, raced>>
-----------------------------------------------------------------------------
(* An event that makes a job: a request of the Envoy, or an update of the  *)
(* proxies, which may come after the connection broke and is never about   *)
(* secrets.                                                                *)
Event(s, kind) ==
  /\ pc[s] = "open" /\ (kind = "secrets" => s \in up) /\ events < scope.events
  /\ pc' = [pc EXCEPT ![s] = "adding"] /\ todo' = [todo EXCEPT ![s] = kind]
  /\ events' = events + 1
  /\ UNCHANGED <<scope, limit, up, registry, jobs, worker, subscribed, inbox, bus, rotator,
                 rotations, holders, outdated, raced>>

(* Mutant: the identities are compared the wrong way round. *)
isCNforAnother(s, u) == EnvoyOf[s] # u
isCNforProxy(s, u) == EnvoyOf[s] = u

CertificateRotated(s) ==
  /\ pc[s] = "open" /\ inbox[s] # << >>
  /\ inbox' = [inbox EXCEPT ![s] = Tail(@)]
  /\ IF isCNforProxy(s, Head(inbox[s]))
     THEN pc' = [pc EXCEPT ![s] = "adding"] /\ todo' = [todo EXCEPT ![s] = "secrets"]
     ELSE UNCHANGED <<pc, todo>>
  /\ UNCHANGED <<scope, limit, up, registry, jobs, worker, subscribed, bus, rotator,
                 rotations, events, holders, outdated, raced>>

AddJob(s) ==
  /\ pc[s] = "adding" /\ Len(jobs) < Cardinality(Workers)
  /\ jobs' = Append(jobs, s)
  /\ pc' = [pc EXCEPT ![s] = "waiting"]
  /\ UNCHANGED <<scope, limit, up, todo, registry, worker, subscribed, inbox, bus, rotator,
                 rotations, events, holders, outdated, raced>>

(* The requests channel is closed, or quit. *)
GrpcClosed(s) ==
  /\ pc[s] = "open" /\ s \notin up
  /\ pc' = [pc EXCEPT ![s] = "leaving"]
  /\ UNCHANGED <<scope, limit, up, todo, registry, jobs, worker, subscribed, inbox, bus, rotator,
                 rotations, events, holders, outdated, raced>>

(* The deferred calls.  Broker.Unsub empties the channel until it has been *)
(* closed.  Mutant: it does not.                                           *)
DrainNothing(s) == pc[s] = "leaving" /\ UNCHANGED vars

Drain(s) ==
  /\ pc[s] = "leaving" /\ inbox[s] # << >>
  /\ inbox' = [inbox EXCEPT ![s] = Tail(@)]
  /\ UNCHANGED <<scope, limit, up, pc, todo, registry, jobs, worker, subscribed, bus, rotator,
                 rotations, events, holders, outdated, raced>>

Unsub(s) ==
  /\ pc[s] = "leaving" /\ bus = Quiet
  /\ pc' = [pc EXCEPT ![s] = "unsubscribed"]
  /\ subscribed' = subscribed \ {s} /\ inbox' = [inbox EXCEPT ![s] = << >>]
  /\ UNCHANGED <<scope, limit, up, todo, registry, jobs, worker, bus, rotator,
                 rotations, events, holders, outdated, raced>>

(* The entry of the UUID is deleted, whichever stream it is of.  Mutant:   *)
(* it is kept.                                                             *)
UnregisterNot(s) ==
  /\ pc[s] = "unsubscribed"
  /\ pc' = [pc EXCEPT ![s] = "ended"]
  /\ UNCHANGED <<scope, limit, up, todo, registry, jobs, worker, subscribed, inbox, bus, rotator,
                 rotations, events, holders, outdated, raced>>

UnregisterProxy(s) ==
  /\ pc[s] = "unsubscribed"
  /\ pc' = [pc EXCEPT ![s] = "ended"]
  /\ registry' = [registry EXCEPT ![EnvoyOf[s]] = {}]
  /\ holders' = holders \ {s} /\ outdated' = outdated \ {s}
  /\ UNCHANGED <<scope, limit, up, todo, jobs, worker, subscribed, inbox, bus, rotator, rotations, events, raced>>
-----------------------------------------------------------------------------
(* The workers. *)
work(w) ==
  /\ worker[w] = Idle /\ jobs # << >>
  /\ worker' = [worker EXCEPT ![w] = [pc |-> IF todo[Head(jobs)] = "secrets" THEN "issue" ELSE "send",
                                      stream |-> {Head(jobs)}, fresh |-> FALSE]]
  /\ jobs' = Tail(jobs)
  /\ UNCHANGED <<scope, limit, up, pc, todo, registry, subscribed, inbox, bus, rotator,
                 rotations, events, holders, outdated, raced>>

(* A certificate takes the place of another: what has been sent or is in   *)
(* the hands of a job is not the latest any more.                          *)
Replaced(u, f) ==
  [w \in Workers |-> IF \E s \in f[w].stream : EnvoyOf[s] = u
                     THEN [f[w] EXCEPT !.fresh = FALSE] ELSE f[w]]

(* IssueCertificate for the Envoy's identity: the one of the cache...      *)
IssueCertificate(w) ==
  /\ worker[w].pc = "issue"
  /\ worker' = [worker EXCEPT ![w].pc = "send", ![w].fresh = TRUE]
  /\ UNCHANGED <<scope, limit, up, pc, todo, registry, jobs, subscribed, inbox, bus, rotator,
                 rotations, events, holders, outdated, raced>>

(* ...or a new one, which is announced before it is sent. *)
RotateInJob(w) ==
  LET u == EnvoyOf[CHOOSE s \in worker[w].stream : TRUE]
  IN /\ worker[w].pc = "issue" /\ rotations < scope.rotations
     /\ worker' = [Replaced(u, worker) EXCEPT ![w].pc = "publish", ![w].fresh = TRUE]
     /\ rotations' = rotations + 1
     /\ outdated' = outdated \cup {s \in holders : EnvoyOf[s] = u}
     /\ UNCHANGED <<scope, limit, up, pc, todo, registry, jobs, subscribed, inbox, bus, rotator, events, holders, raced>>

(* The goroutine of certPubSub takes a message when it has put the one     *)
(* before into every channel; a full one it waits for.                     *)
Fanout(msg) ==
  \/ subscribed = {} /\ bus' = Quiet
  \/ \E s \in subscribed : bus' = [msg |-> {msg}, rest |-> subscribed \ {s}, at |-> {s}]

PublishInJob(w) ==
  /\ worker[w].pc = "publish" /\ bus = Quiet
  /\ Fanout(EnvoyOf[CHOOSE s \in worker[w].stream : TRUE])
  /\ worker' = [worker EXCEPT ![w].pc = "send"]
  /\ UNCHANGED <<scope, limit, up, pc, todo, registry, jobs, subscribed, inbox, rotator,
                 rotations, events, holders, outdated, raced>>

(* sendResponse, and the end of the job that the stream waits for. *)
Send(w) ==
  /\ worker[w].pc = "send"
  /\ LET s == CHOOSE r \in worker[w].stream : TRUE
     IN /\ pc' = [pc EXCEPT ![s] = "open"]
        /\ IF todo[s] = "secrets"
           THEN /\ holders' = holders \cup {s}
                /\ outdated' = IF worker[w].fresh THEN outdated \ {s} ELSE outdated \cup {s}
           ELSE UNCHANGED <<holders, outdated>>
        /\ todo' = [todo EXCEPT ![s] = "none"]
  /\ worker' = [worker EXCEPT ![w] = Idle]
  /\ UNCHANGED <<scope, limit, up, registry, jobs, subscribed, inbox, bus, rotator, rotations, events, raced>>

(* checkAndRotate, for a certificate of the cache. *)
Rotate(u) ==
  /\ rotator = {} /\ rotations < scope.rotations
  /\ rotator' = {u} /\ rotations' = rotations + 1
  /\ worker' = Replaced(u, worker)
  /\ outdated' = outdated \cup {s \in holders : EnvoyOf[s] = u}
  /\ UNCHANGED <<scope, limit, up, pc, todo, registry, jobs, subscribed, inbox, bus, events, holders, raced>>

Publish ==
  /\ rotator # {} /\ bus = Quiet
  /\ \E u \in rotator : Fanout(u)
  /\ rotator' = {}
  /\ UNCHANGED <<scope, limit, up, pc, todo, registry, jobs, worker, subscribed, inbox,
                 rotations, events, holders, outdated, raced>>

Deliver ==
  /\ bus # Quiet
  /\ \E s \in bus.at, msg \in bus.msg :
       /\ Len(inbox[s]) < Capacity
       /\ inbox' = [inbox EXCEPT ![s] = Append(@, msg)]
  /\ \/ bus.rest = {} /\ bus' = Quiet
     \/ \E r \in bus.rest : bus' = [bus EXCEPT !.rest = @ \ {r}, !.at = {r}]
  /\ UNCHANGED <<scope, limit, up, pc, todo, registry, jobs, worker, subscribed, rotator,
                 rotations, events, holders, outdated, raced>>
-----------------------------------------------------------------------------
Serve(s) ==
  \/ recordPodMetadataFails(s) \/ RegisterProxy(s) \/ Sub(s) \/ CertificateRotated(s) \/ AddJob(s)
  \/ GrpcClosed(s) \/ Drain(s) \/ Unsub(s) \/ UnregisterProxy(s)

Work(w) == work(w) \/ IssueCertificate(w) \/ RotateInJob(w) \/ PublishInJob(w) \/ Send(w)

Proceed == (\E s \in Streams : Serve(s)) \/ (\E w \in Workers : Work(w)) \/ Publish \/ Deliver

Next ==
  \/ \E s \in Streams : \/ Connect(s) \/ Disconnect(s)
                        \/ \E kind \in {"secrets", "other"} : Event(s, kind)
  \/ \E u \in UUIDs : Rotate(u)
  \/ Proceed

Spec == Init /\ [][Next]_vars

(* A goroutine that can go on does; connections, requests, updates and     *)
(* rotations come when they come, and as they are bounded no goroutine can *)
(* be overtaken for ever.                                                  *)
FairSpec == Spec /\ WF_vars(Proceed)
-----------------------------------------------------------------------------
(* The registry has only streams that are being served, and every one of   *)
(* them that was not registered together with another of its Envoy:        *)
(* UnregisterProxy deletes by UUID, so the stream of an Envoy that is back *)
(* before its old stream has ended loses its entry to that.                *)
RegistryIsTrue ==
  /\ \A u \in UUIDs : registry[u] \subseteq registered(u)
  /\ \A s \in Streams : pc[s] \in Registered /\ s \notin raced => registry[EnvoyOf[s]] = {s}

(* StreamAggregatedResources tests the limit before it registers the       *)
(* stream.  Not more streams are served than the limit says, unless two    *)
(* were between the two steps at the same time, or an Envoy had two.       *)
LimitHolds ==
  limit > 0 /\ raced = {} => Cardinality({s \in Streams : pc[s] \in Registered}) <= limit

(* When nothing more happens to them, the streams of broken connections    *)
(* have come to their end and are unregistered, although they may have had *)
(* to wait for a job and for certPubSub, which may have waited for them    *)
(* (Broker.Unsub).                                                         *)
GoneIsUnregistered ==
  <>[](\A s \in Streams : pc[s] \in Registered => s \in up)

(* And every Envoy that was given a certificate and is connected has been  *)
(* given the latest, although a rotation may come between IssueCertificate *)
(* and the sending, in the Envoy's own job or during another one.          *)
RotationIsSent ==
  <>[](outdated \cap up = {})
=============================================================================
