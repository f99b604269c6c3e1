------------------------- MODULE EnvoyStreamsProofs -------------------------
(***************************************************************************)
(* The registry and the limit, for any Envoys, streams and workers.  The   *)
(* jobs come first: a stream waits for one job, so that the end of a job   *)
(* finds its stream waiting and never brings one back that has ended.      *)
(***************************************************************************)
EXTENDS EnvoyStreams, FiniteSetTheorems, TLAPS

PCs == Registered \cup {"new", "admitted", "refused", "ended"}
WorkerStates ==
  [pc : {"idle", "issue", "publish", "send"}, stream : SUBSET Streams, fresh : BOOLEAN]

JobShape == pc \in [Streams -> PCs] /\ jobs \in Seq(Streams) /\ worker \in [Workers -> WorkerStates]
Runs == \A w \in Workers : worker[w].pc # "idle" => worker[w].stream # {}
OneEach == \A w \in Workers : \A s, r \in worker[w].stream : s = r
RunWaits == \A w \in Workers : \A s \in worker[w].stream : pc[s] = "waiting"
RunOnce == \A w, v \in Workers : \A s \in worker[w].stream : s \in worker[v].stream => w = v
QueueWaits == \A i \in 1 .. Len(jobs) : pc[jobs[i]] = "waiting"
QueueOnce == \A i, j \in 1 .. Len(jobs) : jobs[i] = jobs[j] => i = j
NotBoth == \A i \in 1 .. Len(jobs) : \A w \in Workers : jobs[i] \notin worker[w].stream

JobInv == JobShape /\ Runs /\ OneEach /\ RunWaits /\ RunOnce /\ QueueWaits /\ QueueOnce /\ NotBoth

(* No job at first. *)
LEMMA InitJobInv == Init => JobInv
<1> SUFFICES ASSUME Init PROVE JobInv
  OBVIOUS
<1>1. Idle \in WorkerStates /\ Idle.pc = "idle" /\ Idle.stream = {}
  BY DEF Idle, WorkerStates
<1>2. JobShape
  BY <1>1 DEF Init, JobShape, PCs
<1> QED
  BY <1>1, <1>2 DEF Init, JobInv, Runs, OneEach, RunWaits, RunOnce, QueueWaits, QueueOnce, NotBoth

(* A step of a stream that is not waiting, to a place other than that. *)
LEMMA StreamSteps ==
  ASSUME JobInv, NEW s \in Streams, NEW x \in PCs, pc[s] # "waiting",
         pc' = [pc EXCEPT ![s] = x], UNCHANGED <<jobs, worker>>
  PROVE  JobInv'
  BY DEF JobInv, JobShape, Runs, OneEach, RunWaits, RunOnce, QueueWaits, QueueOnce, NotBoth

(* A step of a worker that keeps its stream. *)
LEMMA WorkerSteps ==
  ASSUME JobInv, worker' \in [Workers -> WorkerStates],
         \A v \in Workers : /\ worker'[v].stream = worker[v].stream
                            /\ worker[v].pc = "idle" => worker'[v].pc = "idle",
         jobs' = jobs, pc' = pc
  PROVE  JobInv'
  BY DEF JobInv, JobShape, Runs, OneEach, RunWaits, RunOnce, QueueWaits, QueueOnce, NotBoth

(* AddJob: the stream was not waiting, so it is nowhere yet. *)
LEMMA AddJobStep ==
  ASSUME JobInv, NEW s \in Streams, AddJob(s)
  PROVE  JobInv'
<1>1. /\ pc[s] = "adding" /\ pc' = [pc EXCEPT ![s] = "waiting"] /\ jobs' = Append(jobs, s)
      /\ worker' = worker
  BY DEF AddJob
<1>2. JobShape'
  BY <1>1 DEF JobInv, JobShape, PCs, Registered
<1>3. /\ Len(jobs') = Len(jobs) + 1 /\ jobs'[Len(jobs) + 1] = s
      /\ \A i \in 1 .. Len(jobs) : jobs'[i] = jobs[i] /\ jobs[i] \in Streams /\ jobs[i] # s
      /\ Len(jobs) \in Nat
  BY <1>1 DEF JobInv, JobShape, QueueWaits
<1>4. \A w \in Workers : s \notin worker[w].stream
  BY <1>1 DEF JobInv, RunWaits
<1>5. \A i \in 1 .. Len(jobs') : i \in 1 .. Len(jobs) \/ i = Len(jobs) + 1
  BY <1>3
<1>6. QueueWaits' /\ QueueOnce' /\ NotBoth'
  BY <1>1, <1>3, <1>4, <1>5 DEF JobInv, JobShape, QueueWaits, QueueOnce, NotBoth
<1>7. Runs' /\ OneEach' /\ RunWaits' /\ RunOnce'
  BY <1>1, <1>4 DEF JobInv, JobShape, WorkerStates, Runs, OneEach, RunWaits, RunOnce
<1> QED
  BY <1>2, <1>6, <1>7 DEF JobInv

(* A worker takes the first job. *)
LEMMA WorkStep ==
  ASSUME JobInv, NEW w \in Workers, work(w)
  PROVE  JobInv'
<1> DEFINE h == Head(jobs)
           x == [pc |-> IF todo[h] = "secrets" THEN "issue" ELSE "send", stream |-> {h}, fresh |-> FALSE]
<1>1. /\ worker[w] = Idle /\ jobs # << >> /\ worker' = [worker EXCEPT ![w] = x]
      /\ jobs' = Tail(jobs) /\ pc' = pc
  BY DEF work
<1>2. /\ h \in Streams /\ h = jobs[1] /\ 1 \in 1 .. Len(jobs) /\ Len(jobs) \in Nat
      /\ jobs' \in Seq(Streams) /\ Len(jobs') = Len(jobs) - 1
      /\ \A i \in 1 .. Len(jobs') : jobs'[i] = jobs[i + 1] /\ i + 1 \in 1 .. Len(jobs)
  BY <1>1 DEF JobInv, JobShape
<1>3. x \in WorkerStates /\ x.stream = {h} /\ x.pc # "idle"
  BY <1>2 DEF WorkerStates
<1>4. pc[h] = "waiting" /\ \A v \in Workers : h \notin worker[v].stream
  BY <1>2 DEF JobInv, QueueWaits, NotBoth
<1>5. worker'[w] = x /\ \A v \in Workers \ {w} : worker'[v] = worker[v]
  BY <1>1 DEF JobInv, JobShape
<1> HIDE DEF h, x
<1>6. JobShape'
  BY <1>1, <1>2, <1>3 DEF JobInv, JobShape
<1>7. Runs' /\ OneEach'
  BY <1>3, <1>5 DEF JobInv, Runs, OneEach
<1>8. RunWaits' /\ RunOnce'
  BY <1>1, <1>3, <1>4, <1>5 DEF JobInv, RunWaits, RunOnce
<1>9. QueueWaits' /\ QueueOnce'
  BY <1>1, <1>2 DEF JobInv, QueueWaits, QueueOnce
<1>10. \A i \in 1 .. Len(jobs') : jobs'[i] # h
  BY <1>2 DEF JobInv, QueueOnce
<1>11. NotBoth'
  BY <1>2, <1>3, <1>5, <1>10 DEF JobInv, NotBoth
<1> QED
  BY <1>6, <1>7, <1>8, <1>9, <1>11 DEF JobInv

(* The end of a job: the stream was waiting. *)
LEMMA SendStep ==
  ASSUME JobInv, NEW w \in Workers, Send(w)
  PROVE  /\ JobInv'
         /\ \E s \in Streams : pc[s] = "waiting" /\ pc' = [pc EXCEPT ![s] = "open"]
<1> DEFINE s == CHOOSE r \in worker[w].stream : TRUE
<1>1. /\ worker[w].pc = "send" /\ pc' = [pc EXCEPT ![s] = "open"]
      /\ worker' = [worker EXCEPT ![w] = Idle] /\ jobs' = jobs
  BY DEF Send
<1>2. s \in worker[w].stream
  BY <1>1 DEF JobInv, Runs
<1> HIDE DEF s
<1>3. s \in Streams /\ pc[s] = "waiting"
  BY <1>2 DEF JobInv, JobShape, WorkerStates, RunWaits
<1>4. \A r \in worker[w].stream : r = s
  BY <1>2 DEF JobInv, OneEach
<1>5. Idle \in WorkerStates /\ Idle.pc = "idle" /\ Idle.stream = {}
  BY DEF Idle, WorkerStates
<1>6. worker'[w] = Idle /\ \A v \in Workers \ {w} : worker'[v] = worker[v]
  BY <1>1 DEF JobInv, JobShape
<1>7. JobShape'
  BY <1>1, <1>3, <1>5 DEF JobInv, JobShape, PCs, Registered
<1>8. Runs' /\ OneEach' /\ RunOnce'
  BY <1>5, <1>6 DEF JobInv, Runs, OneEach, RunOnce
<1>9. \A v \in Workers \ {w} : s \notin worker[v].stream
  BY <1>2 DEF JobInv, RunOnce
<1>10. RunWaits'
  BY <1>1, <1>5, <1>6, <1>9 DEF JobInv, JobShape, WorkerStates, RunWaits
<1>11. \A i \in 1 .. Len(jobs) : jobs[i] # s /\ jobs[i] \in Streams
  BY <1>2 DEF JobInv, JobShape, NotBoth
<1>12. QueueWaits' /\ QueueOnce' /\ NotBoth'
  BY <1>1, <1>5, <1>6, <1>11 DEF JobInv, JobShape, QueueWaits, QueueOnce, NotBoth
<1> QED
  BY <1>1, <1>3, <1>7, <1>8, <1>10, <1>12 DEF JobInv

(* A rotation leaves a worker its stream and its place. *)
LEMMA ReplacedKeeps ==
  ASSUME JobInv, NEW u
  PROVE  /\ Replaced(u, worker) \in [Workers -> WorkerStates]
         /\ \A v \in Workers : /\ Replaced(u, worker)[v].stream = worker[v].stream
                               /\ Replaced(u, worker)[v].pc = worker[v].pc
<1>1. \A v \in Workers : worker[v] \in WorkerStates
  BY DEF JobInv, JobShape
<1>2. \A y \in WorkerStates : /\ [y EXCEPT !.fresh = FALSE] \in WorkerStates
                              /\ [y EXCEPT !.fresh = FALSE].stream = y.stream
                              /\ [y EXCEPT !.fresh = FALSE].pc = y.pc
  BY DEF WorkerStates
<1> QED
  BY <1>1, <1>2 DEF Replaced

(* The steps that leave the streams where they are. *)
LEMMA OtherWorkerSteps ==
  ASSUME JobInv,
         \/ \E w \in Workers : IssueCertificate(w) \/ RotateInJob(w) \/ PublishInJob(w)
         \/ \E u \in UUIDs : Rotate(u)
  PROVE  JobInv' /\ UNCHANGED <<pc, registry, raced, limit>>
<1>1. \A v \in Workers : worker[v] \in WorkerStates
  BY DEF JobInv, JobShape
<1>2. ASSUME NEW w \in Workers, IssueCertificate(w)
      PROVE  JobInv' /\ UNCHANGED <<pc, registry, raced, limit>>
  <2>1. worker[w].pc = "issue" /\ worker' = [worker EXCEPT ![w].pc = "send", ![w].fresh = TRUE]
        /\ UNCHANGED <<jobs, pc, registry, raced, limit>>
    BY <1>2 DEF IssueCertificate
  <2>2. worker' \in [Workers -> WorkerStates]
    BY <1>1, <2>1 DEF JobInv, JobShape, WorkerStates
  <2>3. \A v \in Workers : /\ worker'[v].stream = worker[v].stream
                           /\ worker[v].pc = "idle" => worker'[v].pc = "idle"
    BY <1>1, <2>1 DEF JobInv, JobShape, WorkerStates
  <2> QED
    BY <2>1, <2>2, <2>3, WorkerSteps
<1>3. ASSUME NEW w \in Workers, PublishInJob(w)
      PROVE  JobInv' /\ UNCHANGED <<pc, registry, raced, limit>>
  <2>1. worker[w].pc = "publish" /\ worker' = [worker EXCEPT ![w].pc = "send"]
        /\ UNCHANGED <<jobs, pc, registry, raced, limit>>
    BY <1>3 DEF PublishInJob
  <2>2. worker' \in [Workers -> WorkerStates]
    BY <1>1, <2>1 DEF JobInv, JobShape, WorkerStates
  <2>3. \A v \in Workers : /\ worker'[v].stream = worker[v].stream
                           /\ worker[v].pc = "idle" => worker'[v].pc = "idle"
    BY <1>1, <2>1 DEF JobInv, JobShape, WorkerStates
  <2> QED
    BY <2>1, <2>2, <2>3, WorkerSteps
<1>4. ASSUME NEW w \in Workers, RotateInJob(w)
      PROVE  JobInv' /\ UNCHANGED <<pc, registry, raced, limit>>
  <2> DEFINE f == Replaced(EnvoyOf[CHOOSE s \in worker[w].stream : TRUE], worker)
  <2>1. worker[w].pc = "issue" /\ worker' = [f EXCEPT ![w].pc = "publish", ![w].fresh = TRUE]
        /\ UNCHANGED <<jobs, pc, registry, raced, limit>>
    BY <1>4 DEF RotateInJob
  <2>2. f \in [Workers -> WorkerStates]
        /\ \A v \in Workers : f[v].stream = worker[v].stream /\ f[v].pc = worker[v].pc
    BY ReplacedKeeps
  <2> HIDE DEF f
  <2>3. \A v \in Workers : f[v] \in WorkerStates
    BY <2>2
  <2>4. worker' \in [Workers -> WorkerStates]
    BY <2>1, <2>2, <2>3 DEF WorkerStates
  <2>5. \A v \in Workers : /\ worker'[v].stream = worker[v].stream
                           /\ worker[v].pc = "idle" => worker'[v].pc = "idle"
    BY <2>1, <2>2, <2>3 DEF WorkerStates
  <2>6. jobs' = jobs /\ pc' = pc
    BY <2>1
  <2>7. JobInv'
    BY <2>4, <2>5, <2>6, WorkerSteps
  <2> QED
    BY <2>1, <2>7
<1>5. ASSUME NEW u \in UUIDs, Rotate(u)
      PROVE  JobInv' /\ UNCHANGED <<pc, registry, raced, limit>>
  <2>1. worker' = Replaced(u, worker) /\ UNCHANGED <<jobs, pc, registry, raced, limit>>
    BY <1>5 DEF Rotate
  <2>2. worker' \in [Workers -> WorkerStates]
    BY <2>1, ReplacedKeeps
  <2>3. \A v \in Workers : /\ worker'[v].stream = worker[v].stream
                           /\ worker[v].pc = "idle" => worker'[v].pc = "idle"
    BY <2>1, ReplacedKeeps
  <2>4. jobs' = jobs /\ pc' = pc
    BY <2>1
  <2>5. JobInv'
    BY <2>2, <2>3, <2>4, WorkerSteps
  <2> QED
    BY <2>1, <2>5
<1> QED
  BY <1>2, <1>3, <1>4, <1>5
-----------------------------------------------------------------------------
(* The registry.  Two streams of one Envoy, and two that have been         *)
(* admitted and not registered, are known to have raced; without races     *)
(* there is room for the one that has been admitted.                       *)
served == {s \in Streams : pc[s] \in Registered}
RegistryShape == limit \in Nat /\ registry \in [UUIDs -> SUBSET Streams] /\ raced \subseteq Streams
PairsRaced == \A s, r \in served : s # r /\ EnvoyOf[s] = EnvoyOf[r] => s \in raced
AdmittedRaced == \A s, r \in admitted : s # r => s \in raced
Room ==
  limit > 0 /\ raced = {} =>
    Cardinality(served) <= limit /\ (admitted # {} => Cardinality(served) < limit)

RegInv == RegistryShape /\ RegistryIsTrue /\ PairsRaced /\ AdmittedRaced /\ Room

(* Finitely many streams are served. *)
LEMMA ServedFinite == IsFiniteSet(served) /\ Cardinality(served) \in Nat
  BY StreamConstants, FS_Subset, FS_CardinalityType DEF served

(* At first there are no streams. *)
LEMMA InitRegInv == Init => RegInv
<1> SUFFICES ASSUME Init PROVE RegInv
  OBVIOUS
<1>1. served = {} /\ admitted = {}
  BY DEF Init, served, admitted, Registered
<1>2. RegistryShape
  BY StreamConstants DEF Init, RegistryShape
<1>3. RegistryIsTrue
  BY StreamConstants DEF Init, RegistryIsTrue, Registered
<1>4. Room
  BY <1>1, <1>2, FS_EmptySet DEF Room, RegistryShape
<1> QED
  BY <1>1, <1>2, <1>3, <1>4 DEF RegInv, PairsRaced, AdmittedRaced

(* A step that touches neither the registry nor who is served. *)
LEMMA RegistryKept ==
  ASSUME RegInv, UNCHANGED <<registry, raced, limit>>,
         \A s \in Streams : pc'[s] \in Registered <=> pc[s] \in Registered,
         \A s \in Streams : pc'[s] = "admitted" => pc[s] = "admitted"
  PROVE  RegInv'
<1>1. served' = served /\ admitted' \subseteq admitted
  BY DEF served, admitted
<1>2. RegistryShape' /\ PairsRaced' /\ AdmittedRaced'
  BY <1>1 DEF RegInv, RegistryShape, PairsRaced, AdmittedRaced
<1>3. Room'
  BY <1>1 DEF RegInv, Room
<1>4. RegistryIsTrue'
  <2>1. \A u \in UUIDs : registered(u)' = registered(u)
    BY DEF registered
  <2> QED
    BY <2>1 DEF RegInv, RegistryIsTrue
<1> QED
  BY <1>2, <1>3, <1>4 DEF RegInv

(* Without races every served stream has an entry of its own. *)
LEMMA ServedAreCounted ==
  ASSUME RegInv, raced = {}
  PROVE  Cardinality(served) <= Cardinality(connectedProxies)
<1> DEFINE f == [s \in served |-> EnvoyOf[s]]
<1>1. \A s \in served : f[s] \in connectedProxies
  BY StreamConstants DEF RegInv, RegistryIsTrue, served, connectedProxies
<1>2. \A s, r \in served : f[s] = f[r] => s = r
  BY DEF RegInv, PairsRaced
<1>3. f \in Injection(served, connectedProxies)
  BY <1>1, <1>2 DEF Injection, IsInjective
<1>4. IsFiniteSet(connectedProxies)
  BY StreamConstants, FS_Subset DEF connectedProxies
<1> QED
  BY <1>3, <1>4, FS_Injection

(* The test of the limit, which comes before the registration. *)
LEMMA ConnectStep ==
  ASSUME JobInv, RegInv, NEW s \in Streams, Connect(s)
  PROVE  JobInv' /\ RegInv'
<1>1. pc[s] = "new" /\ UNCHANGED <<registry, limit, jobs, worker>>
  BY DEF Connect
<1>2. CASE TooManyConnections
  <2>1. pc' = [pc EXCEPT ![s] = "refused"] /\ raced' = raced
    BY <1>2 DEF Connect
  <2>2. JobInv'
    BY <1>1, <2>1, StreamSteps DEF PCs
  <2>3. RegInv'
    BY <1>1, <2>1, RegistryKept DEF JobInv, JobShape, Registered
  <2> QED
    BY <2>2, <2>3
<1>3. CASE ~TooManyConnections
  <2>1. /\ pc' = [pc EXCEPT ![s] = "admitted"]
        /\ raced' = IF admitted = {} THEN raced ELSE raced \cup admitted \cup {s}
    BY <1>3 DEF Connect
  <2>2. JobInv'
    BY <1>1, <2>1, StreamSteps DEF PCs
  <2>3. pc \in [Streams -> PCs]
    BY DEF JobInv, JobShape
  <2>4. served' = served /\ admitted' = admitted \cup {s} /\ admitted \subseteq Streams
    BY <1>1, <2>1, <2>3 DEF served, admitted, Registered
  <2>5. RegistryShape' /\ PairsRaced' /\ AdmittedRaced'
    BY <1>1, <2>1, <2>4 DEF RegInv, RegistryShape, PairsRaced, AdmittedRaced
  <2>6. RegistryIsTrue'
    <3>1. \A u \in UUIDs : registered(u)' = registered(u)
      BY <1>1, <2>1, <2>3 DEF registered, Registered
    <3>2. \A r \in Streams : pc'[r] \in Registered => pc[r] \in Registered
      BY <1>1, <2>1, <2>3 DEF Registered
    <3>3. raced \subseteq raced'
      BY <2>1
    <3> QED
      BY <1>1, <3>1, <3>2, <3>3 DEF RegInv, RegistryIsTrue
  <2>7. Room'
    <3> SUFFICES ASSUME limit > 0, raced' = {}
                 PROVE  Cardinality(served) <= limit /\ Cardinality(served) < limit
      BY <1>1, <2>4 DEF Room
    <3>1. raced = {}
      BY <2>1
    <3>2. Cardinality(served) <= Cardinality(connectedProxies)
      BY <3>1, ServedAreCounted
    <3>3. Cardinality(connectedProxies) \in Nat
      BY StreamConstants, FS_Subset, FS_CardinalityType DEF connectedProxies
    <3>4. Cardinality(connectedProxies) < limit
      BY <1>3, <3>3 DEF TooManyConnections, RegInv, RegistryShape
    <3> QED
      BY <3>2, <3>3, <3>4, ServedFinite DEF RegInv, RegistryShape
  <2> QED
    BY <2>2, <2>5, <2>6, <2>7 DEF RegInv
<1> QED
  BY <1>2, <1>3

(* A registration: of a stream whose Envoy has another, both have raced. *)
LEMMA RegisterStep ==
  ASSUME JobInv, RegInv, NEW s \in Streams, RegisterProxy(s)
  PROVE  JobInv' /\ RegInv'
<1> DEFINE others == registered(EnvoyOf[s])
<1>1. /\ pc[s] = "admitted" /\ pc' = [pc EXCEPT ![s] = "registered"]
      /\ registry' = [registry EXCEPT ![EnvoyOf[s]] = {s}]
      /\ raced' = IF others = {} THEN raced ELSE raced \cup others \cup {s}
      /\ UNCHANGED <<limit, jobs, worker>>
  BY DEF RegisterProxy
<1>2. JobInv'
  BY <1>1, StreamSteps DEF PCs, Registered
<1>3. pc \in [Streams -> PCs] /\ EnvoyOf[s] \in UUIDs
  BY StreamConstants DEF JobInv, JobShape
<1>4. /\ served' = served \cup {s} /\ s \notin served /\ s \in admitted
      /\ admitted' = admitted \ {s} /\ others = {r \in served : EnvoyOf[r] = EnvoyOf[s]}
  BY <1>1, <1>3 DEF served, admitted, Registered, registered
<1>5. others \subseteq Streams /\ raced \subseteq raced'
  BY <1>1 DEF registered
<1> HIDE DEF others
<1>6. RegistryShape'
  BY <1>1, <1>3, <1>5 DEF RegInv, RegistryShape
<1>7. PairsRaced' /\ AdmittedRaced'
  BY <1>1, <1>4, <1>5 DEF RegInv, PairsRaced, AdmittedRaced
<1>8. RegistryIsTrue'
  <2>1. \A u \in UUIDs : registered(u)' = {r \in served' : EnvoyOf[r] = u}
    BY DEF registered, served
  <2>2. \A u \in UUIDs : registered(u) = {r \in served : EnvoyOf[r] = u}
    BY DEF registered, served
  <2>3. \A u \in UUIDs : registry'[u] \subseteq registered(u)'
    BY <1>1, <1>3, <1>4, <2>1, <2>2 DEF RegInv, RegistryIsTrue, RegistryShape
  <2>4. ASSUME NEW r \in Streams, pc'[r] \in Registered, r \notin raced'
        PROVE  registry'[EnvoyOf[r]] = {r}
    <3>1. CASE r = s
      BY <1>1, <1>3, <3>1 DEF RegInv, RegistryShape
    <3>2. CASE r # s
      <4>1. pc[r] \in Registered /\ r \in served
        BY <1>1, <1>3, <2>4, <3>2 DEF served
      <4>2. EnvoyOf[r] # EnvoyOf[s]
        BY <1>1, <1>4, <2>4, <4>1
      <4>3. registry[EnvoyOf[r]] = {r} /\ EnvoyOf[r] \in UUIDs
        BY <1>5, <2>4, <4>1, StreamConstants DEF RegInv, RegistryIsTrue
      <4> QED
        BY <1>1, <4>2, <4>3 DEF RegInv, RegistryShape
    <3> QED
      BY <3>1, <3>2
  <2> QED
    BY <2>3, <2>4 DEF RegistryIsTrue
<1>9. Room'
  <2> SUFFICES ASSUME limit > 0, raced' = {}
               PROVE  Cardinality(served') <= limit /\ admitted' = {}
    BY <1>1 DEF Room
  <2>1. raced = {}
    BY <1>5
  <2>2. admitted' = {}
    BY <1>4, <2>1 DEF RegInv, AdmittedRaced
  <2>3. Cardinality(served) < limit
    BY <1>4, <2>1 DEF RegInv, Room
  <2>4. Cardinality(served') = Cardinality(served) + 1
    BY <1>4, ServedFinite, FS_AddElement
  <2> QED
    BY <2>2, <2>3, <2>4, ServedFinite DEF RegInv, RegistryShape
<1> QED
  BY <1>2, <1>6, <1>7, <1>8, <1>9 DEF RegInv

(* An entry goes with its UUID: only a stream that has raced may lose its  *)
(* own to another.                                                         *)
LEMMA UnregisterStep ==
  ASSUME JobInv, RegInv, NEW s \in Streams, UnregisterProxy(s)
  PROVE  JobInv' /\ RegInv'
<1>1. /\ pc[s] = "unsubscribed" /\ pc' = [pc EXCEPT ![s] = "ended"]
      /\ registry' = [registry EXCEPT ![EnvoyOf[s]] = {}]
      /\ UNCHANGED <<limit, raced, jobs, worker>>
  BY DEF UnregisterProxy
<1>2. JobInv'
  BY <1>1, StreamSteps DEF PCs
<1>3. pc \in [Streams -> PCs] /\ EnvoyOf[s] \in UUIDs
  BY StreamConstants DEF JobInv, JobShape
<1>4. served' = served \ {s} /\ s \in served /\ admitted' = admitted
  BY <1>1, <1>3 DEF served, admitted, Registered
<1>5. RegistryShape' /\ PairsRaced' /\ AdmittedRaced'
  BY <1>1, <1>3, <1>4 DEF RegInv, RegistryShape, PairsRaced, AdmittedRaced
<1>6. RegistryIsTrue'
  <2>1. \A u \in UUIDs : registered(u)' = {r \in served' : EnvoyOf[r] = u}
    BY DEF registered, served
  <2>2. \A u \in UUIDs : registered(u) = {r \in served : EnvoyOf[r] = u}
    BY DEF registered, served
  <2>3. \A u \in UUIDs : registry'[u] \subseteq registered(u)'
    BY <1>1, <1>3, <1>4, <2>1, <2>2 DEF RegInv, RegistryIsTrue, RegistryShape
  <2>4. ASSUME NEW r \in Streams, pc'[r] \in Registered, r \notin raced'
        PROVE  registry'[EnvoyOf[r]] = {r}
    <3>1. r \in served /\ r # s /\ r \notin raced /\ pc[r] \in Registered
      BY <1>1, <1>3, <1>4, <2>4 DEF served
    <3>2. EnvoyOf[r] # EnvoyOf[s]
      BY <1>4, <3>1 DEF RegInv, PairsRaced
    <3>3. registry[EnvoyOf[r]] = {r} /\ EnvoyOf[r] \in UUIDs
      BY <3>1, StreamConstants DEF RegInv, RegistryIsTrue
    <3> QED
      BY <1>1, <3>2, <3>3 DEF RegInv, RegistryShape
  <2> QED
    BY <2>3, <2>4 DEF RegistryIsTrue
<1>7. Room'
  <2>1. Cardinality(served') <= Cardinality(served) /\ Cardinality(served') \in Nat
    BY <1>4, ServedFinite, FS_Subset, FS_CardinalityType
  <2> QED
    BY <1>1, <1>4, <2>1, ServedFinite DEF RegInv, Room, RegistryShape
<1> QED
  BY <1>2, <1>5, <1>6, <1>7 DEF RegInv

(* The other steps of a stream, from one place in Registered to another or *)
(* from being admitted to being refused.                                   *)
LEMMA OtherStreamSteps ==
  ASSUME JobInv, RegInv, NEW s \in Streams,
         \/ recordPodMetadataFails(s) \/ Sub(s) \/ CertificateRotated(s) \/ GrpcClosed(s) \/ Drain(s)
         \/ Unsub(s) \/ Disconnect(s) \/ \E kind \in {"secrets", "other"} : Event(s, kind)
  PROVE  JobInv' /\ RegInv'
<1>1. UNCHANGED <<registry, raced, limit, jobs, worker>>
  BY SMTT(30) DEF recordPodMetadataFails, Sub, CertificateRotated, GrpcClosed, Drain, Unsub, Disconnect, Event
<1>2. \/ pc' = pc
      \/ pc[s] = "admitted" /\ pc' = [pc EXCEPT ![s] = "refused"]
      \/ /\ pc[s] \in Registered \ {"waiting"}
         /\ \E x \in Registered : pc' = [pc EXCEPT ![s] = x]
  BY SMTT(30) DEF recordPodMetadataFails, Sub, CertificateRotated, GrpcClosed, Drain, Unsub, Disconnect, Event,
         Registered
<1>3. JobInv'
  <2>1. CASE pc' = pc
    BY <1>1, <2>1, SMTT(30)
    DEF JobInv, JobShape, Runs, OneEach, RunWaits, RunOnce, QueueWaits, QueueOnce, NotBoth
  <2>2. CASE pc[s] = "admitted" /\ pc' = [pc EXCEPT ![s] = "refused"]
    BY <1>1, <2>2, StreamSteps DEF PCs
  <2>3. CASE /\ pc[s] \in Registered \ {"waiting"}
             /\ \E x \in Registered : pc' = [pc EXCEPT ![s] = x]
    BY <1>1, <2>3, StreamSteps DEF PCs
  <2> QED
    BY <1>2, <2>1, <2>2, <2>3
<1>4. pc \in [Streams -> PCs]
  BY DEF JobInv, JobShape
<1>5. /\ \A r \in Streams : pc'[r] \in Registered <=> pc[r] \in Registered
      /\ \A r \in Streams : pc'[r] = "admitted" => pc[r] = "admitted"
  BY <1>2, <1>4 DEF Registered
<1> QED
  BY <1>1, <1>3, <1>5, RegistryKept

(* Every step. *)
LEMMA NextStep ==
  ASSUME JobInv, RegInv, [Next]_vars
  PROVE  JobInv' /\ RegInv'
<1>1. ASSUME NEW s \in Streams, AddJob(s)
      PROVE  JobInv' /\ RegInv'
  <2>1. /\ pc[s] = "adding" /\ pc' = [pc EXCEPT ![s] = "waiting"]
        /\ UNCHANGED <<registry, raced, limit>> /\ pc \in [Streams -> PCs]
    BY <1>1 DEF AddJob, JobInv, JobShape
  <2> QED
    BY <1>1, <2>1, AddJobStep, RegistryKept DEF Registered
<1>2. ASSUME NEW w \in Workers, work(w)
      PROVE  JobInv' /\ RegInv'
  <2>1. UNCHANGED <<registry, raced, limit, pc>>
    BY <1>2 DEF work
  <2> QED
    BY <1>2, <2>1, WorkStep, RegistryKept
<1>3. ASSUME NEW w \in Workers, Send(w)
      PROVE  JobInv' /\ RegInv'
  <2>1. UNCHANGED <<registry, raced, limit>> /\ pc \in [Streams -> PCs]
    BY <1>3 DEF Send, JobInv, JobShape
  <2>2. PICK s \in Streams : pc[s] = "waiting" /\ pc' = [pc EXCEPT ![s] = "open"]
    BY <1>3, SendStep
  <2> QED
    BY <1>3, <2>1, <2>2, SendStep, RegistryKept DEF Registered
<1>4. ASSUME \/ \E w \in Workers : IssueCertificate(w) \/ RotateInJob(w) \/ PublishInJob(w)
             \/ \E u \in UUIDs : Rotate(u)
      PROVE  JobInv' /\ RegInv'
  BY <1>4, OtherWorkerSteps, RegistryKept
<1>5. ASSUME Publish \/ Deliver \/ UNCHANGED vars
      PROVE  JobInv' /\ RegInv'
  <2>1. UNCHANGED <<registry, raced, limit, pc, jobs, worker>>
    BY <1>5 DEF Publish, Deliver, vars
  <2>2. JobInv'
    BY <2>1
    DEF JobInv, JobShape, Runs, OneEach, RunWaits, RunOnce, QueueWaits, QueueOnce, NotBoth
  <2> QED
    BY <2>1, <2>2, RegistryKept
<1> QED
  BY <1>1, <1>2, <1>3, <1>4, <1>5, ConnectStep, RegisterStep, UnregisterStep, OtherStreamSteps
  DEF Next, Proceed, Serve, Work

(* Both invariants hold throughout. *)
LEMMA StreamInvariants == Spec => [](JobInv /\ RegInv)
<1>1. Init => JobInv /\ RegInv
  BY InitJobInv, InitRegInv
<1>2. JobInv /\ RegInv /\ [Next]_vars => (JobInv /\ RegInv)'
  BY NextStep
<1> QED
  BY <1>1, <1>2, PTL DEF Spec

(* A stream is in the queue or with a worker, once, and only while it      *)
(* waits for its job: what AddJob and the channel that work returns are    *)
(* for (workerpool.go).                                                    *)
THEOREM JobsBelongToWaitingStreams == Spec => []JobInv
  BY StreamInvariants, PTL

(* For any Envoys and streams, the registry has served streams only, and   *)
(* misses only such as were registered together with another of their      *)
(* Envoy (registry.go: RegisterProxy, UnregisterProxy).                    *)
THEOREM RegistryIsAlwaysTrue == Spec => []RegistryIsTrue
<1>1. RegInv => RegistryIsTrue
  BY DEF RegInv
<1> QED
  BY <1>1, StreamInvariants, PTL

(* And for any limit, it holds unless streams raced (ads/stream.go).       *)
THEOREM LimitAlwaysHolds == Spec => []LimitHolds
<1>1. RegInv => LimitHolds
  BY DEF RegInv, Room, LimitHolds, served
<1> QED
  BY <1>1, StreamInvariants, PTL
=============================================================================
