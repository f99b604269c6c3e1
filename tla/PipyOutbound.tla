---------------------------- MODULE PipyOutbound ----------------------------
(***************************************************************************)
(* A sidecar's outbound HTTP pipeline                                      *)
(* (pkg/sidecar/providers/pipy/repo/codebase/modules): a request is routed *)
(* to a cluster, passes the cluster's circuit breaker, is given an         *)
(* endpoint and sent upstream; the answer travels the same way back.  A    *)
(* bad answer makes the load balancer send the request again, to the same  *)
(* endpoint (the retry policy) or once to a stand-by endpoint, and makes   *)
(* the routing run the whole chain once more for a stand-by cluster.       *)
(*                                                                         *)
(* Pipy runs handlers one at a time; between the steps of a request those  *)
(* of others and of the breakers' timer happen.  A request has a context   *)
(* of its own, which replays keep: the routing finds its _origPath there,  *)
(* the load balancer its _retryCount.                                      *)
(*                                                                         *)
(* An answer is the class of its status, or "none" for an answer without   *)
(* one (the connection broke).  The cluster weights of one matched route   *)
(* and the endpoint weights of the clusters are constants; what the match  *)
(* depends on is the matter of PipyProxy; how the connection upstream is    *)
(* made (TLS, egress gateway) is left out.                                 *)
(***************************************************************************)
EXTENDS Integers, Sequences

CONSTANTS
  Requests,
  Clusters,
  TargetClusters,        \* weights of the route: [a subset of Clusters -> Nat]
  Endpoints,             \* cluster -> [its endpoints -> weight]
  WithPath,              \* the endpoints that have a Path: remote clusters'
  NumRetries,            \* cluster -> Nat; 0 is no retry policy
  Breakers,              \* the clusters with CircuitBreaking
  MinRequestAmount, StatTimeWindow, DegradedTimeWindow,
  ErrorAmountThreshold,  \* 0 switches a threshold off
  ErrorRatioThreshold,   \* in percent
  SlowAmountThreshold, SlowRatioThreshold,
  DegradedStatusCode,
  None                   \* null

Statuses == {"2xx", "4xx", "5xx", "none"}

ASSUME OutboundConstants ==
  /\ DOMAIN TargetClusters \subseteq Clusters
  /\ \A c \in DOMAIN TargetClusters : TargetClusters[c] \in Nat
  /\ \A c \in Clusters : NumRetries[c] \in Nat
  /\ Breakers \subseteq Clusters
  /\ MinRequestAmount \in Nat \ {0} /\ StatTimeWindow \in Nat \ {0}
  /\ DegradedTimeWindow \in Nat \ {0}
  /\ ErrorAmountThreshold \in Nat /\ ErrorRatioThreshold \in Nat
  /\ SlowAmountThreshold \in Nat /\ SlowRatioThreshold \in Nat
  /\ DegradedStatusCode \in Statuses /\ None \notin Clusters
  /\ None \notin WithPath /\ \A c \in Clusters : None \notin DOMAIN Endpoints[c]

VARIABLES
  ctx,       \* request -> its context
  cb,        \* cluster -> its circuit breaker
  past       \* cluster -> history: answers and refreshes since ... (see NoPast)

vars == <<ctx, cb, past>>
-----------------------------------------------------------------------------
(* algo.RoundRobinLoadBalancer: any entry with a weight may be next. *)
next(weights) ==
  LET active == {k \in DOMAIN weights : weights[k] > 0}
  IN IF active = {} THEN {None} ELSE active

(* The balancer over the entries of weight 0. *)
failover(weights) ==
  LET standby == {k \in DOMAIN weights : weights[k] = 0}
  IN IF standby = {} THEN {None} ELSE standby

needRetry(c) == c # None /\ NumRetries[c] > 0
Bad(status) == status \in {"5xx", "none"}
retryStatusCodes == {"5xx"}

(* The variables of a request's context.  The path is given by the         *)
(* endpoints whose Paths are in front of the original.  History: whether   *)
(* the answer is a breaker's, the runs of the chain, the calls of this run. *)
Fresh ==
  [phase |-> "idle", cluster |-> None, failoverCluster |-> None,
   target |-> None, failoverObject |-> None, retryCount |-> 0,
   path |-> << >>, answer |-> "none", shed |-> FALSE, passes |-> 0, calls |-> 0]

(* A new circuit breaker; its quotas hold one less than the threshold. *)
QuotaOneShort(threshold) == IF threshold > 1 THEN threshold - 2 ELSE 0
Quota(threshold) == IF threshold > 0 THEN threshold - 1 ELSE 0
makeCircuitBreaker ==
  [tick |-> 0, delay |-> 0, total |-> 0, slowAmount |-> 0, errorAmount |-> 0,
   degraded |-> FALSE,
   errorQuota |-> Quota(ErrorAmountThreshold),
   slowQuota |-> Quota(SlowAmountThreshold)]

(* History: error and slow answers since the quota was last filled,        *)
(* refreshes since the breaker opened.                                     *)
NoPast == [errors |-> 0, slows |-> 0, refreshes |-> 0]

Init ==
  /\ ctx = [r \in Requests |-> Fresh]
  /\ cb = [c \in Clusters |-> makeCircuitBreaker]
  /\ past = [c \in Clusters |-> NoPast]
-----------------------------------------------------------------------------
(* checkError and checkSlow: one more in the amount, the quota, the ratio. *)
Ratio(amount, total, threshold) ==
  threshold > 0 /\ total >= MinRequestAmount /\ amount * 100 >= threshold * total

Counted(amount, total) == IF amount < total THEN amount + 1 ELSE amount

checkError(b, status) ==
  IF (ErrorAmountThreshold > 0 \/ ErrorRatioThreshold > 0) /\ status = "5xx"
  THEN LET errors == Counted(b.errorAmount, b.total)
           spent == ErrorAmountThreshold > 0 /\ b.errorQuota < 1
       IN [b EXCEPT
             !.errorAmount = errors,
             !.errorQuota = IF ErrorAmountThreshold > 0 /\ ~spent THEN @ - 1 ELSE @,
             !.degraded = @ \/ spent \/ Ratio(errors, b.total, ErrorRatioThreshold)]
  ELSE b

checkSlow(b, slow) ==
  IF (SlowAmountThreshold > 0 \/ SlowRatioThreshold > 0) /\ slow
  THEN LET slows == Counted(b.slowAmount, b.total)
           spent == SlowAmountThreshold > 0 /\ b.slowQuota < 1
       IN [b EXCEPT
             !.slowAmount = slows,
             !.slowQuota = IF SlowAmountThreshold > 0 /\ ~spent THEN @ - 1 ELSE @,
             !.degraded = @ \/ spent \/ Ratio(slows, b.total, SlowRatioThreshold)]
  ELSE b

increase(b) == [b EXCEPT !.total = @ + 1]

Closed(b) ==
  [b EXCEPT !.degraded = FALSE, !.delay = 0, !.tick = 0,
            !.total = 0, !.slowAmount = 0, !.errorAmount = 0]

(* A closed breaker's statistics start over when their window ends. *)
Ticked(b) ==
  IF b.tick + 1 > StatTimeWindow
  THEN [b EXCEPT !.tick = 0, !.total = 0, !.slowAmount = 0, !.errorAmount = 0]
  ELSE [b EXCEPT !.tick = @ + 1]

refreshTimerEarly(b) ==
  IF ~b.degraded THEN Ticked(b)
  ELSE IF b.delay + 1 >= DegradedTimeWindow THEN Ticked(Closed(b))
  ELSE [b EXCEPT !.delay = @ + 1]
refreshTimer(b) ==
  IF ~b.degraded THEN Ticked(b)
  ELSE IF b.delay + 1 > DegradedTimeWindow THEN Ticked(Closed(b))
  ELSE [b EXCEPT !.delay = @ + 1]
-----------------------------------------------------------------------------
(* demuxHTTP: a request gets its context. *)
Arrive(r) ==
  /\ ctx[r].phase = "idle"
  /\ ctx' = [ctx EXCEPT ![r].phase = "route"]
  /\ UNCHANGED <<cb, past>>

(* The routing sees an answer: a bad one runs the chain again if there is  *)
(* a stand-by cluster left.                                                *)
Returned(k, status, shed) ==
  IF k.failoverCluster # None /\ Bad(status)
  THEN [k EXCEPT !.phase = "route"]
  ELSE [k EXCEPT !.phase = "done", !.answer = status, !.shed = shed]

(* The load balancer takes an endpoint and, if the cluster has some, a     *)
(* stand-by one.  A Path of the endpoint goes in front of the request's.   *)
Balanced(k, c, e, f) ==
  [k EXCEPT !.phase = "upstream", !.target = e,
            !.failoverObject = IF f # None THEN f ELSE @,
            !.path = IF e \in WithPath THEN <<e>> \o @ ELSE @,
            !.calls = IF e # None THEN @ + 1 ELSE @]

EndpointsOf(c) == IF c = None THEN << >> ELSE Endpoints[c]

(* The chain after the routing: the breaker answers itself or counts the   *)
(* request and lets it through.                                            *)
Chain(r, k, c) ==
  IF c \in Breakers /\ cb[c].degraded
  THEN /\ ctx' = [ctx EXCEPT ![r] = Returned(k, DegradedStatusCode, TRUE)]
       /\ UNCHANGED cb
  ELSE /\ \E e \in next(EndpointsOf(c)), f \in failover(EndpointsOf(c)) :
            ctx' = [ctx EXCEPT ![r] = Balanced(k, c, e, f)]
       /\ cb' = IF c \in Breakers THEN [cb EXCEPT ![c] = increase(@)] ELSE cb

(* The routing starts: the original path is put back. *)
RestartedAsLeft(k) == [k EXCEPT !.passes = @ + 1, !.calls = 0]
Restarted(k) == [k EXCEPT !.path = << >>, !.passes = @ + 1, !.calls = 0]

(* The stand-by cluster of an earlier run is taken, or a rule is looked    *)
(* for: the first disjunct is a rule that matches, the second that none    *)
(* does.                                                                   *)
Route(r) ==
  /\ ctx[r].phase = "route"
  /\ LET k == Restarted(ctx[r])
     IN \/ /\ k.failoverCluster = None
           /\ \E c \in next(TargetClusters), fo \in failover(TargetClusters) :
                Chain(r, [k EXCEPT !.cluster = c, !.failoverCluster = fo], c)
        \/ /\ k.failoverCluster = None
           /\ Chain(r, k, None)
        \/ /\ k.failoverCluster # None
           /\ Chain(r, [k EXCEPT !.cluster = k.failoverCluster,
                                !.failoverCluster = None], k.failoverCluster)
  /\ UNCHANGED past

(* A replay of the load balancer: the endpoint is called again. *)
Replay(r) ==
  /\ ctx[r].phase = "call"
  /\ ctx' = [ctx EXCEPT ![r].phase = "upstream", ![r].calls = @ + 1]
  /\ UNCHANGED <<cb, past>>
-----------------------------------------------------------------------------
(* The answers the upstream may give; without an endpoint the chain ends   *)
(* in the default module, which denies the request.                        *)
AnswersWithoutDefault(k) == IF k.target = None THEN {} ELSE Statuses
Answers(k) == IF k.target = None THEN {"4xx"} ELSE Statuses

shouldRetryOnceMore(k, status) ==
  /\ needRetry(k.cluster) /\ status \in retryStatusCodes
  /\ k.retryCount <= NumRetries[k.cluster]
shouldRetryButOnce(k, status) ==
  /\ needRetry(k.cluster) /\ status \in retryStatusCodes
  /\ k.retryCount + 1 < NumRetries[k.cluster]
shouldRetry(k, status) ==
  /\ needRetry(k.cluster) /\ status \in retryStatusCodes
  /\ k.retryCount < NumRetries[k.cluster]

(* A cluster with a retry policy does not use its stand-by endpoints. *)
shouldFailOver(k, status) ==
  /\ ~needRetry(k.cluster) /\ k.failoverObject # None /\ Bad(status)

Retry(r) ==
  /\ ctx[r].phase = "upstream"
  /\ \E status \in Answers(ctx[r]) : shouldRetry(ctx[r], status)
  /\ ctx' = [ctx EXCEPT ![r].phase = "call", ![r].retryCount = @ + 1]
  /\ UNCHANGED <<cb, past>>

FailOver(r) ==
  /\ ctx[r].phase = "upstream"
  /\ \E status \in Answers(ctx[r]) : shouldFailOver(ctx[r], status)
  /\ ctx' = [ctx EXCEPT ![r].phase = "call", ![r].target = ctx[r].failoverObject,
                        ![r].failoverObject = None]
  /\ UNCHANGED <<cb, past>>

(* An answer passes the breaker, which looks at its status and at the time *)
(* it took, and reaches the routing.                                       *)
Answer(r) ==
  LET k == ctx[r]
      c == k.cluster
  IN /\ k.phase = "upstream"
     /\ \E status \in Answers(k), slow \in BOOLEAN :
          /\ ~shouldRetry(k, status) /\ ~shouldFailOver(k, status)
          /\ slow => SlowAmountThreshold > 0 \/ SlowRatioThreshold > 0
          /\ ctx' = [ctx EXCEPT ![r] = Returned(k, status, FALSE)]
          /\ IF c \in Breakers /\ status # "none"
             THEN /\ cb' = [cb EXCEPT ![c] = checkSlow(checkError(@, status), slow)]
                  /\ past' = [past EXCEPT
                                ![c].errors = IF status = "5xx" THEN @ + 1 ELSE @,
                                ![c].slows = IF slow THEN @ + 1 ELSE @]
             ELSE UNCHANGED <<cb, past>>

(* The task that runs every second. *)
Refresh ==
  /\ cb' = [c \in Clusters |-> IF c \in Breakers THEN refreshTimer(cb[c]) ELSE cb[c]]
  /\ past' = [c \in Clusters |->
                [past[c] EXCEPT !.refreshes = IF cb'[c].degraded THEN @ + 1 ELSE 0]]
  /\ UNCHANGED ctx

(* algo.Quota: at some time a quota is full again. *)
Replenish(c) ==
  /\ \/ /\ cb' = [cb EXCEPT ![c].errorQuota = Quota(ErrorAmountThreshold)]
        /\ past' = [past EXCEPT ![c].errors = 0]
     \/ /\ cb' = [cb EXCEPT ![c].slowQuota = Quota(SlowAmountThreshold)]
        /\ past' = [past EXCEPT ![c].slows = 0]
  /\ UNCHANGED ctx

Next ==
  \/ \E r \in Requests :
       Arrive(r) \/ Route(r) \/ Replay(r) \/ Retry(r) \/ FailOver(r) \/ Answer(r)
  \/ Refresh
  \/ \E c \in Breakers : Replenish(c)

Spec == Init /\ [][Next]_vars

(* The event loop runs what is ready, the connection's time-outs end every *)
(* wait for an upstream, and the task runs every second.                   *)
FairSpec ==
  /\ Spec
  /\ \A r \in Requests :
       /\ WF_vars(Route(r)) /\ WF_vars(Replay(r))
       /\ WF_vars(Retry(r) \/ FailOver(r) \/ Answer(r))
  /\ WF_vars(Refresh)
-----------------------------------------------------------------------------
(* A request is sent upstream a bounded number of times: in each of its at *)
(* most two runs of the chain once, and then once for each retry of the    *)
(* cluster's policy or once to a stand-by endpoint (shouldRetry, the two   *)
(* replays).                                                               *)
CallsOfPass(c) == IF needRetry(c) THEN 1 + NumRetries[c] ELSE 2
CallsAreBounded ==
  \A r \in Requests :
    LET k == ctx[r]
    IN /\ k.passes <= 2
       /\ k.calls > 0 => k.cluster # None /\ k.calls <= CallsOfPass(k.cluster)

(* The caller gets a bad answer of an upstream only when nothing is left   *)
(* to try: the chain has run for the stand-by cluster if the route has     *)
(* one, the retries of the last cluster are used up, and, if it has no     *)
(* retry policy, its stand-by endpoint has been called (the replays of     *)
(* outbound-http-routing.js and outbound-http-load-balancing.js).          *)
BadAnswerIsTheLastResort ==
  \A r \in Requests :
    LET k == ctx[r]
    IN k.phase = "done" /\ Bad(k.answer) /\ ~k.shed =>
         /\ failover(TargetClusters) # {None} => k.passes = 2
         /\ needRetry(k.cluster) /\ k.answer = "5xx" => k.retryCount >= NumRetries[k.cluster]
         /\ ~needRetry(k.cluster) /\ failover(Endpoints[k.cluster]) # {None} => k.calls = 2

(* However often a request is sent, at most one Path is in front of its    *)
(* own, and it is that of an endpoint of the cluster it is sent to         *)
(* (_origPath in outbound-http-routing.js).                                *)
PathsDoNotPileUp ==
  \A r \in Requests :
    LET k == ctx[r]
    IN k.path # << >> =>
         /\ Len(k.path) = 1
         /\ k.phase = "route" \/ k.path[1] \in DOMAIN Endpoints[k.cluster]

(* A breaker opens for a reason: since its quota was last full there were  *)
(* as many bad answers as the threshold says, or the share of them among   *)
(* enough requests of this window is as large; and it is a share, although *)
(* answers may come after the statistics their requests were counted in    *)
(* were dropped (checkError, checkSlow, refreshTimer).                     *)
OpensForCause ==
  [][\A c \in Clusters : ~cb[c].degraded /\ cb'[c].degraded =>
       LET b == cb'[c]
       IN /\ b.errorAmount \in 0 .. b.total /\ b.slowAmount \in 0 .. b.total
          /\ \/ ErrorAmountThreshold > 0 /\ past'[c].errors >= ErrorAmountThreshold
             \/ SlowAmountThreshold > 0 /\ past'[c].slows >= SlowAmountThreshold
             \/ /\ b.total >= MinRequestAmount
                /\ \/ /\ ErrorRatioThreshold > 0
                      /\ b.errorAmount * 100 >= ErrorRatioThreshold * b.total
                   \/ /\ SlowRatioThreshold > 0
                      /\ b.slowAmount * 100 >= SlowRatioThreshold * b.total]_vars

(* An open breaker closes after DegradedTimeWindow whole seconds, no       *)
(* sooner and no later, whatever bad answers still come (refreshTimer).    *)
ClosesInTime ==
  [][\A c \in Clusters :
       /\ cb[c].degraded /\ ~cb'[c].degraded => past[c].refreshes = DegradedTimeWindow
       /\ past'[c].refreshes <= DegradedTimeWindow]_vars

(* Every request is answered, whatever it meets: no replay goes on for     *)
(* ever, and a request that no route or endpoint takes is denied.          *)
EveryRequestAnswered ==
  \A r \in Requests : ctx[r].phase # "idle" ~> ctx[r].phase = "done"
=============================================================================
