------------------------- MODULE PipyOutboundProofs -------------------------
(***************************************************************************)
(* A request is sent a bounded number of times and fails only when nothing *)
(* is left to try, and a breaker opens for a cause and closes in time, for *)
(* any requests, clusters, weights, policies, thresholds and windows.       *)
(***************************************************************************)
EXTENDS PipyOutbound, TLAPS

BreakerStates ==
  [tick : Nat, delay : Nat, total : Nat, slowAmount : Nat, errorAmount : Nat,
   degraded : BOOLEAN, errorQuota : Nat, slowQuota : Nat]
Pasts == [errors : Nat, slows : Nat, refreshes : Nat]

BreakerShape == cb \in [Clusters -> BreakerStates] /\ past \in [Clusters -> Pasts]

(* The amounts are parts of the total. *)
Parts(b) == b.errorAmount <= b.total /\ b.slowAmount <= b.total

(* The delay counts the refreshes of an open breaker. *)
Delayed(b, p) ==
  /\ p.refreshes = b.delay /\ b.delay <= DegradedTimeWindow
  /\ ~b.degraded => b.delay = 0

(* What a quota has lost has been answered. *)
QuotaKept(threshold, quota, seen) == threshold > 0 => quota + seen >= threshold - 1

BreakerInv ==
  /\ BreakerShape
  /\ \A c \in Clusters :
       /\ Parts(cb[c]) /\ Delayed(cb[c], past[c])
       /\ QuotaKept(ErrorAmountThreshold, cb[c].errorQuota, past[c].errors)
       /\ QuotaKept(SlowAmountThreshold, cb[c].slowQuota, past[c].slows)
       /\ cb[c].degraded => c \in Breakers
-----------------------------------------------------------------------------
(* A quota is a number, at least one less than its threshold. *)
LEMMA QuotaFilled ==
  ASSUME NEW t \in Nat
  PROVE  Quota(t) \in Nat /\ (t > 0 => Quota(t) = t - 1)
  BY DEF Quota

(* One more of an amount is still a part of the total. *)
LEMMA CountedPart ==
  ASSUME NEW a \in Nat, NEW t \in Nat, a <= t
  PROVE  Counted(a, t) \in Nat /\ Counted(a, t) <= t
  BY DEF Counted

(* The reasons for which an answer may open a breaker. *)
ErrorCause(b, p) ==
  \/ ErrorAmountThreshold > 0 /\ p.errors >= ErrorAmountThreshold
  \/ Ratio(b.errorAmount, b.total, ErrorRatioThreshold)
SlowCause(b, p) ==
  \/ SlowAmountThreshold > 0 /\ p.slows >= SlowAmountThreshold
  \/ Ratio(b.slowAmount, b.total, SlowRatioThreshold)

(* checkError keeps what a breaker's state is, counts an error, and opens   *)
(* the breaker only for a cause.                                            *)
LEMMA CheckErrorKeeps ==
  ASSUME NEW b \in BreakerStates, NEW p \in Pasts, NEW status \in Statuses,
         Parts(b), QuotaKept(ErrorAmountThreshold, b.errorQuota, p.errors),
         NEW q \in Pasts, q.errors = IF status = "5xx" THEN p.errors + 1 ELSE p.errors
  PROVE  LET d == checkError(b, status)
         IN /\ d \in BreakerStates /\ Parts(d)
            /\ QuotaKept(ErrorAmountThreshold, d.errorQuota, q.errors)
            /\ d.delay = b.delay /\ d.slowQuota = b.slowQuota
            /\ d.total = b.total /\ d.slowAmount = b.slowAmount
            /\ b.degraded => d.degraded
            /\ d.degraded => b.degraded \/ ErrorCause(d, q)
<1> DEFINE d == checkError(b, status)
           errors == Counted(b.errorAmount, b.total)
           spent == ErrorAmountThreshold > 0 /\ b.errorQuota < 1
           quota == IF ErrorAmountThreshold > 0 /\ ~spent THEN b.errorQuota - 1
                                                          ELSE b.errorQuota
           opens == b.degraded \/ spent \/ Ratio(errors, b.total, ErrorRatioThreshold)
<1>1. CASE (ErrorAmountThreshold > 0 \/ ErrorRatioThreshold > 0) /\ status = "5xx"
  <2>1. d = [b EXCEPT !.errorAmount = errors, !.errorQuota = quota, !.degraded = opens]
    BY <1>1 DEF checkError
  <2>2. errors \in Nat /\ errors <= b.total
    BY CountedPart DEF Parts, BreakerStates
  <2>3. quota \in Nat
    BY OutboundConstants DEF BreakerStates
  <2>4. opens \in BOOLEAN
    BY DEF BreakerStates
  <2> HIDE DEF errors, quota, opens
  <2>5. /\ d \in BreakerStates
        /\ d.errorAmount = errors /\ d.errorQuota = quota /\ d.degraded = opens
        /\ d.delay = b.delay /\ d.slowQuota = b.slowQuota
        /\ d.total = b.total /\ d.slowAmount = b.slowAmount
    BY <2>1, <2>2, <2>3, <2>4, Zenon DEF BreakerStates
  <2>6. Parts(d)
    BY <2>2, <2>5 DEF Parts
  <2>7. QuotaKept(ErrorAmountThreshold, quota, q.errors)
    BY <1>1, OutboundConstants DEF QuotaKept, quota, BreakerStates, Pasts
  <2>8. spent => ErrorAmountThreshold > 0 /\ q.errors >= ErrorAmountThreshold
    BY <1>1, OutboundConstants DEF QuotaKept, BreakerStates, Pasts
  <2>9. opens => b.degraded \/ ErrorCause(d, q)
    BY <2>5, <2>8, Zenon DEF opens, ErrorCause
  <2>10. b.degraded => opens
    BY DEF opens
  <2> QED
    BY <2>5, <2>6, <2>7, <2>9, <2>10
<1>2. CASE ~((ErrorAmountThreshold > 0 \/ ErrorRatioThreshold > 0) /\ status = "5xx")
  <2>1. d = b
    BY <1>2 DEF checkError
  <2>2. QuotaKept(ErrorAmountThreshold, b.errorQuota, q.errors)
    BY OutboundConstants DEF QuotaKept, BreakerStates, Pasts
  <2> QED
    BY <2>1, <2>2
<1> QED
  BY <1>1, <1>2

(* The same of checkSlow. *)
LEMMA CheckSlowKeeps ==
  ASSUME NEW b \in BreakerStates, NEW p \in Pasts, NEW slow \in BOOLEAN,
         Parts(b), QuotaKept(SlowAmountThreshold, b.slowQuota, p.slows),
         NEW q \in Pasts, q.slows = IF slow THEN p.slows + 1 ELSE p.slows
  PROVE  LET d == checkSlow(b, slow)
         IN /\ d \in BreakerStates /\ Parts(d)
            /\ QuotaKept(SlowAmountThreshold, d.slowQuota, q.slows)
            /\ d.delay = b.delay /\ d.errorQuota = b.errorQuota
            /\ d.total = b.total /\ d.errorAmount = b.errorAmount
            /\ b.degraded => d.degraded
            /\ d.degraded => b.degraded \/ SlowCause(d, q)
<1> DEFINE d == checkSlow(b, slow)
           slows == Counted(b.slowAmount, b.total)
           spent == SlowAmountThreshold > 0 /\ b.slowQuota < 1
           quota == IF SlowAmountThreshold > 0 /\ ~spent THEN b.slowQuota - 1
                                                         ELSE b.slowQuota
           opens == b.degraded \/ spent \/ Ratio(slows, b.total, SlowRatioThreshold)
<1>1. CASE (SlowAmountThreshold > 0 \/ SlowRatioThreshold > 0) /\ slow
  <2>1. d = [b EXCEPT !.slowAmount = slows, !.slowQuota = quota, !.degraded = opens]
    BY <1>1 DEF checkSlow
  <2>2. slows \in Nat /\ slows <= b.total
    BY CountedPart DEF Parts, BreakerStates
  <2>3. quota \in Nat
    BY OutboundConstants DEF BreakerStates
  <2>4. opens \in BOOLEAN
    BY DEF BreakerStates
  <2>0. q.slows = p.slows + 1
    BY <1>1
  <2> HIDE DEF slows, quota, opens
  <2>5. /\ d \in BreakerStates
        /\ d.slowAmount = slows /\ d.slowQuota = quota /\ d.degraded = opens
        /\ d.delay = b.delay /\ d.errorQuota = b.errorQuota
        /\ d.total = b.total /\ d.errorAmount = b.errorAmount
    BY <2>1, <2>2, <2>3, <2>4, Zenon DEF BreakerStates
  <2>6. Parts(d)
    BY <2>2, <2>5 DEF Parts
  <2>7. QuotaKept(SlowAmountThreshold, quota, q.slows)
    BY <2>0, OutboundConstants DEF QuotaKept, quota, BreakerStates, Pasts
  <2>8. spent => SlowAmountThreshold > 0 /\ q.slows >= SlowAmountThreshold
    BY <2>0, OutboundConstants DEF QuotaKept, BreakerStates, Pasts
  <2>9. opens => b.degraded \/ SlowCause(d, q)
    BY <2>5, <2>8, Zenon DEF opens, SlowCause
  <2>10. b.degraded => opens
    BY DEF opens
  <2> QED
    BY <2>5, <2>6, <2>7, <2>9, <2>10
<1>2. CASE ~((SlowAmountThreshold > 0 \/ SlowRatioThreshold > 0) /\ slow)
  <2>1. d = b
    BY <1>2 DEF checkSlow
  <2>2. q.slows \in Nat /\ p.slows \in Nat /\ q.slows >= p.slows
    BY DEF Pasts
  <2>3. QuotaKept(SlowAmountThreshold, b.slowQuota, q.slows)
    BY <2>2, OutboundConstants DEF QuotaKept, BreakerStates
  <2> QED
    BY <2>1, <2>3
<1> QED
  BY <1>1, <1>2

(* A refresh counts the delay of an open breaker, and closes it when the    *)
(* delay would exceed the window.                                           *)
LEMMA RefreshKeeps ==
  ASSUME NEW b \in BreakerStates, Parts(b), b.delay <= DegradedTimeWindow,
         ~b.degraded => b.delay = 0
  PROVE  LET d == refreshTimer(b)
         IN /\ d \in BreakerStates /\ Parts(d)
            /\ d.errorQuota = b.errorQuota /\ d.slowQuota = b.slowQuota
            /\ d.delay <= DegradedTimeWindow
            /\ d.degraded => b.degraded /\ d.delay = b.delay + 1
            /\ ~d.degraded => d.delay = 0
            /\ b.degraded /\ ~d.degraded => b.delay = DegradedTimeWindow
<1> DEFINE d == refreshTimer(b)
<1>0. 0 \in Nat /\ 0 <= 0
  OBVIOUS
<1>1. ASSUME NEW e \in BreakerStates, Parts(e)
      PROVE  /\ Ticked(e) \in BreakerStates /\ Parts(Ticked(e))
             /\ Ticked(e).errorQuota = e.errorQuota /\ Ticked(e).slowQuota = e.slowQuota
             /\ Ticked(e).delay = e.delay /\ Ticked(e).degraded = e.degraded
  <2>1. CASE e.tick + 1 > StatTimeWindow
    <3>1. Ticked(e) = [e EXCEPT !.tick = 0, !.total = 0, !.slowAmount = 0, !.errorAmount = 0]
      BY <2>1 DEF Ticked
    <3>2. /\ Ticked(e) \in BreakerStates
          /\ Ticked(e).total = 0 /\ Ticked(e).slowAmount = 0 /\ Ticked(e).errorAmount = 0
          /\ Ticked(e).errorQuota = e.errorQuota /\ Ticked(e).slowQuota = e.slowQuota
          /\ Ticked(e).delay = e.delay /\ Ticked(e).degraded = e.degraded
      BY <1>0, <3>1, ZenonT(30) DEF BreakerStates
    <3> QED
      BY <3>2 DEF Parts
  <2>2. CASE ~(e.tick + 1 > StatTimeWindow)
    <3>1. Ticked(e) = [e EXCEPT !.tick = e.tick + 1]
      BY <2>2 DEF Ticked
    <3>2. e.tick + 1 \in Nat
      BY DEF BreakerStates
    <3>3. /\ Ticked(e) \in BreakerStates /\ Ticked(e).total = e.total
          /\ Ticked(e).slowAmount = e.slowAmount /\ Ticked(e).errorAmount = e.errorAmount
          /\ Ticked(e).errorQuota = e.errorQuota /\ Ticked(e).slowQuota = e.slowQuota
          /\ Ticked(e).delay = e.delay /\ Ticked(e).degraded = e.degraded
      BY <3>1, <3>2, Zenon DEF BreakerStates
    <3> QED
      BY <1>1, <3>3 DEF Parts
  <2> QED
    BY <2>1, <2>2
<1>2. /\ Closed(b) \in BreakerStates /\ Parts(Closed(b))
      /\ Closed(b).errorQuota = b.errorQuota /\ Closed(b).slowQuota = b.slowQuota
      /\ Closed(b).delay = 0 /\ Closed(b).degraded = FALSE
  BY <1>0, Zenon DEF Closed, BreakerStates, Parts
<1>3. CASE ~b.degraded
  <2>1. d = Ticked(b)
    BY <1>3 DEF refreshTimer
  <2> QED
    BY <1>1, <1>3, <2>1
<1>4. CASE b.degraded /\ b.delay + 1 > DegradedTimeWindow
  <2>1. d = Ticked(Closed(b))
    BY <1>4 DEF refreshTimer
  <2>2. b.delay = DegradedTimeWindow /\ 0 <= DegradedTimeWindow
    BY <1>4, OutboundConstants DEF BreakerStates
  <2> QED
    BY <1>1, <1>2, <2>1, <2>2
<1>5. CASE b.degraded /\ ~(b.delay + 1 > DegradedTimeWindow)
  <2>1. d = [b EXCEPT !.delay = b.delay + 1]
    BY <1>5 DEF refreshTimer
  <2>2. b.delay + 1 \in Nat /\ b.delay + 1 <= DegradedTimeWindow
    BY <1>5, OutboundConstants DEF BreakerStates
  <2> QED
    BY <1>5, <2>1, <2>2 DEF BreakerStates, Parts
<1> QED
  BY <1>3, <1>4, <1>5

(* No breaker is open at first and nothing has been counted. *)
LEMMA InitBreakerInv == Init => BreakerInv
<1> SUFFICES ASSUME Init PROVE BreakerInv
  OBVIOUS
<1>1. /\ Quota(ErrorAmountThreshold) \in Nat /\ Quota(SlowAmountThreshold) \in Nat
      /\ QuotaKept(ErrorAmountThreshold, Quota(ErrorAmountThreshold), 0)
      /\ QuotaKept(SlowAmountThreshold, Quota(SlowAmountThreshold), 0)
  BY QuotaFilled, OutboundConstants DEF QuotaKept
<1>2. makeCircuitBreaker \in BreakerStates /\ NoPast \in Pasts
  BY <1>1 DEF makeCircuitBreaker, BreakerStates, NoPast, Pasts
<1>3. Parts(makeCircuitBreaker) /\ Delayed(makeCircuitBreaker, NoPast)
  BY OutboundConstants DEF makeCircuitBreaker, NoPast, Parts, Delayed
<1>4. /\ makeCircuitBreaker.errorQuota = Quota(ErrorAmountThreshold)
      /\ makeCircuitBreaker.slowQuota = Quota(SlowAmountThreshold)
      /\ makeCircuitBreaker.degraded = FALSE
      /\ NoPast.errors = 0 /\ NoPast.slows = 0
  BY DEF makeCircuitBreaker, NoPast
<1>5. BreakerShape
  BY <1>2 DEF Init, BreakerShape
<1> QED
  BY <1>1, <1>3, <1>4, <1>5 DEF Init, BreakerInv

(* What the steps do to one breaker and its history, whoever takes them. *)
Opens(c) ==
  ~cb[c].degraded /\ cb'[c].degraded =>
    Parts(cb'[c]) /\ (ErrorCause(cb'[c], past'[c]) \/ SlowCause(cb'[c], past'[c]))
Closes(c) == cb[c].degraded /\ ~cb'[c].degraded => past[c].refreshes = DegradedTimeWindow
BreakerStep == BreakerInv' /\ \A c \in Clusters : Opens(c) /\ Closes(c)

(* A step that leaves the breakers alone. *)
LEMMA BreakersRest ==
  ASSUME BreakerInv, UNCHANGED <<cb, past>>
  PROVE  BreakerStep
  BY DEF BreakerInv, BreakerShape, BreakerStep, Opens, Closes

(* A step that changes one breaker: it is enough to look at that one. *)
LEMMA OneBreaker ==
  ASSUME BreakerInv, NEW c \in Breakers,
         NEW d \in BreakerStates, NEW p \in Pasts,
         cb' = [cb EXCEPT ![c] = d], past' = [past EXCEPT ![c] = p],
         Parts(d), Delayed(d, p),
         QuotaKept(ErrorAmountThreshold, d.errorQuota, p.errors),
         QuotaKept(SlowAmountThreshold, d.slowQuota, p.slows),
         cb[c].degraded => d.degraded,
         d.degraded => cb[c].degraded \/ ErrorCause(d, p) \/ SlowCause(d, p)
  PROVE  BreakerStep
<1>1. c \in Clusters
  BY OutboundConstants
<1>2. BreakerShape'
  BY <1>1 DEF BreakerInv, BreakerShape
<1>3. cb'[c] = d /\ past'[c] = p
  BY <1>1 DEF BreakerInv, BreakerShape
<1>4. \A x \in Clusters \ {c} : cb'[x] = cb[x] /\ past'[x] = past[x]
  BY DEF BreakerInv, BreakerShape
<1>5. BreakerInv'
  BY <1>2, <1>3, <1>4, Zenon DEF BreakerInv
<1>6. \A x \in Clusters : Opens(x) /\ Closes(x)
  BY <1>3, <1>4, Zenon DEF Opens, Closes
<1> QED
  BY <1>5, <1>6 DEF BreakerStep

(* The routing adds a request to the total of a breaker. *)
LEMMA RouteBreaker ==
  ASSUME BreakerInv, NEW r \in Requests, Route(r)
  PROVE  BreakerStep
<1>1. past' = past
  BY DEF Route
<1>2. ASSUME NEW k, NEW c, Chain(r, k, c) PROVE BreakerStep
  <2>1. CASE cb' = cb
    BY <1>1, <2>1, BreakersRest
  <2>2. CASE c \in Breakers /\ cb' = [cb EXCEPT ![c] = increase(@)]
    <3>1. c \in Clusters /\ cb[c] \in BreakerStates /\ past[c] \in Pasts
      BY <2>2, OutboundConstants DEF BreakerInv, BreakerShape
    <3> DEFINE d == increase(cb[c])
    <3>2. /\ d \in BreakerStates /\ d.delay = cb[c].delay /\ d.degraded = cb[c].degraded
          /\ d.errorQuota = cb[c].errorQuota /\ d.slowQuota = cb[c].slowQuota
          /\ d.total = cb[c].total + 1 /\ d.errorAmount = cb[c].errorAmount
          /\ d.slowAmount = cb[c].slowAmount
      BY <3>1 DEF increase, BreakerStates
    <3>3. Parts(cb[c]) /\ Delayed(cb[c], past[c])
      BY <3>1 DEF BreakerInv
    <3>4. Parts(d)
      BY <3>1, <3>2, <3>3 DEF Parts, BreakerStates
    <3>5. Delayed(d, past[c])
      BY <3>2, <3>3 DEF Delayed
    <3>6. cb' = [cb EXCEPT ![c] = d] /\ past' = [past EXCEPT ![c] = past[c]]
      BY <1>1, <2>2, <3>1 DEF BreakerInv, BreakerShape
    <3> HIDE DEF d
    <3> QED
      BY <2>2, <3>1, <3>2, <3>4, <3>5, <3>6, OneBreaker DEF BreakerInv
  <2> QED
    BY <1>2, <2>1, <2>2 DEF Chain
<1> QED
  BY <1>2 DEF Route

(* An answer counts in the breaker of its cluster. *)
LEMMA AnswerBreaker ==
  ASSUME BreakerInv, NEW r \in Requests, Answer(r)
  PROVE  BreakerStep
<1> DEFINE c == ctx[r].cluster
<1>1. PICK status \in Answers(ctx[r]), slow \in BOOLEAN :
        IF c \in Breakers /\ status # "none"
        THEN /\ cb' = [cb EXCEPT ![c] = checkSlow(checkError(@, status), slow)]
             /\ past' = [past EXCEPT
                           ![c].errors = IF status = "5xx" THEN @ + 1 ELSE @,
                           ![c].slows = IF slow THEN @ + 1 ELSE @]
        ELSE UNCHANGED <<cb, past>>
  BY DEF Answer
<1>2. status \in Statuses
  BY DEF Answers, Statuses
<1>3. CASE c \in Breakers /\ status # "none"
  <2>1. c \in Clusters /\ cb[c] \in BreakerStates /\ past[c] \in Pasts
    BY <1>3, OutboundConstants DEF BreakerInv, BreakerShape
  <2> DEFINE p == [past[c] EXCEPT !.errors = IF status = "5xx" THEN @ + 1 ELSE @,
                                  !.slows = IF slow THEN @ + 1 ELSE @]
             e == checkError(cb[c], status)
             d == checkSlow(e, slow)
  <2>2. /\ p \in Pasts /\ p.refreshes = past[c].refreshes
        /\ p.errors = IF status = "5xx" THEN past[c].errors + 1 ELSE past[c].errors
        /\ p.slows = IF slow THEN past[c].slows + 1 ELSE past[c].slows
    <3> DEFINE e1 == IF status = "5xx" THEN past[c].errors + 1 ELSE past[c].errors
               s1 == IF slow THEN past[c].slows + 1 ELSE past[c].slows
    <3>1. e1 \in Nat /\ s1 \in Nat
      BY <2>1 DEF Pasts
    <3>2. p = [past[c] EXCEPT !.errors = e1, !.slows = s1]
      BY Zenon
    <3> HIDE DEF e1, s1, p
    <3>3. p \in Pasts /\ p.refreshes = past[c].refreshes /\ p.errors = e1 /\ p.slows = s1
      BY <2>1, <3>1, <3>2, Zenon DEF Pasts
    <3> QED
      BY <3>3 DEF e1, s1
  <2>3. cb' = [cb EXCEPT ![c] = d] /\ past' = [past EXCEPT ![c] = p]
    BY <1>1, <1>3, <2>1 DEF BreakerInv, BreakerShape
  <2>4. /\ Parts(cb[c]) /\ Delayed(cb[c], past[c])
        /\ QuotaKept(ErrorAmountThreshold, cb[c].errorQuota, past[c].errors)
        /\ QuotaKept(SlowAmountThreshold, cb[c].slowQuota, past[c].slows)
    BY <2>1 DEF BreakerInv
  <2> HIDE DEF p
  <2>5. /\ e \in BreakerStates /\ Parts(e)
        /\ QuotaKept(ErrorAmountThreshold, e.errorQuota, p.errors)
        /\ e.delay = cb[c].delay /\ e.slowQuota = cb[c].slowQuota
        /\ cb[c].degraded => e.degraded
        /\ e.degraded => cb[c].degraded \/ ErrorCause(e, p)
    BY <1>2, <2>1, <2>2, <2>4, CheckErrorKeeps, SMTT(30)
  <2> HIDE DEF e
  <2>6. /\ d \in BreakerStates /\ Parts(d)
        /\ QuotaKept(SlowAmountThreshold, d.slowQuota, p.slows)
        /\ d.delay = e.delay /\ d.errorQuota = e.errorQuota
        /\ d.total = e.total /\ d.errorAmount = e.errorAmount
        /\ e.degraded => d.degraded
        /\ d.degraded => e.degraded \/ SlowCause(d, p)
    BY <2>1, <2>2, <2>4, <2>5, CheckSlowKeeps, SMTT(30)
  <2> HIDE DEF d
  <2>7. ErrorCause(e, p) => ErrorCause(d, p)
    BY <2>6 DEF ErrorCause
  <2>8. Delayed(d, p)
    BY <2>2, <2>4, <2>5, <2>6, Zenon DEF Delayed
  <2> QED
    BY <1>3, <2>2, <2>3, <2>5, <2>6, <2>7, <2>8, OneBreaker
<1>4. CASE ~(c \in Breakers /\ status # "none")
  BY <1>1, <1>4, BreakersRest
<1> QED
  BY <1>3, <1>4

(* A full quota starts a new count. *)
LEMMA ReplenishBreaker ==
  ASSUME BreakerInv, NEW c \in Breakers, Replenish(c)
  PROVE  BreakerStep
<1>1. c \in Clusters /\ cb[c] \in BreakerStates /\ past[c] \in Pasts
  BY OutboundConstants DEF BreakerInv, BreakerShape
<1>2. /\ Parts(cb[c]) /\ Delayed(cb[c], past[c])
      /\ QuotaKept(ErrorAmountThreshold, cb[c].errorQuota, past[c].errors)
      /\ QuotaKept(SlowAmountThreshold, cb[c].slowQuota, past[c].slows)
  BY <1>1 DEF BreakerInv
<1>3. /\ Quota(ErrorAmountThreshold) \in Nat /\ Quota(SlowAmountThreshold) \in Nat
      /\ QuotaKept(ErrorAmountThreshold, Quota(ErrorAmountThreshold), 0)
      /\ QuotaKept(SlowAmountThreshold, Quota(SlowAmountThreshold), 0)
      /\ 0 \in Nat
  BY QuotaFilled, OutboundConstants DEF QuotaKept
<1>4. CASE /\ cb' = [cb EXCEPT ![c].errorQuota = Quota(ErrorAmountThreshold)]
           /\ past' = [past EXCEPT ![c].errors = 0]
  <2> DEFINE d == [cb[c] EXCEPT !.errorQuota = Quota(ErrorAmountThreshold)]
             p == [past[c] EXCEPT !.errors = 0]
  <2>1. cb' = [cb EXCEPT ![c] = d] /\ past' = [past EXCEPT ![c] = p]
    BY <1>4, Zenon
  <2>2. /\ d \in BreakerStates /\ p \in Pasts
        /\ d.errorQuota = Quota(ErrorAmountThreshold) /\ p.errors = 0
        /\ d.slowQuota = cb[c].slowQuota /\ p.slows = past[c].slows
        /\ d.delay = cb[c].delay /\ p.refreshes = past[c].refreshes
        /\ d.degraded = cb[c].degraded /\ d.total = cb[c].total
        /\ d.errorAmount = cb[c].errorAmount /\ d.slowAmount = cb[c].slowAmount
    BY <1>1, <1>3, Zenon DEF BreakerStates, Pasts
  <2> HIDE DEF d, p
  <2>3. Parts(d) /\ Delayed(d, p)
    BY <1>2, <2>2, Zenon DEF Parts, Delayed
  <2> QED
    BY <1>2, <1>3, <2>1, <2>2, <2>3, OneBreaker
<1>5. CASE /\ cb' = [cb EXCEPT ![c].slowQuota = Quota(SlowAmountThreshold)]
           /\ past' = [past EXCEPT ![c].slows = 0]
  <2> DEFINE d == [cb[c] EXCEPT !.slowQuota = Quota(SlowAmountThreshold)]
             p == [past[c] EXCEPT !.slows = 0]
  <2>1. cb' = [cb EXCEPT ![c] = d] /\ past' = [past EXCEPT ![c] = p]
    BY <1>5, Zenon
  <2>2. /\ d \in BreakerStates /\ p \in Pasts
        /\ d.slowQuota = Quota(SlowAmountThreshold) /\ p.slows = 0
        /\ d.errorQuota = cb[c].errorQuota /\ p.errors = past[c].errors
        /\ d.delay = cb[c].delay /\ p.refreshes = past[c].refreshes
        /\ d.degraded = cb[c].degraded /\ d.total = cb[c].total
        /\ d.errorAmount = cb[c].errorAmount /\ d.slowAmount = cb[c].slowAmount
    BY <1>1, <1>3, Zenon DEF BreakerStates, Pasts
  <2> HIDE DEF d, p
  <2>3. Parts(d) /\ Delayed(d, p)
    BY <1>2, <2>2, Zenon DEF Parts, Delayed
  <2> QED
    BY <1>2, <1>3, <2>1, <2>2, <2>3, OneBreaker
<1> QED
  BY <1>4, <1>5 DEF Replenish

(* The task refreshes every breaker. *)
LEMMA RefreshBreaker ==
  ASSUME BreakerInv, Refresh
  PROVE  BreakerStep
<1> DEFINE n(c) == IF cb'[c].degraded THEN past[c].refreshes + 1 ELSE 0
<1>1. ASSUME NEW c \in Clusters
      PROVE  /\ cb'[c] \in BreakerStates /\ past'[c] \in Pasts
             /\ Parts(cb'[c]) /\ Delayed(cb'[c], past'[c])
             /\ QuotaKept(ErrorAmountThreshold, cb'[c].errorQuota, past'[c].errors)
             /\ QuotaKept(SlowAmountThreshold, cb'[c].slowQuota, past'[c].slows)
             /\ cb'[c].degraded => c \in Breakers
             /\ Opens(c) /\ Closes(c)
  <2>1. cb[c] \in BreakerStates /\ past[c] \in Pasts
    BY DEF BreakerInv, BreakerShape
  <2>2. /\ Parts(cb[c]) /\ Delayed(cb[c], past[c])
        /\ QuotaKept(ErrorAmountThreshold, cb[c].errorQuota, past[c].errors)
        /\ QuotaKept(SlowAmountThreshold, cb[c].slowQuota, past[c].slows)
        /\ cb[c].degraded => c \in Breakers
    BY DEF BreakerInv
  <2>3. /\ past[c].refreshes = cb[c].delay /\ cb[c].delay <= DegradedTimeWindow
        /\ ~cb[c].degraded => cb[c].delay = 0
    BY <2>2 DEF Delayed
  <2>4. cb'[c] = IF c \in Breakers THEN refreshTimer(cb[c]) ELSE cb[c]
    BY DEF Refresh
  <2>5. past'[c] = [past[c] EXCEPT !.refreshes = n(c)]
    BY Zenon DEF Refresh
  <2>6. n(c) \in Nat
    BY <2>1 DEF Pasts
  <2> HIDE DEF n
  <2>7. /\ past'[c] \in Pasts /\ past'[c].refreshes = n(c)
        /\ past'[c].errors = past[c].errors /\ past'[c].slows = past[c].slows
    BY <2>1, <2>5, <2>6, Zenon DEF Pasts
  <2>8. CASE c \in Breakers
    <3> DEFINE d == refreshTimer(cb[c])
    <3>1. /\ d \in BreakerStates /\ Parts(d)
          /\ d.errorQuota = cb[c].errorQuota /\ d.slowQuota = cb[c].slowQuota
          /\ d.delay <= DegradedTimeWindow
          /\ d.degraded => cb[c].degraded /\ d.delay = cb[c].delay + 1
          /\ ~d.degraded => d.delay = 0
          /\ cb[c].degraded /\ ~d.degraded => cb[c].delay = DegradedTimeWindow
      BY <2>1, <2>2, <2>3, RefreshKeeps
    <3>2. cb'[c] = d
      BY <2>4, <2>8
    <3> HIDE DEF d
    <3>3. n(c) = d.delay
      BY <2>3, <3>1, <3>2 DEF n
    <3>4. Delayed(cb'[c], past'[c])
      BY <2>7, <3>1, <3>2, <3>3 DEF Delayed
    <3>5. Opens(c) /\ Closes(c)
      BY <2>3, <3>1, <3>2 DEF Opens, Closes
    <3> QED
      BY <2>2, <2>7, <2>8, <3>1, <3>2, <3>4, <3>5
  <2>9. CASE c \notin Breakers
    <3>1. cb'[c] = cb[c] /\ ~cb[c].degraded
      BY <2>2, <2>4, <2>9
    <3>2. n(c) = 0
      BY <3>1 DEF n
    <3>3. Delayed(cb'[c], past'[c])
      BY <2>3, <2>7, <3>1, <3>2, OutboundConstants DEF Delayed
    <3> QED
      BY <2>1, <2>2, <2>7, <3>1, <3>3 DEF Opens, Closes
  <2> QED
    BY <2>8, <2>9
<1>2. BreakerShape'
  <2>1. cb' = [c \in Clusters |-> cb'[c]] /\ past' = [c \in Clusters |-> past'[c]]
    BY Zenon DEF Refresh
  <2> QED
    BY <1>1, <2>1, Zenon DEF BreakerShape
<1> QED
  BY <1>1, <1>2, Zenon DEF BreakerStep, BreakerInv

(* Every step of the pipeline does right by the breakers. *)
LEMMA NextBreaker == BreakerInv /\ [Next]_vars => BreakerStep
<1> SUFFICES ASSUME BreakerInv, [Next]_vars PROVE BreakerStep
  OBVIOUS
<1>1. ASSUME NEW r \in Requests, Arrive(r) \/ Replay(r) \/ Retry(r) \/ FailOver(r)
      PROVE  BreakerStep
  BY <1>1, BreakersRest DEF Arrive, Replay, Retry, FailOver
<1>2. ASSUME NEW r \in Requests, Route(r) PROVE BreakerStep
  BY <1>2, RouteBreaker
<1>3. ASSUME NEW r \in Requests, Answer(r) PROVE BreakerStep
  BY <1>3, AnswerBreaker
<1>4. CASE Refresh
  BY <1>4, RefreshBreaker
<1>5. ASSUME NEW c \in Breakers, Replenish(c) PROVE BreakerStep
  BY <1>5, ReplenishBreaker
<1>6. CASE UNCHANGED vars
  BY <1>6, BreakersRest DEF vars
<1> QED
  BY <1>1, <1>2, <1>3, <1>4, <1>5, <1>6 DEF Next

(* The breakers' invariant holds in every reachable state. *)
LEMMA BreakersSound == Spec => []BreakerInv
<1>1. BreakerInv /\ [Next]_vars => BreakerInv'
  BY NextBreaker DEF BreakerStep
<1> QED
  BY <1>1, InitBreakerInv, PTL DEF Spec

(* A breaker opens for a cause (checkError, checkSlow), whatever the        *)
(* thresholds and windows are and however answers, refreshes and            *)
(* replenished quotas interleave.                                           *)
THEOREM BreakerOpensForCause == Spec => OpensForCause
<1> DEFINE Cause(c) ==
      ~cb[c].degraded /\ cb'[c].degraded =>
        LET b == cb'[c]
        IN /\ b.errorAmount \in 0 .. b.total /\ b.slowAmount \in 0 .. b.total
           /\ \/ ErrorAmountThreshold > 0 /\ past'[c].errors >= ErrorAmountThreshold
              \/ SlowAmountThreshold > 0 /\ past'[c].slows >= SlowAmountThreshold
              \/ /\ b.total >= MinRequestAmount
                 /\ \/ /\ ErrorRatioThreshold > 0
                       /\ b.errorAmount * 100 >= ErrorRatioThreshold * b.total
                    \/ /\ SlowRatioThreshold > 0
                       /\ b.slowAmount * 100 >= SlowRatioThreshold * b.total
<1>1. BreakerInv /\ [Next]_vars => \A c \in Clusters : Cause(c)
  <2> SUFFICES ASSUME BreakerInv, [Next]_vars, NEW c \in Clusters,
                      ~cb[c].degraded, cb'[c].degraded
               PROVE  Cause(c)
    OBVIOUS
  <2>1. BreakerStep
    BY NextBreaker
  <2>2. /\ cb'[c] \in BreakerStates /\ Parts(cb'[c])
        /\ ErrorCause(cb'[c], past'[c]) \/ SlowCause(cb'[c], past'[c])
    BY <2>1 DEF BreakerStep, Opens, BreakerInv, BreakerShape
  <2>3. cb'[c].errorAmount \in 0 .. cb'[c].total /\ cb'[c].slowAmount \in 0 .. cb'[c].total
    BY <2>2 DEF BreakerStates, Parts
  <2> QED
    BY <2>2, <2>3, Zenon DEF ErrorCause, SlowCause, Ratio
<1>2. BreakerInv /\ [Next]_vars => [\A c \in Clusters : Cause(c)]_vars
  BY <1>1
<1> QED
  BY <1>2, BreakersSound, PTL DEF Spec, OpensForCause

(* An open breaker closes after DegradedTimeWindow seconds, no sooner and   *)
(* no later (refreshTimer), for every window.                               *)
THEOREM BreakerClosesInTime == Spec => ClosesInTime
<1> DEFINE InTime(c) ==
      /\ cb[c].degraded /\ ~cb'[c].degraded => past[c].refreshes = DegradedTimeWindow
      /\ past'[c].refreshes <= DegradedTimeWindow
<1>1. BreakerInv /\ [Next]_vars => \A c \in Clusters : InTime(c)
  <2> SUFFICES ASSUME BreakerInv, [Next]_vars, NEW c \in Clusters PROVE InTime(c)
    OBVIOUS
  <2>1. BreakerStep
    BY NextBreaker
  <2>2. Delayed(cb'[c], past'[c]) /\ Closes(c)
    BY <2>1 DEF BreakerStep, BreakerInv
  <2> QED
    BY <2>2, Zenon DEF Delayed, Closes
<1>2. BreakerInv /\ [Next]_vars => [\A c \in Clusters : InTime(c)]_vars
  BY <1>1
<1> QED
  BY <1>2, BreakersSound, PTL DEF Spec, ClosesInTime
-----------------------------------------------------------------------------
Phases == {"idle", "route", "upstream", "call", "done"}
Targets == (UNION {DOMAIN Endpoints[c] : c \in Clusters}) \cup {None}
Contexts ==
  [phase : Phases, cluster : Clusters \cup {None}, failoverCluster : Clusters \cup {None},
   target : Targets, failoverObject : Targets, retryCount : Nat,
   path : Seq(WithPath), answer : Statuses, shed : BOOLEAN, passes : Nat, calls : Nat]

(* The second run of the chain has no stand-by cluster left; the routing    *)
(* is entered at first and once again.                                      *)
PassesInv(k) ==
  /\ k.phase = "idle" => k.passes = 0
  /\ k.phase \in {"idle", "route"} =>
       \/ k.passes = 0 /\ k.failoverCluster = None /\ k.cluster = None
       \/ k.passes = 1 /\ k.failoverCluster # None
  /\ k.phase \in {"upstream", "call", "done"} =>
       k.passes = 1 \/ (k.passes = 2 /\ k.failoverCluster = None)

SentBounded(k) == k.calls > 0 => k.cluster # None /\ k.calls <= CallsOfPass(k.cluster)

(* A call that waits has its retry counted, or its stand-by endpoint taken. *)
CallsInv(k) ==
  /\ SentBounded(k)
  /\ k.phase = "upstream" =>
       /\ k.target # None => k.cluster # None
       /\ needRetry(k.cluster) =>
            \/ k.calls <= 1
            \/ k.calls <= 1 + k.retryCount /\ k.retryCount <= NumRetries[k.cluster]
       /\ ~needRetry(k.cluster) /\ k.failoverObject # None => k.calls <= 1
  /\ k.phase = "call" =>
       /\ k.cluster # None
       /\ needRetry(k.cluster) =>
            k.calls <= k.retryCount /\ k.retryCount <= NumRetries[k.cluster]
       /\ ~needRetry(k.cluster) => k.calls <= 1 /\ k.failoverObject = None

RequestInv(k) == k \in Contexts /\ PassesInv(k) /\ CallsInv(k)
RequestsInv ==
  /\ ctx \in [Requests -> Contexts]
  /\ \A r \in Requests : PassesInv(ctx[r]) /\ CallsInv(ctx[r])

(* A step of one request: it is enough to look at its context. *)
LEMMA OneRequest ==
  ASSUME RequestsInv, NEW r \in Requests, NEW k, RequestInv(k),
         ctx' = [ctx EXCEPT ![r] = k]
  PROVE  RequestsInv'
  BY DEF RequestsInv, RequestInv

(* The balancers take one of the entries, or nothing. *)
LEMMA TakesEntry ==
  ASSUME NEW w, NEW x, x \in next(w) \/ x \in failover(w)
  PROVE  x \in DOMAIN w \cup {None}
  BY DEF next, failover

(* Without a cluster there is no endpoint to take. *)
LEMMA TakesEndpoint ==
  ASSUME NEW c \in Clusters \cup {None}, NEW e,
         e \in next(EndpointsOf(c)) \/ e \in failover(EndpointsOf(c))
  PROVE  e \in Targets /\ (e # None => c # None)
<1>1. e \in DOMAIN EndpointsOf(c) \cup {None}
  BY TakesEntry
<1>2. CASE c = None
  <2>1. EndpointsOf(c) = << >>
    BY <1>2 DEF EndpointsOf
  <2>2. DOMAIN << >> = {}
    OBVIOUS
  <2>3. e = None
    BY <1>1, <2>1, <2>2
  <2> QED
    BY <2>3 DEF Targets
<1>3. CASE c # None
  <2>1. EndpointsOf(c) = Endpoints[c] /\ c \in Clusters
    BY <1>3 DEF EndpointsOf
  <2> QED
    BY <1>1, <1>3, <2>1 DEF Targets
<1> QED
  BY <1>2, <1>3

(* A cluster allows two calls or more. *)
LEMMA CallsAllowed ==
  ASSUME NEW c \in Clusters
  PROVE  /\ CallsOfPass(c) \in Nat /\ CallsOfPass(c) >= 2
         /\ needRetry(c) => CallsOfPass(c) = 1 + NumRetries[c] /\ NumRetries[c] \in Nat
         /\ ~needRetry(c) => CallsOfPass(c) = 2
  BY OutboundConstants DEF CallsOfPass, needRetry

(* No request has been sent at first. *)
LEMMA InitRequestsInv == Init => RequestsInv
<1>1. Fresh \in Contexts
  <2>1. << >> \in Seq(WithPath) /\ 0 \in Nat
    OBVIOUS
  <2>2. None \in Targets /\ None \in Clusters \cup {None}
    BY Zenon DEF Targets
  <2>3. "idle" \in Phases /\ "none" \in Statuses /\ FALSE \in BOOLEAN
    BY DEF Phases, Statuses
  <2> QED
    BY <2>1, <2>2, <2>3, Zenon DEF Fresh, Contexts
<1>2. PassesInv(Fresh) /\ CallsInv(Fresh)
  BY DEF Fresh, PassesInv, CallsInv, SentBounded
<1> QED
  BY <1>1, <1>2 DEF Init, RequestsInv

(* The routing sees an answer to a request that has run the chain. *)
LEMMA ReturnedKeeps ==
  ASSUME NEW k \in Contexts, NEW status \in Statuses, NEW shed \in BOOLEAN,
         k.passes = 1 \/ (k.passes = 2 /\ k.failoverCluster = None), SentBounded(k)
  PROVE  RequestInv(Returned(k, status, shed))
<1> DEFINE d == Returned(k, status, shed)
<1>1. /\ d \in Contexts /\ d.phase \in {"route", "done"}
      /\ d.phase = "route" => k.failoverCluster # None
      /\ d.passes = k.passes /\ d.failoverCluster = k.failoverCluster
      /\ d.calls = k.calls /\ d.cluster = k.cluster
  BY Zenon DEF Returned, Contexts, Phases
<1> HIDE DEF d
<1>2. PassesInv(d)
  BY <1>1 DEF PassesInv
<1>3. CallsInv(d)
  BY <1>1 DEF CallsInv, SentBounded
<1> QED
  BY <1>1, <1>2, <1>3 DEF RequestInv, d

(* The load balancer sends a request that has not been sent in this run. *)
LEMMA BalancedKeeps ==
  ASSUME NEW k \in Contexts, NEW c \in Clusters \cup {None},
         k.passes = 1 \/ (k.passes = 2 /\ k.failoverCluster = None), k.calls = 0,
         c # None => k.cluster = c,
         NEW e \in next(EndpointsOf(c)), NEW f \in failover(EndpointsOf(c))
  PROVE  RequestInv(Balanced(k, c, e, f))
<1> DEFINE d == Balanced(k, c, e, f)
           fo == IF f # None THEN f ELSE k.failoverObject
           pa == IF e \in WithPath THEN <<e>> \o k.path ELSE k.path
           n == IF e # None THEN k.calls + 1 ELSE k.calls
<1>1. e \in Targets /\ f \in Targets /\ (e # None => c # None)
  BY TakesEndpoint
<1>2. fo \in Targets /\ n \in Nat /\ n <= 1 /\ (n > 0 => e # None)
  BY <1>1 DEF Contexts
<1>3. pa \in Seq(WithPath)
  BY DEF Contexts
<1>4. d = [k EXCEPT !.phase = "upstream", !.target = e, !.failoverObject = fo,
                    !.path = pa, !.calls = n]
  BY Zenon DEF Balanced
<1> HIDE DEF d, fo, pa, n
<1>5. /\ d \in Contexts /\ d.phase = "upstream" /\ d.target = e /\ d.calls = n
      /\ d.passes = k.passes /\ d.failoverCluster = k.failoverCluster
      /\ d.cluster = k.cluster
  BY <1>1, <1>2, <1>3, <1>4, Zenon DEF Contexts, Phases
<1>6. PassesInv(d)
  BY <1>5 DEF PassesInv
<1>7. e # None => d.cluster # None /\ d.cluster \in Clusters
  BY <1>1, <1>5
<1>8. SentBounded(d)
  BY <1>2, <1>5, <1>7, CallsAllowed DEF SentBounded
<1>9. CallsInv(d)
  BY <1>2, <1>5, <1>7, <1>8 DEF CallsInv
<1> QED
  BY <1>5, <1>6, <1>9 DEF RequestInv, d

(* The chain after the routing. *)
LEMMA ChainKeeps ==
  ASSUME RequestsInv, NEW r \in Requests, NEW k \in Contexts,
         NEW c \in Clusters \cup {None},
         k.passes = 1 \/ (k.passes = 2 /\ k.failoverCluster = None), k.calls = 0,
         c # None => k.cluster = c, Chain(r, k, c)
  PROVE  RequestsInv'
<1>1. CASE c \in Breakers /\ cb[c].degraded
  <2>1. ctx' = [ctx EXCEPT ![r] = Returned(k, DegradedStatusCode, TRUE)]
    BY <1>1 DEF Chain
  <2>2. RequestInv(Returned(k, DegradedStatusCode, TRUE))
    <3>1. SentBounded(k)
      BY DEF SentBounded
    <3>2. DegradedStatusCode \in Statuses
      BY OutboundConstants
    <3> QED
      BY <3>1, <3>2, ReturnedKeeps
  <2> QED
    BY <2>1, <2>2, OneRequest
<1>2. CASE ~(c \in Breakers /\ cb[c].degraded)
  <2>1. PICK e \in next(EndpointsOf(c)), f \in failover(EndpointsOf(c)) :
          ctx' = [ctx EXCEPT ![r] = Balanced(k, c, e, f)]
    BY <1>2 DEF Chain
  <2>2. RequestInv(Balanced(k, c, e, f))
    BY BalancedKeeps
  <2> QED
    BY <2>1, <2>2, OneRequest
<1> QED
  BY <1>1, <1>2

(* The routing runs the chain for the first time, or for a stand-by cluster. *)
LEMMA RouteKeeps ==
  ASSUME RequestsInv, NEW r \in Requests, Route(r)
  PROVE  RequestsInv'
<1> DEFINE k == Restarted(ctx[r])
<1>1. ctx[r] \in Contexts /\ PassesInv(ctx[r]) /\ ctx[r].phase = "route"
  BY DEF RequestsInv, Route
<1>2. /\ k \in Contexts /\ k.calls = 0 /\ k.passes = ctx[r].passes + 1
      /\ k.cluster = ctx[r].cluster /\ k.failoverCluster = ctx[r].failoverCluster
  <2>1. << >> \in Seq(WithPath) /\ 0 \in Nat /\ ctx[r].passes + 1 \in Nat
    BY <1>1 DEF Contexts
  <2> QED
    BY <1>1, <2>1, Zenon DEF Restarted, Contexts
<1>3. \/ k.passes = 1 /\ k.failoverCluster = None
      \/ k.passes = 2 /\ k.failoverCluster # None
  BY <1>1, <1>2 DEF PassesInv
<1>4. \/ /\ k.failoverCluster = None
         /\ \E c \in next(TargetClusters), fo \in failover(TargetClusters) :
              Chain(r, [k EXCEPT !.cluster = c, !.failoverCluster = fo], c)
      \/ /\ k.failoverCluster = None
         /\ Chain(r, k, None)
      \/ /\ k.failoverCluster # None
         /\ Chain(r, [k EXCEPT !.cluster = k.failoverCluster,
                              !.failoverCluster = None], k.failoverCluster)
  BY Zenon DEF Route
<1> HIDE DEF k
<1>5. ASSUME k.failoverCluster = None, NEW c \in next(TargetClusters),
             NEW fo \in failover(TargetClusters),
             Chain(r, [k EXCEPT !.cluster = c, !.failoverCluster = fo], c)
      PROVE  RequestsInv'
  <2> DEFINE d == [k EXCEPT !.cluster = c, !.failoverCluster = fo]
  <2>1. c \in Clusters \cup {None} /\ fo \in Clusters \cup {None}
    BY TakesEntry, OutboundConstants
  <2>2. d \in Contexts /\ d.passes = k.passes /\ d.calls = k.calls /\ d.cluster = c
    BY <1>2, <2>1, Zenon DEF Contexts
  <2>3. d.passes = 1 /\ d.calls = 0 /\ Chain(r, d, c)
    BY <1>2, <1>3, <1>5, <2>2
  <2> HIDE DEF d
  <2> QED
    BY <2>1, <2>2, <2>3, ChainKeeps
<1>6. CASE k.failoverCluster = None /\ Chain(r, k, None)
  BY <1>2, <1>3, <1>6, ChainKeeps
<1>7. ASSUME k.failoverCluster # None,
             Chain(r, [k EXCEPT !.cluster = k.failoverCluster,
                               !.failoverCluster = None], k.failoverCluster)
      PROVE  RequestsInv'
  <2> DEFINE c == k.failoverCluster
             d == [k EXCEPT !.cluster = c, !.failoverCluster = None]
  <2>1. c \in Clusters \cup {None} /\ None \in Clusters \cup {None}
    BY <1>2 DEF Contexts
  <2>2. /\ d \in Contexts /\ d.passes = k.passes /\ d.calls = k.calls /\ d.cluster = c
        /\ d.failoverCluster = None
    BY <1>2, <2>1, Zenon DEF Contexts
  <2>3. d.passes = 2 /\ d.calls = 0 /\ Chain(r, d, c)
    BY <1>2, <1>3, <1>7, <2>2
  <2> HIDE DEF d
  <2> QED
    BY <2>1, <2>2, <2>3, ChainKeeps
<1> QED
  BY <1>4, <1>5, <1>6, <1>7

(* A waiting call is made. *)
LEMMA ReplayKeeps ==
  ASSUME RequestsInv, NEW r \in Requests, Replay(r)
  PROVE  RequestsInv'
<1> DEFINE k == ctx[r]
           d == [k EXCEPT !.phase = "upstream", !.calls = k.calls + 1]
<1>1. k \in Contexts /\ PassesInv(k) /\ CallsInv(k) /\ k.phase = "call"
  BY DEF RequestsInv, Replay
<1>2. ctx' = [ctx EXCEPT ![r] = d]
  BY <1>1 DEF Replay, RequestsInv, Contexts
<1> HIDE DEF k
<1>3. k.calls + 1 \in Nat /\ k.calls \in Nat /\ k.retryCount \in Nat
  BY <1>1 DEF Contexts
<1>4. /\ d \in Contexts /\ d.phase = "upstream" /\ d.calls = k.calls + 1
      /\ d.passes = k.passes /\ d.failoverCluster = k.failoverCluster
      /\ d.cluster = k.cluster /\ d.retryCount = k.retryCount
      /\ d.failoverObject = k.failoverObject
  BY <1>1, <1>3, Zenon DEF Contexts, Phases
<1> HIDE DEF d
<1>5. PassesInv(d)
  BY <1>1, <1>4 DEF PassesInv
<1>6. /\ k.cluster \in Clusters
      /\ needRetry(k.cluster) =>
           k.calls <= k.retryCount /\ k.retryCount <= NumRetries[k.cluster]
      /\ ~needRetry(k.cluster) => k.calls <= 1 /\ k.failoverObject = None
  BY <1>1 DEF CallsInv, Contexts
<1>7. SentBounded(d)
  BY <1>3, <1>4, <1>6, CallsAllowed, OutboundConstants DEF SentBounded
<1>8. CallsInv(d)
  BY <1>3, <1>4, <1>6, <1>7, CallsAllowed, OutboundConstants DEF CallsInv
<1> QED
  BY <1>2, <1>4, <1>5, <1>8, OneRequest DEF RequestInv

(* A retry is counted before the call. *)
LEMMA RetryKeeps ==
  ASSUME RequestsInv, NEW r \in Requests, Retry(r)
  PROVE  RequestsInv'
<1> DEFINE k == ctx[r]
           d == [k EXCEPT !.phase = "call", !.retryCount = k.retryCount + 1]
<1>1. k \in Contexts /\ PassesInv(k) /\ CallsInv(k) /\ k.phase = "upstream"
  BY DEF RequestsInv, Retry
<1>2. needRetry(k.cluster) /\ k.retryCount < NumRetries[k.cluster]
  BY DEF Retry, shouldRetry
<1>3. ctx' = [ctx EXCEPT ![r] = d]
  BY <1>1 DEF Retry, RequestsInv, Contexts
<1> HIDE DEF k
<1>4. k.retryCount + 1 \in Nat /\ k.calls \in Nat /\ k.retryCount \in Nat
  BY <1>1 DEF Contexts
<1>5. /\ d \in Contexts /\ d.phase = "call" /\ d.retryCount = k.retryCount + 1
      /\ d.passes = k.passes /\ d.failoverCluster = k.failoverCluster
      /\ d.cluster = k.cluster /\ d.calls = k.calls
  BY <1>1, <1>4, Zenon DEF Contexts, Phases
<1> HIDE DEF d
<1>6. PassesInv(d)
  BY <1>1, <1>5 DEF PassesInv
<1>7. /\ k.cluster # None /\ k.cluster \in Clusters
      /\ k.calls <= 1 \/ k.calls <= 1 + k.retryCount
      /\ SentBounded(k)
  BY <1>1, <1>2 DEF CallsInv, needRetry, Contexts
<1>8. NumRetries[k.cluster] \in Nat
  BY <1>7, OutboundConstants
<1>9. d.calls <= d.retryCount /\ d.retryCount <= NumRetries[k.cluster]
  BY <1>2, <1>4, <1>5, <1>7, <1>8
<1>10. SentBounded(d)
  BY <1>5, <1>7 DEF SentBounded
<1>11. CallsInv(d)
  BY <1>2, <1>5, <1>7, <1>9, <1>10 DEF CallsInv
<1> QED
  BY <1>3, <1>5, <1>6, <1>11, OneRequest DEF RequestInv

(* The stand-by endpoint is taken once. *)
LEMMA FailOverKeeps ==
  ASSUME RequestsInv, NEW r \in Requests, FailOver(r)
  PROVE  RequestsInv'
<1> DEFINE k == ctx[r]
           d == [k EXCEPT !.phase = "call", !.target = k.failoverObject,
                          !.failoverObject = None]
<1>1. k \in Contexts /\ PassesInv(k) /\ CallsInv(k) /\ k.phase = "upstream"
  BY DEF RequestsInv, FailOver
<1>2. ~needRetry(k.cluster) /\ k.failoverObject # None /\ k.target # None
  BY DEF FailOver, shouldFailOver, Answers, Bad
<1>3. ctx' = [ctx EXCEPT ![r] = d]
  BY <1>1 DEF FailOver, RequestsInv, Contexts
<1> HIDE DEF k
<1>4. k.failoverObject \in Targets /\ None \in Targets
  BY <1>1, Zenon DEF Contexts, Targets
<1>5. /\ d \in Contexts /\ d.phase = "call" /\ d.failoverObject = None
      /\ d.passes = k.passes /\ d.failoverCluster = k.failoverCluster
      /\ d.cluster = k.cluster /\ d.calls = k.calls
  BY <1>1, <1>4, Zenon DEF Contexts, Phases
<1> HIDE DEF d
<1>6. PassesInv(d)
  BY <1>1, <1>5 DEF PassesInv
<1>7. k.cluster # None /\ k.calls <= 1 /\ SentBounded(k)
  BY <1>1, <1>2 DEF CallsInv
<1>8. SentBounded(d)
  BY <1>5, <1>7 DEF SentBounded
<1>9. CallsInv(d)
  BY <1>2, <1>5, <1>7, <1>8 DEF CallsInv
<1> QED
  BY <1>3, <1>5, <1>6, <1>9, OneRequest DEF RequestInv

(* A request arrives, or its answer does. *)
LEMMA ArriveKeeps ==
  ASSUME RequestsInv, NEW r \in Requests, Arrive(r)
  PROVE  RequestsInv'
<1> DEFINE k == ctx[r]
           d == [k EXCEPT !.phase = "route"]
<1>1. k \in Contexts /\ PassesInv(k) /\ CallsInv(k) /\ k.phase = "idle"
  BY DEF RequestsInv, Arrive
<1>2. ctx' = [ctx EXCEPT ![r] = d]
  BY <1>1 DEF Arrive, RequestsInv, Contexts
<1> HIDE DEF k
<1>3. /\ d \in Contexts /\ d.phase = "route"
      /\ d.passes = k.passes /\ d.failoverCluster = k.failoverCluster
      /\ d.cluster = k.cluster /\ d.calls = k.calls
  BY <1>1, Zenon DEF Contexts, Phases
<1> HIDE DEF d
<1>4. PassesInv(d)
  BY <1>1, <1>3 DEF PassesInv
<1>5. CallsInv(d)
  BY <1>1, <1>3 DEF CallsInv, SentBounded
<1> QED
  BY <1>2, <1>3, <1>4, <1>5, OneRequest DEF RequestInv

(* An answer that is not retried ends this run of the chain. *)
LEMMA AnswerKeeps ==
  ASSUME RequestsInv, NEW r \in Requests, Answer(r)
  PROVE  RequestsInv'
<1>1. PICK status \in Answers(ctx[r]) : ctx' = [ctx EXCEPT ![r] = Returned(ctx[r], status, FALSE)]
  BY DEF Answer
<1>2. status \in Statuses
  BY DEF Answers, Statuses
<1>3. /\ ctx[r] \in Contexts /\ SentBounded(ctx[r])
      /\ ctx[r].passes = 1 \/ (ctx[r].passes = 2 /\ ctx[r].failoverCluster = None)
  BY DEF RequestsInv, Answer, PassesInv, CallsInv
<1>4. RequestInv(Returned(ctx[r], status, FALSE))
  BY <1>2, <1>3, ReturnedKeeps
<1> QED
  BY <1>1, <1>4, OneRequest

(* The requests' invariant holds in every reachable state. *)
LEMMA RequestsSound == Spec => []RequestsInv
<1>1. RequestsInv /\ [Next]_vars => RequestsInv'
  <2> SUFFICES ASSUME RequestsInv, [Next]_vars PROVE RequestsInv'
    OBVIOUS
  <2>1. ASSUME NEW r \in Requests,
               Arrive(r) \/ Route(r) \/ Replay(r) \/ Retry(r) \/ FailOver(r) \/ Answer(r)
        PROVE  RequestsInv'
    BY <2>1, ArriveKeeps, RouteKeeps, ReplayKeeps, RetryKeeps, FailOverKeeps, AnswerKeeps
  <2>2. CASE UNCHANGED ctx
    BY <2>2 DEF RequestsInv
  <2> QED
    BY <2>1, <2>2 DEF Next, Refresh, Replenish, vars
<1> QED
  BY <1>1, InitRequestsInv, PTL DEF Spec

(* A request is sent upstream a bounded number of times (shouldRetry and    *)
(* the replays of the two pipelines), for any clusters, weights and retry   *)
(* policies: at most two runs of the chain, each with the calls of its      *)
(* cluster.                                                                 *)
THEOREM SendingIsBounded == Spec => []CallsAreBounded
<1>1. RequestsInv => CallsAreBounded
  <2> SUFFICES ASSUME RequestsInv, NEW r \in Requests
               PROVE  ctx[r].passes <= 2 /\ SentBounded(ctx[r])
    BY DEF CallsAreBounded, SentBounded
  <2>1. ctx[r] \in Contexts /\ PassesInv(ctx[r]) /\ CallsInv(ctx[r])
    BY DEF RequestsInv
  <2>2. ctx[r].phase \in Phases
    BY <2>1 DEF Contexts
  <2> QED
    BY <2>1, <2>2 DEF PassesInv, CallsInv, Phases
<1> QED
  BY <1>1, RequestsSound, PTL
-----------------------------------------------------------------------------
(* What is in front of the path: nothing, or the Path of an endpoint of the *)
(* cluster that the request was last sent to.                               *)
PathInv(k) ==
  k.path # << >> =>
    /\ Len(k.path) = 1
    /\ k.phase = "route" \/ (k.cluster # None /\ k.path[1] \in DOMAIN Endpoints[k.cluster])

(* What is left to try while an endpoint is called: without a stand-by      *)
(* cluster the chain has run for it or the route has none; without a        *)
(* stand-by endpoint it has been called or the cluster has none.            *)
UntriedInv(k) ==
  /\ k.phase \in {"upstream", "call"} /\ k.target # None =>
       /\ k.failoverCluster = None => k.passes = 2 \/ failover(TargetClusters) = {None}
       /\ k.calls >= 1
  /\ k.phase = "upstream" /\ k.target # None /\ k.failoverObject = None
       /\ ~needRetry(k.cluster) /\ failover(EndpointsOf(k.cluster)) # {None} => k.calls >= 2

(* Nothing is left to try after a bad answer of an upstream. *)
Exhausted(k, status) ==
  /\ k.cluster # None
  /\ failover(TargetClusters) # {None} => k.passes = 2
  /\ needRetry(k.cluster) /\ status = "5xx" => k.retryCount >= NumRetries[k.cluster]
  /\ ~needRetry(k.cluster) /\ failover(EndpointsOf(k.cluster)) # {None} => k.calls = 2

LastResort(k) ==
  k.phase = "done" /\ Bad(k.answer) /\ ~k.shed => Exhausted(k, k.answer)

ResortInv(k) == PathInv(k) /\ UntriedInv(k) /\ LastResort(k)
ResortsInv == \A r \in Requests : ResortInv(ctx[r])

(* A step of one request: it is enough to look at its context. *)
LEMMA OneResort ==
  ASSUME RequestsInv, ResortsInv, NEW r \in Requests, NEW k, ResortInv(k),
         ctx' = [ctx EXCEPT ![r] = k]
  PROVE  ResortsInv'
  BY DEF RequestsInv, ResortsInv

(* A balancer takes nothing only if there is nothing to take. *)
LEMMA TakesSome ==
  ASSUME NEW w, None \notin DOMAIN w, None \in failover(w)
  PROVE  failover(w) = {None}
  BY DEF failover

(* The routing sees an answer: it tries again, or nothing is left. *)
LEMMA ReturnedResorts ==
  ASSUME NEW k \in Contexts, NEW status \in Statuses, NEW shed \in BOOLEAN,
         PathInv(k), k.phase = "route" => k.path = << >>,
         k.failoverCluster = None /\ Bad(status) /\ ~shed => Exhausted(k, status)
  PROVE  ResortInv(Returned(k, status, shed))
<1> DEFINE d == Returned(k, status, shed)
<1>1. /\ d.path = k.path /\ d.cluster = k.cluster /\ d.passes = k.passes
      /\ d.retryCount = k.retryCount /\ d.calls = k.calls
      /\ d.phase \in {"route", "done"}
      /\ d.phase = "done" => /\ d.answer = status /\ d.shed = shed
                             /\ k.failoverCluster = None \/ ~Bad(status)
  BY Zenon DEF Returned, Contexts
<1> HIDE DEF d
<1>2. PathInv(d)
  BY <1>1 DEF PathInv
<1>3. UntriedInv(d)
  BY <1>1 DEF UntriedInv
<1>4. LastResort(d)
  BY <1>1, Zenon DEF LastResort, Exhausted
<1> QED
  BY <1>2, <1>3, <1>4 DEF ResortInv, d

(* The load balancer sends a request that has not been sent in this run. *)
LEMMA BalancedResorts ==
  ASSUME NEW k \in Contexts, NEW c \in Clusters \cup {None},
         k.path = << >>, k.calls = 0, c # None => k.cluster = c,
         c # None /\ k.failoverCluster = None =>
           k.passes = 2 \/ failover(TargetClusters) = {None},
         NEW e \in next(EndpointsOf(c)), NEW f \in failover(EndpointsOf(c))
  PROVE  ResortInv(Balanced(k, c, e, f))
<1> DEFINE d == Balanced(k, c, e, f)
           fo == IF f # None THEN f ELSE k.failoverObject
           pa == IF e \in WithPath THEN <<e>> \o k.path ELSE k.path
           n == IF e # None THEN k.calls + 1 ELSE k.calls
<1>1. e # None => c \in Clusters /\ k.cluster = c /\ e \in DOMAIN Endpoints[c]
  BY TakesEntry, TakesEndpoint DEF EndpointsOf
<1>2. /\ pa # << >> => e \in WithPath
      /\ e \in WithPath => e # None /\ Len(pa) = 1 /\ pa[1] = e
  BY OutboundConstants
<1>3. e # None => n = 1
  OBVIOUS
<1>4. e # None /\ failover(EndpointsOf(c)) # {None} => fo # None
  <2> SUFFICES ASSUME e # None, failover(EndpointsOf(c)) # {None} PROVE f # None
    OBVIOUS
  <2>1. c # None /\ None \notin DOMAIN EndpointsOf(c)
    BY <1>1, OutboundConstants DEF EndpointsOf
  <2> QED
    BY <2>1, TakesSome
<1>5. d = [k EXCEPT !.phase = "upstream", !.target = e, !.failoverObject = fo,
                    !.path = pa, !.calls = n]
  BY Zenon DEF Balanced
<1> HIDE DEF d, fo, pa, n
<1>6. /\ d.phase = "upstream" /\ d.target = e /\ d.failoverObject = fo /\ d.path = pa
      /\ d.calls = n /\ d.passes = k.passes /\ d.failoverCluster = k.failoverCluster
      /\ d.cluster = k.cluster
  BY <1>5, Zenon DEF Contexts
<1>7. PathInv(d)
  BY <1>1, <1>2, <1>6, OutboundConstants DEF PathInv
<1>8. UntriedInv(d)
  BY <1>1, <1>3, <1>4, <1>6, OutboundConstants DEF UntriedInv
<1>9. LastResort(d)
  BY <1>6 DEF LastResort
<1> QED
  BY <1>7, <1>8, <1>9 DEF ResortInv, d

(* The chain after the routing. *)
LEMMA ChainResorts ==
  ASSUME RequestsInv, ResortsInv, NEW r \in Requests, NEW k \in Contexts,
         NEW c \in Clusters \cup {None},
         k.path = << >>, k.calls = 0, c # None => k.cluster = c,
         c # None /\ k.failoverCluster = None =>
           k.passes = 2 \/ failover(TargetClusters) = {None},
         Chain(r, k, c)
  PROVE  ResortsInv'
<1>1. CASE c \in Breakers /\ cb[c].degraded
  <2>1. ctx' = [ctx EXCEPT ![r] = Returned(k, DegradedStatusCode, TRUE)]
    BY <1>1 DEF Chain
  <2>2. ResortInv(Returned(k, DegradedStatusCode, TRUE))
    <3>1. PathInv(k) /\ DegradedStatusCode \in Statuses
      BY OutboundConstants DEF PathInv
    <3> QED
      BY <3>1, ReturnedResorts
  <2> QED
    BY <2>1, <2>2, OneResort
<1>2. CASE ~(c \in Breakers /\ cb[c].degraded)
  <2>1. PICK e \in next(EndpointsOf(c)), f \in failover(EndpointsOf(c)) :
          ctx' = [ctx EXCEPT ![r] = Balanced(k, c, e, f)]
    BY <1>2, Zenon DEF Chain
  <2>2. ResortInv(Balanced(k, c, e, f))
    BY BalancedResorts
  <2> QED
    BY <2>1, <2>2, OneResort
<1> QED
  BY <1>1, <1>2

(* The routing runs the chain for the first time, or for a stand-by cluster. *)
LEMMA RouteResorts ==
  ASSUME RequestsInv, ResortsInv, NEW r \in Requests, Route(r)
  PROVE  ResortsInv'
<1> DEFINE k == Restarted(ctx[r])
<1>1. ctx[r] \in Contexts /\ PassesInv(ctx[r]) /\ ctx[r].phase = "route"
  BY DEF RequestsInv, Route
<1>2. /\ k \in Contexts /\ k.calls = 0 /\ k.path = << >> /\ k.passes = ctx[r].passes + 1
      /\ k.cluster = ctx[r].cluster /\ k.failoverCluster = ctx[r].failoverCluster
  <2>1. << >> \in Seq(WithPath) /\ 0 \in Nat /\ ctx[r].passes + 1 \in Nat
    BY <1>1 DEF Contexts
  <2> QED
    BY <1>1, <2>1, Zenon DEF Restarted, Contexts
<1>3. k.failoverCluster # None => k.passes = 2
  BY <1>1, <1>2 DEF PassesInv
<1>4. \/ /\ k.failoverCluster = None
         /\ \E c \in next(TargetClusters), fo \in failover(TargetClusters) :
              Chain(r, [k EXCEPT !.cluster = c, !.failoverCluster = fo], c)
      \/ /\ k.failoverCluster = None
         /\ Chain(r, k, None)
      \/ /\ k.failoverCluster # None
         /\ Chain(r, [k EXCEPT !.cluster = k.failoverCluster,
                              !.failoverCluster = None], k.failoverCluster)
  BY Zenon DEF Route
<1> HIDE DEF k
<1>5. ASSUME NEW c \in next(TargetClusters), NEW fo \in failover(TargetClusters),
             Chain(r, [k EXCEPT !.cluster = c, !.failoverCluster = fo], c)
      PROVE  ResortsInv'
  <2> DEFINE d == [k EXCEPT !.cluster = c, !.failoverCluster = fo]
  <2>1. c \in Clusters \cup {None} /\ fo \in Clusters \cup {None}
    BY TakesEntry, OutboundConstants
  <2>2. /\ d \in Contexts /\ d.path = << >> /\ d.calls = 0 /\ d.cluster = c
        /\ d.failoverCluster = fo
    BY <1>2, <2>1, Zenon DEF Contexts
  <2>3. fo = None => failover(TargetClusters) = {None}
    BY TakesSome, OutboundConstants
  <2>4. Chain(r, d, c)
    BY <1>5
  <2> HIDE DEF d
  <2> QED
    BY <2>1, <2>2, <2>3, <2>4, ChainResorts
<1>6. CASE Chain(r, k, None)
  BY <1>2, <1>6, ChainResorts
<1>7. ASSUME k.failoverCluster # None,
             Chain(r, [k EXCEPT !.cluster = k.failoverCluster,
                               !.failoverCluster = None], k.failoverCluster)
      PROVE  ResortsInv'
  <2> DEFINE c == k.failoverCluster
             d == [k EXCEPT !.cluster = c, !.failoverCluster = None]
  <2>1. c \in Clusters \cup {None} /\ None \in Clusters \cup {None}
    BY <1>2 DEF Contexts
  <2>2. /\ d \in Contexts /\ d.path = << >> /\ d.calls = 0 /\ d.cluster = c
        /\ d.passes = k.passes
    BY <1>2, <2>1, Zenon DEF Contexts
  <2>3. d.passes = 2 /\ Chain(r, d, c)
    BY <1>3, <1>7, <2>2
  <2> HIDE DEF d
  <2> QED
    BY <2>1, <2>2, <2>3, ChainResorts
<1> QED
  BY <1>4, <1>5, <1>6, <1>7

(* A waiting call is made, or becomes one: the retry, the stand-by endpoint. *)
LEMMA CallResorts ==
  ASSUME RequestsInv, ResortsInv, NEW r \in Requests,
         Arrive(r) \/ Replay(r) \/ Retry(r) \/ FailOver(r)
  PROVE  ResortsInv'
<1> DEFINE k == ctx[r]
<1>1. k \in Contexts /\ ResortInv(k) /\ ctx \in [Requests -> Contexts]
  BY DEF RequestsInv, ResortsInv
<1>2. k.calls \in Nat /\ k.retryCount \in Nat
  BY <1>1 DEF Contexts
<1>3. CASE Arrive(r)
  <2> DEFINE d == [k EXCEPT !.phase = "route"]
  <2>1. ctx' = [ctx EXCEPT ![r] = d]
    BY <1>1, <1>3 DEF Arrive, Contexts
  <2>2. d.phase = "route" /\ d.path = k.path
    BY <1>1, Zenon DEF Contexts
  <2> HIDE DEF d
  <2>3. ResortInv(d)
    BY <1>1, <2>2, SMTT(30) DEF ResortInv, PathInv, UntriedInv, LastResort
  <2> QED
    BY <2>1, <2>3, OneResort
<1>4. CASE Replay(r)
  <2> DEFINE d == [k EXCEPT !.phase = "upstream", !.calls = k.calls + 1]
  <2>1. ctx' = [ctx EXCEPT ![r] = d] /\ k.phase = "call"
    BY <1>1, <1>4 DEF Replay, Contexts
  <2>2. /\ d.phase = "upstream" /\ d.path = k.path /\ d.calls = k.calls + 1
        /\ d.cluster = k.cluster /\ d.target = k.target /\ d.passes = k.passes
        /\ d.failoverCluster = k.failoverCluster
    BY <1>1, Zenon DEF Contexts
  <2> HIDE DEF d, k
  <2>3. ResortInv(d)
    BY <1>1, <1>2, <2>1, <2>2, SMTT(30) DEF ResortInv, PathInv, UntriedInv, LastResort
  <2> QED
    BY <2>1, <2>3, OneResort DEF k
<1>5. CASE Retry(r)
  <2> DEFINE d == [k EXCEPT !.phase = "call", !.retryCount = k.retryCount + 1]
  <2>1. ctx' = [ctx EXCEPT ![r] = d] /\ k.phase = "upstream"
    BY <1>1, <1>5 DEF Retry, Contexts
  <2>2. /\ d.phase = "call" /\ d.path = k.path /\ d.calls = k.calls
        /\ d.cluster = k.cluster /\ d.target = k.target /\ d.passes = k.passes
        /\ d.failoverCluster = k.failoverCluster
    BY <1>1, Zenon DEF Contexts
  <2> HIDE DEF d, k
  <2>3. ResortInv(d)
    BY <1>1, <2>1, <2>2, SMTT(30) DEF ResortInv, PathInv, UntriedInv, LastResort
  <2> QED
    BY <2>1, <2>3, OneResort DEF k
<1>6. CASE FailOver(r)
  <2> DEFINE d == [k EXCEPT !.phase = "call", !.target = k.failoverObject,
                            !.failoverObject = None]
  <2>1. ctx' = [ctx EXCEPT ![r] = d] /\ k.phase = "upstream"
    BY <1>1, <1>6 DEF FailOver, Contexts
  <2>2. k.target # None
    BY <1>6 DEF FailOver, shouldFailOver, Answers, Bad
  <2>3. /\ d.phase = "call" /\ d.path = k.path /\ d.calls = k.calls
        /\ d.cluster = k.cluster /\ d.passes = k.passes
        /\ d.failoverCluster = k.failoverCluster
    BY <1>1, Zenon DEF Contexts
  <2> HIDE DEF d, k
  <2>4. ResortInv(d)
    BY <1>1, <2>1, <2>2, <2>3, SMTT(30) DEF ResortInv, PathInv, UntriedInv, LastResort
  <2> QED
    BY <2>1, <2>4, OneResort DEF k
<1> QED
  BY <1>3, <1>4, <1>5, <1>6

(* An answer that is not replayed here has no endpoint left to try. *)
LEMMA AnswerResorts ==
  ASSUME RequestsInv, ResortsInv, NEW r \in Requests, Answer(r)
  PROVE  ResortsInv'
<1> DEFINE k == ctx[r]
<1>1. PICK status \in Answers(k) :
        /\ ~shouldRetry(k, status) /\ ~shouldFailOver(k, status)
        /\ ctx' = [ctx EXCEPT ![r] = Returned(k, status, FALSE)]
  BY DEF Answer
<1>2. status \in Statuses /\ (Bad(status) => k.target # None)
  BY DEF Answers, Statuses, Bad
<1>3. /\ k \in Contexts /\ CallsInv(k) /\ PathInv(k) /\ UntriedInv(k)
      /\ k.phase = "upstream"
  BY DEF RequestsInv, ResortsInv, ResortInv, Answer
<1> HIDE DEF k
<1>4. ASSUME k.failoverCluster = None, Bad(status) PROVE Exhausted(k, status)
  <2>1. k.cluster # None /\ k.cluster \in Clusters
    BY <1>2, <1>3, <1>4 DEF CallsInv, Contexts
  <2>2. failover(TargetClusters) # {None} => k.passes = 2
    BY <1>2, <1>3, <1>4 DEF UntriedInv
  <2>3. needRetry(k.cluster) /\ status = "5xx" => k.retryCount >= NumRetries[k.cluster]
    BY <1>1, <1>3, <2>1, OutboundConstants, SMTT(30) DEF shouldRetry, retryStatusCodes, Contexts
  <2>4. ASSUME ~needRetry(k.cluster), failover(EndpointsOf(k.cluster)) # {None}
        PROVE  k.calls = 2
    <3>1. k.failoverObject = None
      BY <1>1, <1>4, <2>4, SMTT(30) DEF shouldFailOver
    <3>2. k.calls \in Nat /\ k.calls >= 2
      BY <1>2, <1>3, <1>4, <2>4, <3>1 DEF UntriedInv, Contexts
    <3>3. k.calls <= 2
      BY <1>3, <2>1, <2>4, <3>2, CallsAllowed DEF CallsInv, SentBounded
    <3> QED
      BY <3>2, <3>3
  <2> QED
    BY <2>1, <2>2, <2>3, <2>4 DEF Exhausted
<1>5. ResortInv(Returned(k, status, FALSE))
  BY <1>2, <1>3, <1>4, ReturnedResorts
<1> QED
  BY <1>1, <1>5, OneResort DEF k

(* Every step leaves the requests as the two invariants say. *)
LEMMA ResortsSound == Spec => []ResortsInv
<1>1. Init => ResortsInv
  <2>1. Fresh.phase = "idle" /\ Fresh.path = << >>
    BY DEF Fresh
  <2>2. ResortInv(Fresh)
    BY <2>1 DEF ResortInv, PathInv, UntriedInv, LastResort
  <2> QED
    BY <2>2 DEF Init, ResortsInv
<1>2. RequestsInv /\ ResortsInv /\ [Next]_vars => ResortsInv'
  <2> SUFFICES ASSUME RequestsInv, ResortsInv, [Next]_vars PROVE ResortsInv'
    OBVIOUS
  <2>1. ASSUME NEW r \in Requests,
               Arrive(r) \/ Route(r) \/ Replay(r) \/ Retry(r) \/ FailOver(r) \/ Answer(r)
        PROVE  ResortsInv'
    BY <2>1, RouteResorts, CallResorts, AnswerResorts
  <2>2. CASE UNCHANGED ctx
    BY <2>2 DEF ResortsInv
  <2> QED
    BY <2>1, <2>2 DEF Next, Refresh, Replenish, vars
<1> QED
  BY <1>1, <1>2, RequestsSound, PTL DEF Spec

(* However often a request is sent, for any route and any endpoints: what   *)
(* is in front of its path is one Path, of an endpoint of the cluster it is *)
(* sent to (_origPath of outbound-http-routing.js).                         *)
THEOREM PathsNeverPileUp == Spec => []PathsDoNotPileUp
<1>1. ResortsInv => PathsDoNotPileUp
  BY DEF ResortsInv, ResortInv, PathInv, PathsDoNotPileUp
<1> QED
  BY <1>1, ResortsSound, PTL

(* A caller gets an upstream's bad answer only when nothing is left to try, *)
(* for any route, endpoints and retry policies: the stand-by cluster, the   *)
(* retries, the stand-by endpoint (the replays of the two pipelines).       *)
THEOREM BadAnswersAreLast == Spec => []BadAnswerIsTheLastResort
<1>1. ResortsInv => BadAnswerIsTheLastResort
  <2> SUFFICES ASSUME ResortsInv, NEW r \in Requests, ctx[r].phase = "done",
                      Bad(ctx[r].answer), ~ctx[r].shed
               PROVE  LET k == ctx[r]
                      IN /\ failover(TargetClusters) # {None} => k.passes = 2
                         /\ needRetry(k.cluster) /\ k.answer = "5xx" =>
                              k.retryCount >= NumRetries[k.cluster]
                         /\ ~needRetry(k.cluster)
                               /\ failover(Endpoints[k.cluster]) # {None} => k.calls = 2
    BY DEF BadAnswerIsTheLastResort
  <2>1. Exhausted(ctx[r], ctx[r].answer)
    BY DEF ResortsInv, ResortInv, LastResort
  <2> QED
    BY <2>1 DEF Exhausted, EndpointsOf
<1> QED
  BY <1>1, ResortsSound, PTL
=============================================================================
