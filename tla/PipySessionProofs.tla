-------------------------- MODULE PipySessionProofs --------------------------
(***************************************************************************)
(* Sessions and registry agree, for any pods and any number of cleanups.   *)
(***************************************************************************)
EXTENDS PipySession, FiniteSetTheorems, TLAPS

Ids == 1 .. MaxCleanups
Cleanups == [pc : {"none", "quit", "unregister"}, todo : SUBSET Refs, at : SUBSET Refs]
Listeners ==
  [pc : {"idle", "fire", "jobs", "hangs"}, todo : SUBSET Pods, proxies : SUBSET Pods,
   disconnected : SUBSET Pods]

Shape ==
  /\ proxy \in [Pods -> Proxies]
  /\ registry \subseteq Pods
  /\ cleanups \in [Ids -> Cleanups]
  /\ listener \in Listeners

(* A cleanup is busy with one proxy; what it is about to unregister is the   *)
(* latest of its pod, registered, and its session has ended.                 *)
OneAtATime == \A i \in Ids : \A r, s \in cleanups[i].at : r = s
EndedFirst ==
  \A i \in Ids : cleanups[i].pc = "unregister" =>
    \A r \in cleanups[i].at :
      r[2] = "latest" /\ r[1] \in registry /\ proxy[r[1]].session = FALSE

(* No two are about to unregister the same one. *)
OnlyOne == \A i, j \in Ids : \A p \in Pods : Unregisters(i, p) /\ Unregisters(j, p) => i = j
Served == \A p \in registry : proxy[p].session = FALSE => \E i \in Ids : Unregisters(i, p)

IInv == Shape /\ SessionsAreRegistered /\ OneAtATime /\ EndedFirst /\ OnlyOne /\ Served

(* The inductive invariant holds at first. *)
LEMMA InitIInv == Init => IInv
<1> SUFFICES ASSUME Init PROVE IInv
  OBVIOUS
<1>1. NewProxy \in Proxies /\ NewProxy.session = FALSE
  BY DEF NewProxy, Proxies
<1>2. NoCleanup \in Cleanups /\ NoCleanup.pc = "none" /\ NoCleanup.at = {}
  BY DEF NoCleanup, Cleanups
<1>3. Shape
  BY <1>1, <1>2 DEF Init, Shape, Idle, Ids, Listeners
<1>4. SessionsAreRegistered
  BY <1>1 DEF Init, SessionsAreRegistered
<1>5. OneAtATime /\ EndedFirst /\ OnlyOne
  BY <1>2 DEF Init, OneAtATime, EndedFirst, OnlyOne, Unregisters, Ids
<1>6. Served
  BY DEF Init, Served
<1> QED
  BY <1>3, <1>4, <1>5, <1>6 DEF IInv

(* A step that changes neither sessions, registry nor cleanups keeps all but *)
(* the shape of the listener.                                                *)
LEMMA ListenerSteps ==
  ASSUME IInv, UNCHANGED <<registry, proxy, cleanups>>,
         listener' \in Listeners
  PROVE  IInv'
  BY DEF IInv, Shape, SessionsAreRegistered, OneAtATime, EndedFirst, OnlyOne, Served,
         Unregisters

(* What Cleanup starts is no unregistration yet, and of one proxy. *)
LEMMA CleanupStarts ==
  ASSUME NEW todo \in SUBSET Refs, NEW c \in Cleanup(todo)
  PROVE  c \in Cleanups /\ c.pc # "unregister" /\ \A r, s \in c.at : r = s
<1>1. CASE todo = {}
  BY <1>1 DEF Cleanup, NoCleanup, Cleanups
<1>2. CASE todo # {}
  BY <1>2 DEF Cleanup, Cleanups
<1> QED
  BY <1>1, <1>2

(* A cleanup that is not about to unregister may start anew. *)
LEMMA CleanupMoves ==
  ASSUME IInv, NEW i \in Ids, NEW c \in Cleanups,
         c.pc # "unregister", \A r, s \in c.at : r = s,
         cleanups[i].pc # "unregister",
         cleanups' = [cleanups EXCEPT ![i] = c], UNCHANGED <<registry, proxy>>,
         listener' \in Listeners
  PROVE  IInv'
<1>0. cleanups \in [Ids -> Cleanups] /\ cleanups' \in [Ids -> Cleanups]
  BY DEF IInv, Shape
<1>a. cleanups'[i] = c /\ \A j \in Ids : j # i => cleanups'[j] = cleanups[j]
  BY <1>0
<1>b. \A j \in Ids, p \in Pods : Unregisters(j, p)' <=> Unregisters(j, p)
  BY <1>a DEF Unregisters
<1>1. Shape'
  BY <1>0 DEF IInv, Shape
<1>2. SessionsAreRegistered' /\ OneAtATime'
  BY <1>a DEF IInv, SessionsAreRegistered, OneAtATime
<1>3. EndedFirst'
  BY <1>a DEF IInv, EndedFirst
<1>4. OnlyOne' /\ Served'
  BY <1>b DEF IInv, OnlyOne, Served, Shape
<1> QED
  BY <1>1, <1>2, <1>3, <1>4 DEF IInv
(* Records of metadata keep the session. *)
LEMMA RecordedKeeps ==
  ASSUME NEW x \in Proxies, NEW p
  PROVE  Recorded(x, p) \in Proxies /\ Recorded(x, p).session = x.session
<1>1. CASE x.meta \/ ~Exists(p)
  BY <1>1 DEF Recorded
<1>2. CASE ~(x.meta \/ ~Exists(p))
  <2>1. (pod[p] = "ip") \in BOOLEAN
    OBVIOUS
  <2> DEFINE b == pod[p] = "ip"
  <2>2. Recorded(x, p) = [x EXCEPT !.meta = TRUE, !.addr = b]
    BY <1>2 DEF Recorded
  <2>3. b \in BOOLEAN
    BY <2>1
  <2> HIDE DEF b
  <2> QED
    BY <2>2, <2>3 DEF Proxies
<1> QED
  BY <1>1, <1>2

(* A session that is opened is of a pod that no cleanup is unregistering,    *)
(* so making its other references earlier ones changes no unregistration.    *)
LEMMA OpenKeeps ==
  ASSUME IInv, NEW p \in Pods, OpenSession(p)
  PROVE  IInv'
<1>0. /\ cleanups \in [Ids -> Cleanups] /\ proxy \in [Pods -> Proxies] /\ registry \subseteq Pods
      /\ listener \in Listeners
  BY DEF IInv, Shape
<1> DEFINE open == [NewProxy EXCEPT !.session = TRUE]
           new == Recorded(open, p)
           out(i) == [cleanups[i] EXCEPT !.todo = Outdated(@, p), !.at = Outdated(@, p)]
<1>1. new \in Proxies /\ new.session = TRUE
  <2>1. open \in Proxies /\ open.session = TRUE
    BY DEF NewProxy, Proxies
  <2> QED
    BY <2>1, RecordedKeeps
<1>2. /\ p \notin registry /\ registry' = registry \cup {p}
      /\ proxy' = [proxy EXCEPT ![p] = new]
      /\ cleanups' = [i \in Ids |-> out(i)]
  BY DEF OpenSession, Ids
<1>3. listener' \in Listeners
  BY <1>0 DEF OpenSession, Listeners
<1> HIDE DEF new
<1>4. ASSUME NEW S \in SUBSET Refs
      PROVE  /\ Outdated(S, p) \in SUBSET Refs
             /\ \A r \in Outdated(S, p) : r[2] = "latest" => r \in S /\ r[1] # p
             /\ \A r \in S : r[1] # p => r \in Outdated(S, p)
             /\ \A r \in Outdated(S, p) : r[1] # p => r \in S
             /\ (\A r, s \in S : r = s) => \A r, s \in Outdated(S, p) : r = s
  BY <1>4 DEF Outdated, Refs
<1>5. \A i \in Ids : /\ out(i) \in Cleanups /\ out(i).pc = cleanups[i].pc
                     /\ out(i).at = Outdated(cleanups[i].at, p)
                     /\ cleanups[i].at \in SUBSET Refs
  <2> SUFFICES ASSUME NEW i \in Ids
               PROVE  /\ out(i) \in Cleanups /\ out(i).pc = cleanups[i].pc
                      /\ out(i).at = Outdated(cleanups[i].at, p)
                      /\ cleanups[i].at \in SUBSET Refs
    OBVIOUS
  <2>1. cleanups[i] \in Cleanups
    BY <1>0
  <2>2. Outdated(cleanups[i].at, p) \in SUBSET Refs /\ Outdated(cleanups[i].todo, p) \in SUBSET Refs
    BY <2>1, <1>4 DEF Cleanups
  <2> QED
    BY <2>1, <2>2 DEF Cleanups
<1>6. \A i \in Ids : /\ cleanups'[i] \in Cleanups /\ cleanups'[i].pc = cleanups[i].pc
                     /\ cleanups'[i].at = Outdated(cleanups[i].at, p)
  BY <1>2, <1>5
<1> HIDE DEF out
<1>7. \A i \in Ids : cleanups[i].pc = "unregister" =>
        \A r \in cleanups[i].at : r[1] # p /\ r[2] = "latest" /\ r[1] \in registry
  BY <1>2 DEF IInv, EndedFirst
<1>8. \A i \in Ids, q \in Pods : Unregisters(i, q)' <=> Unregisters(i, q)
  <2> SUFFICES ASSUME NEW i \in Ids, NEW q \in Pods
               PROVE  Unregisters(i, q)' <=> Unregisters(i, q)
    OBVIOUS
  <2> DEFINE u == <<q, "latest">>
  <2>1. u[1] = q /\ u[2] = "latest"
    OBVIOUS
  <2> HIDE DEF u
  <2>2. cleanups[i].pc = "unregister" =>
          (u \in cleanups[i].at <=> u \in Outdated(cleanups[i].at, p))
    BY <1>4, <1>5, <1>7, <2>1
  <2>3. cleanups'[i].pc = "unregister" /\ u \in cleanups'[i].at
          <=> cleanups[i].pc = "unregister" /\ u \in cleanups[i].at
    BY <1>6, <2>2
  <2> QED
    BY <2>3 DEF Unregisters, u
<1>9. \A q \in Pods : /\ proxy'[q] \in Proxies
                      /\ q # p => proxy'[q] = proxy[q]
                      /\ proxy'[p].session = TRUE
  BY <1>0, <1>1, <1>2
<1>10. Shape'
  <2>1. cleanups' \in [Ids -> Cleanups]
    BY <1>2, <1>6
  <2>2. proxy' \in [Pods -> Proxies]
    BY <1>0, <1>1, <1>2
  <2> QED
    BY <1>0, <1>2, <1>3, <2>1, <2>2 DEF Shape
<1>11. SessionsAreRegistered'
  BY <1>2, <1>9 DEF IInv, SessionsAreRegistered
<1>12. OneAtATime'
  BY <1>4, <1>5, <1>6 DEF IInv, OneAtATime
<1>13. EndedFirst'
  <2> SUFFICES ASSUME NEW i \in Ids, cleanups'[i].pc = "unregister",
                      NEW r \in cleanups'[i].at
               PROVE  r[2] = "latest" /\ r[1] \in registry' /\ proxy'[r[1]].session = FALSE
    BY DEF EndedFirst
  <2>1. cleanups[i].pc = "unregister" /\ r \in Outdated(cleanups[i].at, p)
    BY <1>6
  <2>2. r \in cleanups[i].at
    BY <2>1, <1>4, <1>5, <1>7 DEF Outdated
  <2>3. r[2] = "latest" /\ r[1] \in registry /\ proxy[r[1]].session = FALSE /\ r[1] # p
    BY <2>1, <2>2, <1>7 DEF IInv, EndedFirst
  <2> QED
    BY <2>3, <1>0, <1>2, <1>9
<1>14. OnlyOne'
  BY <1>8 DEF IInv, OnlyOne
<1>15. Served'
  <2> SUFFICES ASSUME NEW q \in registry', proxy'[q].session = FALSE
               PROVE  \E i \in Ids : Unregisters(i, q)'
    BY DEF Served
  <2>1. q \in registry /\ q \in Pods /\ proxy[q].session = FALSE
    BY <1>0, <1>2, <1>9
  <2>2. PICK i \in Ids : Unregisters(i, q)
    BY <2>1 DEF IInv, Served
  <2> QED
    BY <2>1, <2>2, <1>8
<1> QED
  BY <1>10, <1>11, <1>12, <1>13, <1>14, <1>15 DEF IInv

(* A session that quits is registered, and this cleanup is the first to be   *)
(* about to unregister it: an earlier one would have found it ended.         *)
LEMMA QuitKeeps ==
  ASSUME IInv, NEW i \in Ids, NEW r \in Refs, Quit(i, r)
  PROVE  IInv'
<1>0. /\ cleanups \in [Ids -> Cleanups] /\ proxy \in [Pods -> Proxies] /\ registry \subseteq Pods
      /\ r[1] \in Pods
  BY DEF IInv, Shape, Refs
<1> DEFINE p == r[1]
           ended == [proxy[p] EXCEPT !.session = FALSE]
           c == [cleanups[i] EXCEPT !.pc = "unregister"]
<1>1. /\ r \in cleanups[i].at /\ r[2] = "latest" /\ proxy[p].session /\ cleanups[i].pc = "quit"
      /\ proxy' = [proxy EXCEPT ![p] = ended]
      /\ cleanups' = [cleanups EXCEPT ![i] = c]
      /\ registry' = registry /\ listener' = listener
  BY DEF Quit, CanSend, Ended
<1>2. ended \in Proxies /\ ended.session = FALSE
  BY <1>0 DEF Proxies
<1>3. c \in Cleanups /\ c.pc = "unregister" /\ c.at = cleanups[i].at
  BY <1>0 DEF Cleanups
<1>4. r = <<p, "latest">>
  BY <1>1 DEF Refs
<1> HIDE DEF p, ended, c
<1>5. p \in Pods /\ p \in registry
  BY <1>0, <1>1 DEF IInv, SessionsAreRegistered, p
<1>6. /\ proxy'[p] = ended /\ \A q \in Pods : q # p => proxy'[q] = proxy[q]
      /\ cleanups'[i] = c /\ \A j \in Ids : j # i => cleanups'[j] = cleanups[j]
      /\ proxy' \in [Pods -> Proxies] /\ cleanups' \in [Ids -> Cleanups]
  BY <1>0, <1>1, <1>2, <1>3, <1>5
<1>7. \A s \in cleanups[i].at : s = r
  BY <1>1 DEF IInv, OneAtATime
<1>8. proxy[p].session # FALSE
  BY <1>1
<1>9. \A j \in Ids : ~Unregisters(j, p)
  BY <1>4, <1>8, <1>5 DEF IInv, EndedFirst, Unregisters
<1>10. \A j \in Ids, q \in Pods :
         Unregisters(j, q)' <=> Unregisters(j, q) \/ (j = i /\ q = p)
  <2> SUFFICES ASSUME NEW j \in Ids, NEW q \in Pods
               PROVE  Unregisters(j, q)' <=> Unregisters(j, q) \/ (j = i /\ q = p)
    OBVIOUS
  <2>1. CASE j # i
    BY <2>1, <1>6 DEF Unregisters
  <2>2. CASE j = i
    <3>1. ~Unregisters(i, q)
      BY <1>1 DEF Unregisters
    <3>2. <<q, "latest">> \in c.at <=> q = p
      BY <1>1, <1>3, <1>4, <1>7
    <3> QED
      BY <2>2, <3>1, <3>2, <1>3, <1>6 DEF Unregisters
  <2> QED
    BY <2>1, <2>2
<1>11. Shape'
  BY <1>1, <1>6 DEF IInv, Shape
<1>12. SessionsAreRegistered'
  <2> SUFFICES ASSUME NEW q \in Pods, proxy'[q].session PROVE q \in registry
    BY <1>1 DEF SessionsAreRegistered
  <2> QED
    BY <1>5, <1>6 DEF IInv, SessionsAreRegistered
<1>13. OneAtATime'
  BY <1>3, <1>6 DEF IInv, OneAtATime
<1>14. EndedFirst'
  <2> SUFFICES ASSUME NEW j \in Ids, cleanups'[j].pc = "unregister",
                      NEW s \in cleanups'[j].at
               PROVE  s[2] = "latest" /\ s[1] \in registry /\ proxy'[s[1]].session = FALSE
    BY <1>1 DEF EndedFirst
  <2>1. CASE j = i
    <3>1. s = r
      BY <2>1, <1>3, <1>6, <1>7
    <3> QED
      BY <3>1, <1>1, <1>2, <1>5, <1>6 DEF p
  <2>2. CASE j # i
    <3>1. s[2] = "latest" /\ s[1] \in registry /\ proxy[s[1]].session = FALSE
      BY <2>2, <1>6 DEF IInv, EndedFirst
    <3> QED
      BY <3>1, <1>0, <1>2, <1>6
  <2> QED
    BY <2>1, <2>2
<1>15. OnlyOne'
  BY <1>9, <1>10 DEF IInv, OnlyOne
<1>16. Served'
  <2> SUFFICES ASSUME NEW q \in registry, proxy'[q].session = FALSE
               PROVE  \E j \in Ids : Unregisters(j, q)'
    BY <1>1 DEF Served
  <2>1. q \in Pods
    BY <1>0
  <2>2. CASE q = p
    BY <2>2, <1>5, <1>10
  <2>3. CASE q # p
    <3>1. PICK j \in Ids : Unregisters(j, q)
      BY <2>1, <2>3, <1>6 DEF IInv, Served
    <3> QED
      BY <3>1, <2>1, <1>10
  <2> QED
    BY <2>2, <2>3
<1> QED
  BY <1>11, <1>12, <1>13, <1>14, <1>15, <1>16 DEF IInv

(* The proxy that is taken out of the registry has no session, and it was    *)
(* the only one that this cleanup was about.                                 *)
LEMMA UnregisterKeeps ==
  ASSUME IInv, NEW i \in Ids, NEW r \in Refs, Unregister(i, r)
  PROVE  IInv'
<1>0. /\ cleanups \in [Ids -> Cleanups] /\ proxy \in [Pods -> Proxies] /\ registry \subseteq Pods
  BY DEF IInv, Shape
<1>1. /\ cleanups[i].pc = "unregister" /\ r \in cleanups[i].at
      /\ registry' = registry \ {r[1]} /\ proxy' = proxy /\ listener' = listener
  BY DEF Unregister
<1>2. cleanups[i].todo \in SUBSET Refs
  BY <1>0 DEF Cleanups
<1>3. PICK c \in Cleanup(cleanups[i].todo) : cleanups' = [cleanups EXCEPT ![i] = c]
  BY DEF Unregister
<1>4. c \in Cleanups /\ c.pc # "unregister" /\ \A s, t \in c.at : s = t
  BY <1>2, <1>3, CleanupStarts
<1>5. /\ cleanups'[i] = c /\ \A j \in Ids : j # i => cleanups'[j] = cleanups[j]
      /\ cleanups' \in [Ids -> Cleanups]
  BY <1>0, <1>3, <1>4
<1>6. \A s \in cleanups[i].at : s = r
  BY <1>1 DEF IInv, OneAtATime
<1> DEFINE p == r[1]
<1>7. p \in Pods /\ r = <<p, "latest">> /\ proxy[p].session = FALSE
  BY <1>1 DEF IInv, EndedFirst, Refs
<1> HIDE DEF p
<1>8. Unregisters(i, p)
  BY <1>1, <1>7 DEF Unregisters
<1>9. \A j \in Ids, q \in Pods : j # i => (Unregisters(j, q)' <=> Unregisters(j, q))
  BY <1>5 DEF Unregisters
<1>10. \A q \in Pods : ~Unregisters(i, q)'
  BY <1>4, <1>5 DEF Unregisters
<1>11. \A j \in Ids : j # i => ~Unregisters(j, p)
  BY <1>7, <1>8 DEF IInv, OnlyOne
<1>12. Shape'
  BY <1>0, <1>1, <1>5 DEF IInv, Shape
<1>13. SessionsAreRegistered'
  <2> SUFFICES ASSUME NEW q \in Pods, proxy[q].session PROVE q \in registry /\ q # p
    BY <1>1 DEF SessionsAreRegistered, p
  <2> QED
    BY <1>7 DEF IInv, SessionsAreRegistered
<1>14. OneAtATime'
  BY <1>4, <1>5 DEF IInv, OneAtATime
<1>15. EndedFirst'
  <2> SUFFICES ASSUME NEW j \in Ids, cleanups'[j].pc = "unregister",
                      NEW s \in cleanups'[j].at
               PROVE  s[2] = "latest" /\ s[1] \in registry /\ s[1] # p
                      /\ proxy[s[1]].session = FALSE
    BY <1>1 DEF EndedFirst, p
  <2>1. j # i /\ cleanups'[j] = cleanups[j]
    BY <1>4, <1>5
  <2>2. s[2] = "latest" /\ s[1] \in registry /\ proxy[s[1]].session = FALSE
    BY <2>1 DEF IInv, EndedFirst
  <2>3. s \in Refs
    BY <1>0, <2>1 DEF Cleanups
  <2>4. s = <<s[1], "latest">>
    BY <2>2, <2>3 DEF Refs
  <2>5. s[1] # p
    BY <2>1, <2>4, <1>11 DEF Unregisters
  <2> QED
    BY <2>2, <2>5
<1>16. OnlyOne'
  BY <1>9, <1>10 DEF IInv, OnlyOne
<1>17. Served'
  <2> SUFFICES ASSUME NEW q \in registry, q # p, proxy[q].session = FALSE
               PROVE  \E j \in Ids : Unregisters(j, q)'
    BY <1>1 DEF Served, p
  <2>1. q \in Pods
    BY <1>0
  <2>2. PICK j \in Ids : Unregisters(j, q)
    BY DEF IInv, Served
  <2>3. j # i
    BY <2>2, <1>6, <1>7 DEF Unregisters
  <2> QED
    BY <2>1, <2>2, <2>3, <1>9
<1> QED
  BY <1>12, <1>13, <1>14, <1>15, <1>16, <1>17 DEF IInv

(* Metadata that is recorded later leaves the sessions as they are. *)
LEMMA ConfirmKeeps ==
  ASSUME IInv, Confirm
  PROVE  IInv'
<1>0. proxy \in [Pods -> Proxies] /\ registry \subseteq Pods /\ listener \in Listeners
  BY DEF IInv, Shape
<1>1. /\ proxy' = [p \in Pods |->
           IF p \in listener.proxies THEN Recorded(proxy[p], p) ELSE proxy[p]]
      /\ registry' = registry /\ cleanups' = cleanups
  BY DEF Confirm
<1>2. \A p \in Pods : proxy'[p] \in Proxies /\ proxy'[p].session = proxy[p].session
  BY <1>0, <1>1, RecordedKeeps
<1>3. proxy' \in [Pods -> Proxies]
  BY <1>1, <1>2
<1>4. listener' \in Listeners
  BY <1>0 DEF Confirm, Disconnected, Idle, Listeners
<1>5. Shape'
  BY <1>0, <1>1, <1>3, <1>4 DEF IInv, Shape
<1>6. SessionsAreRegistered' /\ OneAtATime'
  BY <1>1, <1>2 DEF IInv, SessionsAreRegistered, OneAtATime
<1>7. EndedFirst'
  BY <1>0, <1>1, <1>2 DEF IInv, EndedFirst
<1>8. OnlyOne'
  BY <1>1 DEF IInv, OnlyOne, Unregisters
<1>9. Served'
  BY <1>0, <1>1, <1>2 DEF IInv, Served, Unregisters
<1> QED
  BY <1>5, <1>6, <1>7, <1>8, <1>9 DEF IInv

(* Every step keeps the inductive invariant. *)
LEMMA NextIInv == IInv /\ [Next]_vars => IInv'
<1> SUFFICES ASSUME IInv, [Next]_vars PROVE IInv'
  OBVIOUS
<1>0. listener \in Listeners /\ cleanups \in [Ids -> Cleanups]
  BY DEF IInv, Shape
<1>1. CASE UNCHANGED vars
  BY <1>0, <1>1, ListenerSteps DEF vars
<1>2. ASSUME NEW p \in Pods, PodChanges(p) PROVE IInv'
  BY <1>0, <1>2, ListenerSteps DEF PodChanges
<1>3. CASE ReceiveBroadcast
  BY <1>0, <1>3, ListenerSteps DEF ReceiveBroadcast
<1>4. CASE TimerFires
  <2>1. listener' \in Listeners
    BY <1>4 DEF TimerFires, Idle, Listeners
  <2> QED
    BY <1>4, <2>1, ListenerSteps DEF TimerFires
<1>5. CASE Confirm
  BY <1>5, ConfirmKeeps
<1>6. CASE RunJobs
  <2>1. listener' \in Listeners
    BY <1>6 DEF RunJobs, Idle, Listeners
  <2>2. CASE listener.disconnected = {}
    BY <1>6, <2>1, <2>2, ListenerSteps DEF RunJobs
  <2>3. CASE listener.disconnected # {}
    <3>1. PICK i \in Ids :
            /\ cleanups[i] = NoCleanup
            /\ \E c \in Cleanup(listener.disconnected \X {"latest"}) :
                 cleanups' = [cleanups EXCEPT ![i] = c]
      BY <1>6, <2>3 DEF RunJobs, Ids
    <3>2. PICK c \in Cleanup(listener.disconnected \X {"latest"}) :
            cleanups' = [cleanups EXCEPT ![i] = c]
      BY <3>1
    <3>3. listener.disconnected \X {"latest"} \in SUBSET Refs
      BY <1>0 DEF Listeners, Refs
    <3>4. c \in Cleanups /\ c.pc # "unregister" /\ \A r, s \in c.at : r = s
      BY <3>2, <3>3, CleanupStarts
    <3>5. cleanups[i].pc # "unregister"
      BY <3>1 DEF NoCleanup
    <3>6. UNCHANGED <<registry, proxy>>
      BY <1>6 DEF RunJobs
    <3> QED
      BY <2>1, <3>2, <3>4, <3>5, <3>6, CleanupMoves
  <2> QED
    BY <2>2, <2>3
<1>7. ASSUME NEW p \in Pods, FindSession(p) PROVE IInv'
  <2>1. listener' \in Listeners
    BY <1>0, <1>7 DEF FindSession, Listeners
  <2> QED
    BY <1>7, <2>1, ListenerSteps DEF FindSession
<1>8. ASSUME NEW p \in Pods, OpenSession(p) PROVE IInv'
  BY <1>8, OpenKeeps
<1>9. ASSUME NEW p \in Pods, ListenerHangs(p) PROVE IInv'
  <2>1. listener' \in Listeners
    BY <1>9 DEF ListenerHangs, Idle, Listeners
  <2> QED
    BY <1>9, <2>1, ListenerSteps DEF ListenerHangs
<1>10. ASSUME NEW i \in Ids, NEW r \in Refs, Quit(i, r) PROVE IInv'
  BY <1>10, QuitKeeps
<1>11. ASSUME NEW i \in Ids, NEW r \in Refs, Unregister(i, r) PROVE IInv'
  BY <1>11, UnregisterKeeps
<1>12. ASSUME NEW i \in Ids, CleanupHangs(i) PROVE IInv'
  <2>1. NoCleanup \in Cleanups /\ NoCleanup.pc # "unregister" /\ NoCleanup.at = {}
    BY DEF NoCleanup, Cleanups
  <2>2. cleanups[i].pc # "unregister"
    BY <1>12 DEF CleanupHangs
  <2>3. /\ cleanups' = [cleanups EXCEPT ![i] = NoCleanup]
        /\ UNCHANGED <<registry, proxy>> /\ listener' \in Listeners
    BY <1>0, <1>12 DEF CleanupHangs
  <2> QED
    BY <2>1, <2>2, <2>3, CleanupMoves
<1> QED
  BY <1>1, <1>2, <1>3, <1>4, <1>5, <1>6, <1>7, <1>8, <1>9, <1>10, <1>11, <1>12
  DEF Next, Listen, Clean, Ids

(* However the listener's rounds and any number of cleanups interleave, a    *)
(* session is that of a registered proxy (RegisterProxy, UnregisterProxy).   *)
THEOREM SessionsStayRegistered == Spec => []SessionsAreRegistered
<1>1. IInv => SessionsAreRegistered
  BY DEF IInv
<1> QED
  BY <1>1, InitIInv, NextIInv, PTL DEF Spec

(* And a registered proxy has a session, or exactly one cleanup that is      *)
(* about to take it out of the registry.                                     *)
THEOREM RegisteredStaysServed == Spec => []RegisteredIsServed
<1>1. IInv => RegisteredIsServed
  <2> SUFFICES ASSUME IInv, NEW p \in registry, ~proxy[p].session
               PROVE  \E i \in Ids : Unregisters(i, p) /\ \A j \in Ids \ {i} : ~Unregisters(j, p)
    BY DEF RegisteredIsServed, Ids
  <2>1. p \in Pods /\ proxy[p] \in Proxies
    BY DEF IInv, Shape
  <2>2. proxy[p].session = FALSE
    BY <2>1 DEF Proxies
  <2>3. PICK i \in Ids : Unregisters(i, p)
    BY <2>2 DEF IInv, Served
  <2> QED
    BY <2>1, <2>3 DEF IInv, OnlyOne
<1> QED
  BY <1>1, InitIInv, NextIInv, PTL DEF Spec

Bounded == IsFiniteSet(registry) /\ limit \in Nat /\ WithinLimit

(* The connection limit of informTrafficPolicies is kept for every limit and *)
(* any pods: only the listener registers, and it looks at the registry       *)
(* right before.                                                             *)
THEOREM LimitIsKept == Spec => []WithinLimit
<1>1. Init => Bounded
  BY SessionConstants, FS_EmptySet DEF Init, Bounded, WithinLimit
<1>2. Bounded /\ [Next]_vars => Bounded'
  <2> SUFFICES ASSUME Bounded, [Next]_vars PROVE Bounded'
    OBVIOUS
  <2>0. limit' = limit
    BY DEF Next, Listen, Clean, vars, PodChanges, ReceiveBroadcast, TimerFires, Confirm, RunJobs,
           FindSession, OpenSession, ListenerHangs, Quit, Unregister, CleanupHangs
  <2>a. Cardinality(registry) \in Nat
    BY FS_CardinalityType DEF Bounded
  <2>1. ASSUME NEW p \in Pods, OpenSession(p) PROVE Bounded'
    <3>1. registry' = registry \cup {p} /\ p \notin registry
      BY <2>1 DEF OpenSession
    <3>2. IsFiniteSet(registry') /\ Cardinality(registry') = Cardinality(registry) + 1
      BY <3>1, FS_AddElement DEF Bounded
    <3>3. limit # 0 => Cardinality(registry) < limit
      <4>1. ~TooManyConnections
        BY <2>1 DEF OpenSession
      <4>2. limit \in Nat
        BY DEF Bounded
      <4> QED
        BY <4>1, <4>2, <2>a DEF TooManyConnections
    <3> QED
      BY <2>0, <2>a, <3>2, <3>3 DEF Bounded, WithinLimit
  <2>2. ASSUME NEW i \in Ids, NEW r \in Refs, Unregister(i, r) PROVE Bounded'
    <3>1. registry' = registry \ {r[1]}
      BY <2>2 DEF Unregister
    <3>2. IsFiniteSet(registry') /\ Cardinality(registry') <= Cardinality(registry)
      <4> DEFINE p == r[1]
      <4>1. IsFiniteSet(registry)
        BY DEF Bounded
      <4> HIDE DEF p
      <4>2. /\ IsFiniteSet(registry \ {p})
            /\ Cardinality(registry \ {p}) =
                 IF p \in registry THEN Cardinality(registry) - 1 ELSE Cardinality(registry)
        BY <4>1, FS_RemoveElement
      <4>3. Cardinality(registry \ {p}) <= Cardinality(registry)
        BY <4>2, <2>a
      <4> QED
        BY <3>1, <4>2, <4>3 DEF p
    <3>3. Cardinality(registry') \in Nat
      BY <3>2, FS_CardinalityType
    <3> QED
      BY <2>0, <2>a, <3>2, <3>3 DEF Bounded, WithinLimit
  <2>3. CASE registry' = registry
    BY <2>0, <2>3 DEF Bounded, WithinLimit
  <2> QED
    BY <2>1, <2>2, <2>3
    DEF Next, Listen, Clean, Ids, vars, PodChanges, ReceiveBroadcast, TimerFires, Confirm, RunJobs,
        FindSession, ListenerHangs, Quit, CleanupHangs
<1>3. Bounded => WithinLimit
  BY DEF Bounded
<1> QED
  BY <1>1, <1>2, <1>3, PTL DEF Spec

(* The session of a doomed pod may be closed: the pod is gone for good, or   *)
(* its metadata was recorded before it had an address and stays that way.    *)
Doomed(p) == pod[p] = "gone" \/ (proxy[p].meta = TRUE /\ proxy[p].addr = FALSE)

(* Whom the listener and the registry know has been there; in a round, the   *)
(* registered pods that were not listed are gone; and all that the listener  *)
(* or a cleanup is to close, as far as it is the latest proxy, is doomed.    *)
Seen == \A p \in registry \cup listener.todo \cup listener.proxies : pod[p] # "none"
Listed ==
  listener.pc = "fire" =>
    \A p \in registry : p \in listener.todo \cup listener.proxies \/ pod[p] = "gone"
ToClose ==
  /\ listener.pc # "jobs" => listener.disconnected = {}
  /\ \A p \in listener.disconnected : Doomed(p)
Closing ==
  \A i \in Ids : \A r \in cleanups[i].at \cup cleanups[i].todo :
    r[2] = "latest" => Doomed(r[1])

StayInv ==
  /\ pod \in [Pods -> {"none", "noip", "ip", "gone"}]
  /\ Seen /\ Listed /\ ToClose /\ Closing

(* Nobody is known, listed or closed at first. *)
LEMMA InitStays == Init => StayInv
<1> SUFFICES ASSUME Init PROVE StayInv
  OBVIOUS
<1>1. listener.pc = "idle" /\ listener.todo = {} /\ listener.proxies = {}
      /\ listener.disconnected = {}
  BY DEF Init, Idle
<1>2. \A i \in Ids : cleanups[i].at = {} /\ cleanups[i].todo = {}
  BY DEF Init, Ids, NoCleanup
<1>3. pod \in [Pods -> {"none", "noip", "ip", "gone"}]
  BY DEF Init
<1>4. Seen /\ Listed /\ ToClose
  BY <1>1 DEF Init, Seen, Listed, ToClose
<1>5. Closing
  BY <1>2 DEF Closing
<1> QED
  BY <1>3, <1>4, <1>5 DEF StayInv

(* A pod that changes was not gone, and is neither unseen nor back after. *)
LEMMA PodStays ==
  ASSUME IInv, StayInv, NEW p \in Pods, PodChanges(p)
  PROVE  StayInv'
<1>1. UNCHANGED <<registry, proxy, listener, cleanups>>
  BY DEF PodChanges
<1>2. /\ pod' \in [Pods -> {"none", "noip", "ip", "gone"}]
      /\ \A q \in Pods : /\ pod[q] # "none" => pod'[q] # "none"
                         /\ pod[q] = "gone" => pod'[q] = "gone"
  BY DEF PodChanges, StayInv
<1>3. \A q \in Pods : Doomed(q) => Doomed(q)'
  BY <1>1, <1>2 DEF Doomed
<1>4. /\ registry \subseteq Pods /\ listener.todo \subseteq Pods
      /\ listener.proxies \subseteq Pods /\ listener.disconnected \subseteq Pods
  BY DEF IInv, Shape, Listeners
<1>5. \A i \in Ids : \A r \in cleanups[i].at \cup cleanups[i].todo : r[1] \in Pods
  BY DEF IInv, Shape, Cleanups, Refs
<1>6. Seen' /\ Listed'
  BY <1>1, <1>2, <1>4 DEF StayInv, Seen, Listed
<1>7. ToClose'
  BY <1>1, <1>3, <1>4 DEF StayInv, ToClose
<1>8. Closing'
  BY <1>1, <1>3, <1>5 DEF StayInv, Closing
<1> QED
  BY <1>2, <1>6, <1>7, <1>8 DEF StayInv

(* Metadata that has been recorded is not recorded again. *)
LEMMA RecordedOnce ==
  ASSUME NEW x \in Proxies, NEW p
  PROVE  /\ x.meta = TRUE => Recorded(x, p) = x
         /\ Recorded(x, p).meta = FALSE => ~Exists(p)
<1>1. CASE x.meta \/ ~Exists(p)
  BY <1>1 DEF Recorded, Proxies
<1>2. CASE ~(x.meta \/ ~Exists(p))
  <2> DEFINE b == pod[p] = "ip"
  <2>1. Recorded(x, p) = [x EXCEPT !.meta = TRUE, !.addr = b]
    BY <1>2 DEF Recorded
  <2> HIDE DEF b
  <2> QED
    BY <1>2, <2>1 DEF Proxies
<1> QED
  BY <1>1, <1>2

(* The proxies that the round does not find connected are doomed: they were  *)
(* not listed, or have their metadata without an address, or their pod went  *)
(* before there was any.                                                     *)
LEMMA ConfirmStays ==
  ASSUME IInv, StayInv, Confirm
  PROVE  StayInv'
<1>0. /\ proxy \in [Pods -> Proxies] /\ registry \subseteq Pods
      /\ listener.proxies \subseteq Pods
  BY DEF IInv, Shape, Listeners
<1>1. /\ listener.pc = "fire" /\ listener.todo = {}
      /\ UNCHANGED <<pod, registry, cleanups>>
      /\ proxy' = [p \in Pods |->
           IF p \in listener.proxies THEN Recorded(proxy[p], p) ELSE proxy[p]]
  BY DEF Confirm
<1>2. /\ listener'.pc = "jobs" /\ listener'.todo = {} /\ listener'.proxies = {}
      /\ listener'.disconnected =
           registry \ {p \in listener.proxies : proxy'[p].meta /\ proxy'[p].addr}
  BY DEF Confirm, Idle, Disconnected, IsConnected
<1>3. \A p \in Pods : proxy'[p] \in Proxies
  BY <1>0, <1>1, RecordedKeeps
<1>4. \A p \in Pods : Doomed(p) => Doomed(p)'
  BY <1>0, <1>1, RecordedOnce DEF Doomed
<1>5. ASSUME NEW p \in listener'.disconnected PROVE Doomed(p)'
  <2>1. p \in registry /\ p \in Pods
    BY <1>0, <1>2
  <2>2. CASE p \notin listener.proxies
    BY <2>1, <2>2, <1>1 DEF StayInv, Listed, Doomed
  <2>3. CASE p \in listener.proxies
    <3>1. ~(proxy'[p].meta /\ proxy'[p].addr)
      BY <2>3, <1>2
    <3>2. proxy'[p].meta \in BOOLEAN /\ proxy'[p].addr \in BOOLEAN
      BY <2>1, <1>3 DEF Proxies
    <3>3. CASE proxy'[p].meta = TRUE
      BY <3>1, <3>2, <3>3 DEF Doomed
    <3>4. CASE proxy'[p].meta = FALSE
      <4>1. proxy'[p] = Recorded(proxy[p], p)
        BY <2>1, <2>3, <1>1
      <4>2. ~Exists(p)
        BY <2>1, <3>4, <4>1, <1>0, RecordedOnce
      <4>3. pod[p] # "none"
        BY <2>1 DEF StayInv, Seen
      <4> QED
        BY <2>1, <4>2, <4>3, <1>1 DEF StayInv, Exists, Doomed
    <3> QED
      BY <3>2, <3>3, <3>4
  <2> QED
    BY <2>2, <2>3
<1>6. Seen' /\ Listed'
  BY <1>1, <1>2 DEF StayInv, Seen, Listed
<1>7. ToClose'
  BY <1>2, <1>5 DEF ToClose
<1>8. Closing'
  <2>1. \A i \in Ids : \A r \in cleanups[i].at \cup cleanups[i].todo : r[1] \in Pods
    BY DEF IInv, Shape, Cleanups, Refs
  <2> QED
    BY <2>1, <1>1, <1>4 DEF StayInv, Closing
<1> QED
  BY <1>1, <1>6, <1>7, <1>8 DEF StayInv

(* The new proxy of a pod is nobody's to close: what referred to the pod's   *)
(* latest one refers to an earlier one.                                      *)
LEMMA OpenStays ==
  ASSUME IInv, StayInv, NEW p \in Pods, OpenSession(p)
  PROVE  StayInv'
<1>0. /\ cleanups \in [Ids -> Cleanups] /\ proxy \in [Pods -> Proxies]
      /\ listener \in Listeners
  BY DEF IInv, Shape
<1> DEFINE new == Recorded([NewProxy EXCEPT !.session = TRUE], p)
<1>1. /\ listener.pc = "fire" /\ p \in listener.todo /\ registry' = registry \cup {p}
      /\ pod' = pod /\ proxy' = [proxy EXCEPT ![p] = new]
      /\ listener' = [listener EXCEPT !.todo = listener.todo \ {p},
                                      !.proxies = listener.proxies \cup {p}]
  BY DEF OpenSession
<1> HIDE DEF new
<1>2. /\ listener'.pc = "fire" /\ listener'.todo = listener.todo \ {p}
      /\ listener'.proxies = listener.proxies \cup {p}
      /\ listener'.disconnected = listener.disconnected
  BY <1>0, <1>1 DEF Listeners
<1>3. Seen' /\ Listed'
  BY <1>1, <1>2 DEF StayInv, Seen, Listed
<1>4. ToClose'
  BY <1>1, <1>2 DEF StayInv, ToClose
<1>5. \A q \in Pods : q # p /\ Doomed(q) => Doomed(q)'
  BY <1>0, <1>1 DEF Doomed
<1>6. Closing'
  <2> SUFFICES ASSUME NEW i \in Ids, NEW r \in cleanups'[i].at \cup cleanups'[i].todo,
                      r[2] = "latest"
               PROVE  Doomed(r[1])'
    BY DEF Closing
  <2>1. cleanups[i] \in Cleanups
    BY <1>0
  <2>2. cleanups'[i] = [cleanups[i] EXCEPT !.todo = Outdated(cleanups[i].todo, p),
                                           !.at = Outdated(cleanups[i].at, p)]
    BY DEF OpenSession, Ids
  <2>3. /\ cleanups'[i].at = Outdated(cleanups[i].at, p)
        /\ cleanups'[i].todo = Outdated(cleanups[i].todo, p)
    BY <2>1, <2>2 DEF Cleanups
  <2>4. PICK s \in cleanups[i].at \cup cleanups[i].todo :
          r = IF s[1] = p THEN <<p, "earlier">> ELSE s
    BY <2>3 DEF Outdated
  <2>5. s[1] # p /\ r = s
    BY <2>4
  <2>6. r \in Refs
    BY <2>1, <2>4, <2>5 DEF Cleanups
  <2>7. r[1] \in Pods
    BY <2>6 DEF Refs
  <2> QED
    BY <2>4, <2>5, <2>7, <1>5 DEF StayInv, Closing
<1> QED
  BY <1>1, <1>3, <1>4, <1>6 DEF StayInv

(* What Cleanup starts with is what it was given. *)
LEMMA CleanupTakes ==
  ASSUME NEW todo \in SUBSET Refs, NEW c \in Cleanup(todo)
  PROVE  c.at \cup c.todo \subseteq todo
<1>1. CASE todo = {}
  BY <1>1 DEF Cleanup, NoCleanup
<1>2. CASE todo # {}
  BY <1>2 DEF Cleanup
<1> QED
  BY <1>1, <1>2

(* A cleanup goes on with what it has, or starts with what is doomed. *)
LEMMA CleanupStays ==
  ASSUME IInv, StayInv, NEW i \in Ids, NEW c,
         cleanups' = [cleanups EXCEPT ![i] = c],
         \A r \in c.at \cup c.todo : r[2] = "latest" => Doomed(r[1]),
         UNCHANGED <<pod, proxy>>
  PROVE  Closing'
<1>1. cleanups'[i] = c /\ \A j \in Ids : j # i => cleanups'[j] = cleanups[j]
  BY DEF IInv, Shape
<1> QED
  BY <1>1 DEF StayInv, Closing, Doomed

(* A step keeps the invariant that keeps its listener's part. *)
LEMMA ListenerStays ==
  ASSUME StayInv, UNCHANGED <<pod, proxy, registry>>, Closing',
         \A p \in listener'.todo \cup listener'.proxies : pod[p] # "none",
         Listed', ToClose'
  PROVE  StayInv'
  BY DEF StayInv, Seen

(* Every step keeps it. *)
LEMMA NextStays == IInv /\ StayInv /\ [Next]_vars => StayInv'
<1> SUFFICES ASSUME IInv, StayInv, [Next]_vars PROVE StayInv'
  OBVIOUS
<1>0. /\ listener \in Listeners /\ cleanups \in [Ids -> Cleanups] /\ registry \subseteq Pods
      /\ proxy \in [Pods -> Proxies]
  BY DEF IInv, Shape
<1>1. CASE UNCHANGED <<pod, registry, proxy, listener, cleanups>>
  BY <1>1 DEF StayInv, Seen, Listed, ToClose, Closing, Doomed
<1>2. ASSUME NEW p \in Pods, PodChanges(p) PROVE StayInv'
  BY <1>2, PodStays
<1>3. CASE TimerFires
  <2>1. /\ listener'.pc = "fire" /\ listener'.todo = {p \in Pods : Exists(p)}
        /\ listener'.proxies = {} /\ listener'.disconnected = {}
        /\ UNCHANGED <<pod, registry, proxy, cleanups>>
    BY <1>3 DEF TimerFires, Idle
  <2>2. \A p \in listener'.todo \cup listener'.proxies : pod[p] # "none"
    BY <2>1 DEF Exists
  <2>3. Listed'
    BY <2>1, <1>0 DEF StayInv, Seen, Listed, Exists
  <2>4. ToClose' /\ Closing'
    BY <2>1 DEF StayInv, ToClose, Closing, Doomed
  <2> QED
    BY <2>1, <2>2, <2>3, <2>4, ListenerStays
<1>4. CASE Confirm
  BY <1>4, ConfirmStays
<1>5. CASE RunJobs
  <2>1. /\ listener'.pc = "idle" /\ listener'.todo = {} /\ listener'.proxies = {}
        /\ listener'.disconnected = {} /\ UNCHANGED <<pod, registry, proxy>>
    BY <1>5 DEF RunJobs, Idle
  <2>2. Listed' /\ ToClose'
    BY <2>1 DEF Listed, ToClose
  <2>3. CASE listener.disconnected = {}
    <3>1. Closing'
      BY <1>5, <2>1, <2>3 DEF RunJobs, StayInv, Closing, Doomed
    <3> QED
      BY <2>1, <2>2, <3>1, ListenerStays
  <2>4. CASE listener.disconnected # {}
    <3> DEFINE todo == listener.disconnected \X {"latest"}
    <3>1. PICK i \in Ids : \E c \in Cleanup(todo) : cleanups' = [cleanups EXCEPT ![i] = c]
      BY <1>5, <2>4 DEF RunJobs, Ids
    <3>2. PICK c \in Cleanup(todo) : cleanups' = [cleanups EXCEPT ![i] = c]
      BY <3>1
    <3>3. todo \in SUBSET Refs /\ \A r \in todo : r[1] \in listener.disconnected
      BY <1>0 DEF Listeners, Refs
    <3> HIDE DEF todo
    <3>4. c.at \cup c.todo \subseteq todo
      BY <3>2, <3>3, CleanupTakes
    <3>5. \A r \in c.at \cup c.todo : Doomed(r[1])
      BY <3>3, <3>4 DEF StayInv, ToClose
    <3>6. Closing'
      BY <2>1, <3>2, <3>5, CleanupStays
    <3> QED
      BY <2>1, <2>2, <3>6, ListenerStays
  <2> QED
    BY <2>3, <2>4
<1>6. ASSUME NEW p \in Pods, FindSession(p) PROVE StayInv'
  <2>1. /\ listener'.pc = listener.pc /\ listener'.todo = listener.todo \ {p}
        /\ listener'.proxies = listener.proxies \cup {p} /\ p \in listener.todo
        /\ listener'.disconnected = listener.disconnected
        /\ UNCHANGED <<pod, registry, proxy, cleanups>>
    BY <1>0, <1>6 DEF FindSession, Listeners
  <2>2. \A q \in listener'.todo \cup listener'.proxies : pod[q] # "none"
    BY <2>1 DEF StayInv, Seen
  <2>3. Listed'
    BY <2>1 DEF StayInv, Listed
  <2>4. ToClose' /\ Closing'
    BY <2>1 DEF StayInv, ToClose, Closing, Doomed
  <2> QED
    BY <2>1, <2>2, <2>3, <2>4, ListenerStays
<1>7. ASSUME NEW p \in Pods, OpenSession(p) PROVE StayInv'
  BY <1>7, OpenStays
<1>8. ASSUME NEW p \in Pods, ListenerHangs(p) PROVE StayInv'
  <2>1. /\ listener'.pc = "hangs" /\ listener'.todo = {} /\ listener'.proxies = {}
        /\ listener'.disconnected = {} /\ UNCHANGED <<pod, registry, proxy, cleanups>>
    BY <1>8 DEF ListenerHangs, Idle
  <2>2. Listed' /\ ToClose'
    BY <2>1 DEF Listed, ToClose
  <2>3. Closing'
    BY <2>1 DEF StayInv, Closing, Doomed
  <2> QED
    BY <2>1, <2>2, <2>3, ListenerStays
<1>9. ASSUME NEW i \in Ids, NEW r \in Refs, Quit(i, r) PROVE StayInv'
  <2>1. UNCHANGED <<pod, registry, listener>>
    BY <1>9 DEF Quit
  <2>2. \A p \in Pods : proxy'[p].meta = proxy[p].meta /\ proxy'[p].addr = proxy[p].addr
    BY <1>0, <1>9 DEF Quit, Ended, Proxies, Refs
  <2>3. \A p \in Pods : Doomed(p) => Doomed(p)'
    BY <2>1, <2>2 DEF Doomed
  <2>4. \A j \in Ids : cleanups'[j].at = cleanups[j].at /\ cleanups'[j].todo = cleanups[j].todo
    BY <1>0, <1>9 DEF Quit, Cleanups
  <2>5. \A j \in Ids : \A s \in cleanups[j].at \cup cleanups[j].todo : s[1] \in Pods
    BY <1>0 DEF Cleanups, Refs
  <2>6. Closing'
    BY <2>3, <2>4, <2>5 DEF StayInv, Closing
  <2>7. listener.disconnected \subseteq Pods
    BY <1>0 DEF Listeners
  <2>8. ToClose'
    BY <2>1, <2>3, <2>7 DEF StayInv, ToClose
  <2> QED
    BY <2>1, <2>6, <2>8 DEF StayInv, Seen, Listed
<1>10. ASSUME NEW i \in Ids, NEW r \in Refs, Unregister(i, r) PROVE StayInv'
  <2>1. UNCHANGED <<pod, proxy, listener>> /\ registry' \subseteq registry
    BY <1>10 DEF Unregister
  <2>2. PICK c \in Cleanup(cleanups[i].todo) : cleanups' = [cleanups EXCEPT ![i] = c]
    BY <1>10 DEF Unregister
  <2>3. cleanups[i].todo \in SUBSET Refs
    BY <1>0 DEF Cleanups
  <2>4. \A s \in c.at \cup c.todo : s[2] = "latest" => Doomed(s[1])
    BY <2>2, <2>3, CleanupTakes DEF StayInv, Closing
  <2>5. Closing'
    BY <2>1, <2>2, <2>4, CleanupStays
  <2> QED
    BY <2>1, <2>5 DEF StayInv, Seen, Listed, ToClose, Doomed
<1>11. ASSUME NEW i \in Ids, CleanupHangs(i) PROVE StayInv'
  <2>1. cleanups' = [cleanups EXCEPT ![i] = NoCleanup] /\ UNCHANGED <<pod, registry, proxy, listener>>
    BY <1>11 DEF CleanupHangs
  <2>2. NoCleanup.at = {} /\ NoCleanup.todo = {}
    BY DEF NoCleanup
  <2>3. Closing'
    BY <2>1, <2>2, CleanupStays
  <2> QED
    BY <2>1, <2>3 DEF StayInv, Seen, Listed, ToClose, Doomed
<1>12. CASE ReceiveBroadcast
  BY <1>1, <1>12 DEF ReceiveBroadcast
<1>13. CASE UNCHANGED vars
  BY <1>1, <1>13 DEF vars
<1> QED
  BY <1>2, <1>3, <1>4, <1>5, <1>6, <1>7, <1>8, <1>9, <1>10, <1>11, <1>12, <1>13
  DEF Next, Listen, Clean, Ids

(* Only a cleanup ends sessions, and those of doomed pods. *)
LEMMA OnlyDoomedQuit ==
  ASSUME IInv, StayInv, [Next]_vars, NEW p \in Pods,
         proxy[p].session, proxy[p].addr, ~proxy'[p].session
  PROVE  ~Exists(p)
<1>0. proxy \in [Pods -> Proxies]
  BY DEF IInv, Shape
<1>1. CASE proxy' = proxy
  BY <1>1
<1>2. CASE Confirm
  <2>1. proxy'[p].session = proxy[p].session
    BY <1>0, <1>2, RecordedKeeps DEF Confirm
  <2> QED
    BY <2>1
<1>3. ASSUME NEW q \in Pods, OpenSession(q) PROVE ~Exists(p)
  <2> DEFINE open == [NewProxy EXCEPT !.session = TRUE]
  <2>1. open \in Proxies /\ open.session = TRUE
    BY DEF NewProxy, Proxies
  <2>2. Recorded(open, q).session = TRUE
    BY <2>1, RecordedKeeps
  <2>3. proxy' = [proxy EXCEPT ![q] = Recorded(open, q)]
    BY <1>3 DEF OpenSession
  <2> HIDE DEF open
  <2>4. proxy'[p].session = TRUE \/ proxy'[p] = proxy[p]
    BY <1>0, <2>2, <2>3
  <2> QED
    BY <2>4
<1>4. ASSUME NEW i \in Ids, NEW r \in Refs, Quit(i, r) PROVE ~Exists(p)
  <2>1. r \in cleanups[i].at /\ r[2] = "latest" /\ proxy' = [proxy EXCEPT ![r[1]] = Ended(@)]
    BY <1>4 DEF Quit, CanSend
  <2>2. r[1] = p
    BY <1>0, <2>1
  <2>3. Doomed(p)
    BY <2>1, <2>2 DEF StayInv, Closing
  <2> QED
    BY <2>3 DEF Doomed, Exists
<1> QED
  BY <1>1, <1>2, <1>3, <1>4
  DEF Next, Listen, Clean, Ids, vars, PodChanges, ReceiveBroadcast, TimerFires, RunJobs,
      FindSession, ListenerHangs, Unregister, CleanupHangs

(* Whatever cleanups are under way, the session of a proxy whose address is  *)
(* known is not closed while its pod is there (broadcastListener,            *)
(* fireExistProxies, UnregisterProxy).                                       *)
THEOREM ServedPodsAlwaysStay == Spec => ServedPodsStay
<1>1. IInv /\ StayInv /\ [Next]_vars =>
        [\A p \in Pods :
           proxy[p].session /\ proxy[p].addr /\ ~proxy'[p].session => ~Exists(p)]_vars
  BY OnlyDoomedQuit
<1> QED
  BY <1>1, InitIInv, NextIInv, InitStays, NextStays, PTL DEF Spec, ServedPodsStay
=============================================================================
