-------------------------- MODULE ADSStreamProofs --------------------------
(***************************************************************************)
(* A quiet discovery stream has served its proxy, and a stream does not    *)
(* send a response without a cause, for any resource types and names and   *)
(* any number of changes, requests, rejections, reconnections and          *)
(* failures (the first with reconnections or failures, not both).          *)
(***************************************************************************)
EXTENDS ADSStream, TLAPS

Requests == [type : TypeURIs, version : Nat, nonce : Nat, names : SUBSET Names, err : BOOLEAN]
Responses == [type : TypeURIs, version : Nat, nonce : Nat, names : SUBSET (Names \cup {All}),
              gen : Nat]
Proxies == [sent : [TypeURIs -> Nat], applied : [TypeURIs -> Nat], nonce : [TypeURIs -> Nat],
            lastSent : [TypeURIs -> SUBSET Names], subscribed : [TypeURIs -> SUBSET Names]]
Envoys == [types : Seq(TypeURIs), names : [TypeURIs -> SUBSET Names],
           version : [TypeURIs -> Nat], nonce : [TypeURIs -> Nat],
           has : [TypeURIs -> [Names \cup {All} -> Nat]]]
Jobs == [types : Seq(TypeURIs), names : SUBSET Names, driven : BOOLEAN, made : Nat \cup {-1}]

(* A job without types is none: there is nothing to send then. *)
TypeInv ==
  /\ scope \in Scopes
  /\ gen \in [Sources -> Nat] /\ unpublished \subseteq Sources /\ chan \in [Sources -> Nat]
  /\ proxy \in Proxies /\ nonces \in Nat /\ job \in Jobs
  /\ job.types = <<>> <=> job = NoJob
  /\ up \in Seq(Requests) /\ down \in Seq(Responses) /\ envoy \in Envoys
  /\ reconnects \in Nat /\ failures \in Nat
-----------------------------------------------------------------------------
(* Most leaves are first-order facts, for Zenon; those that need arithmetic, *)
(* sequences or records name SMT.                                            *)
USE Zenon
-----------------------------------------------------------------------------
(* The types of a job. *)
Range(s) == {s[i] : i \in DOMAIN s}

(* The last message of type t in a queue. *)
IsLast(q, i, t) ==
  /\ i \in DOMAIN q /\ q[i].type = t
  /\ \A j \in DOMAIN q : j > i => q[j].type # t

None(q, t) == \A i \in DOMAIN q : q[i].type # t

InJob(t) == t \in Range(job.types)

(* The source of t has changed and the stream will hear of it. *)
SourcePending(t) == Source(t) \in unpublished \/ chan[Source(t)] > 0

Current(g, t) == g = gen[Source(t)] \/ SourcePending(t)

(* What the last response of type t has that the proxy wants. *)
Sent(t) == IF IsWildcardTypeURI(t) THEN {All} ELSE proxy.lastSent[t]

(* The last request of a type tells what the proxy has and wants. *)
LastRequestIsTrue(t) ==
  \A i \in DOMAIN up : IsLast(up, i, t) =>
    /\ up[i].names = envoy.names[t] /\ up[i].version = envoy.version[t]
    /\ up[i].nonce = envoy.nonce[t]
    /\ up[i].err => t \in rejected

(* The last response of a type is the one whose ACK the server waits for,    *)
(* and is current unless another is being made.                              *)
LastResponseIsCurrent(t) ==
  \A i \in DOMAIN down : IsLast(down, i, t) =>
    /\ down[i].nonce = proxy.nonce[t]
    /\ Sent(t) \subseteq down[i].names
    /\ ~InJob(t) /\ t \notin failed => Current(down[i].gen, t)

(* What is known of a type before the proxy asks for it, and of a wildcard   *)
(* type at all times.                                                        *)
Unasked(t) ==
  ~Subscribed(t) =>
    /\ None(up, t) /\ envoy.nonce[t] = 0
    /\ \A n \in Names \cup {All} : envoy.has[t][n] = 0
NoNames(t) ==
  IsWildcardTypeURI(t) =>
    /\ envoy.names[t] = {} /\ proxy.subscribed[t] = {}
    /\ \A i \in DOMAIN up : up[i].type = t => up[i].names = {}

(* With no response on its way, the proxy's nonce is the server's: a request *)
(* it sends now is not ignored.                                              *)
NonceIsKnown(t) ==
  Subscribed(t) /\ None(down, t) => envoy.nonce[t] = 0 \/ proxy.nonce[t] \in {0, envoy.nonce[t]}

(* With no response on its way or being made, and none rejected or failed... *)
AtRest(t) ==
  Subscribed(t) /\ None(down, t) /\ ~InJob(t) /\ t \notin failed \cup rejected

(* ...server and proxy agree once its requests are handled... *)
Agreed(t) ==
  AtRest(t) /\ None(up, t) =>
    /\ proxy.nonce[t] # 0 /\ envoy.nonce[t] = proxy.nonce[t]
    /\ proxy.subscribed[t] = envoy.names[t] /\ proxy.applied[t] = envoy.version[t]
    /\ ~IsWildcardTypeURI(t) => proxy.lastSent[t] = envoy.names[t]

(* ...and what the server has sent the proxy has. *)
Served(t) ==
  AtRest(t) /\ proxy.nonce[t] # 0 /\ envoy.nonce[t] = proxy.nonce[t] =>
    \A n \in Sent(t) : Current(envoy.has[t][n], t)

TypeServed(t) ==
  /\ LastRequestIsTrue(t) /\ LastResponseIsCurrent(t)
  /\ Unasked(t) /\ NoNames(t) /\ NonceIsKnown(t) /\ Agreed(t) /\ Served(t)

(* The resources in the making are current. *)
JobIsCurrent ==
  job.types # <<>> /\ job.made # -1 => Current(job.made, Head(job.types))

(* Until a wildcard type is answered, and updates are pushed, no type that   *)
(* depends on the mesh is: the first request on a stream is for a wildcard   *)
(* type.  Before the first reconnection the proxy asks for no others.        *)
FirstIsWildcard ==
  /\ envoy.types # <<>> => IsWildcardTypeURI(envoy.types[1])
  /\ \A i \in DOMAIN down : proxy.nonce[down[i].type] # 0
  /\ "SDS" \in Range(job.types) => job.types = <<"SDS">>
  /\ ~ShouldPushUpdate =>
       /\ \A t \in TypeURIs : Source(t) = "mesh" => proxy.nonce[t] = 0
       /\ \A t \in Range(job.types) : IsWildcardTypeURI(t) \/ t = "SDS"
       /\ reconnects = 0 => \A t \in TypeURIs :
            /\ Subscribed(t) => IsWildcardTypeURI(t)
            /\ IsWildcardTypeURI(t) => envoy.has[t][All] = 0
       /\ reconnects > 0 /\ envoy.types # <<>> /\ job.types \in {<<>>, <<"SDS">>} =>
            up # <<>> /\ IsWildcardTypeURI(up[1].type) /\ ~up[1].err

StreamInv ==
  /\ \A t \in TypeURIs : TypeServed(t)
  /\ JobIsCurrent /\ FirstIsWildcard

(* Until now the proxy has reconnected or a resource could not be made, not  *)
(* both: a new stream whose first resources cannot be made does not push     *)
(* updates of those it sends later (shouldPushUpdate).                       *)
NotBoth == failures = 0 \/ reconnects = 0
-----------------------------------------------------------------------------
(* The types of a scope are the five of Envoy. *)
LEMMA TypesKnown ==
  ASSUME scope \in Scopes
  PROVE  TypeURIs \subseteq {"CDS", "EDS", "LDS", "RDS", "SDS"}
BY ADSConstants DEF TypeURIs

(* A push answers every type that depends on the mesh. *)
LEMMA PushesAll ==
  ASSUME scope \in Scopes
  PROVE  /\ PushOrder \in Seq(TypeURIs)
         /\ Range(PushOrder) = {t \in TypeURIs : Source(t) = "mesh"}
(* A concatenation has the members of both sequences. *)
<1>0. ASSUME NEW S, NEW q \in Seq(S), NEW r \in Seq(S)
      PROVE  q \o r \in Seq(S) /\ Range(q \o r) = Range(q) \cup Range(r)
  <2> USE <1>0
  <2>1. q \o r \in Seq(S) /\ Len(q \o r) = Len(q) + Len(r)
    BY SMT
  <2>2. ASSUME NEW i \in 1..Len(q) PROVE (q \o r)[i] = q[i] /\ i \in 1..Len(q \o r)
    BY <2>1, SMT
  <2>3. ASSUME NEW i \in 1..Len(r) PROVE (q \o r)[Len(q) + i] = r[i] /\ Len(q) + i \in 1..Len(q \o r)
    BY <2>1, SMT
  <2>4. ASSUME NEW i \in 1..Len(q \o r)
        PROVE  i \in 1..Len(q) \/ \E j \in 1..Len(r) : i = Len(q) + j
    <3>1. CASE i > Len(q)
      <4>1. i - Len(q) \in 1..Len(r) /\ i = Len(q) + (i - Len(q))
        BY <2>1, <3>1, SMT
      <4> QED
        BY <4>1
    <3> QED
      BY <2>1, <3>1, SMT
  <2>5. DOMAIN q = 1..Len(q) /\ DOMAIN r = 1..Len(r) /\ DOMAIN (q \o r) = 1..Len(q \o r)
    BY <2>1, SMT
  <2>6. ASSUME NEW x \in Range(q \o r) PROVE x \in Range(q) \cup Range(r)
    <3>1. PICK i \in 1..Len(q \o r) : x = (q \o r)[i]
      BY <2>5 DEF Range
    <3>2. CASE i \in 1..Len(q)
      BY <2>2, <2>5, <3>1, <3>2 DEF Range
    <3>3. ASSUME NEW j \in 1..Len(r), i = Len(q) + j PROVE x \in Range(r)
      BY <2>3, <2>5, <3>1, <3>3 DEF Range
    <3> QED
      BY <2>4, <3>2, <3>3
  <2>7. Range(q) \subseteq Range(q \o r)
    BY <2>2, <2>5 DEF Range
  <2>8. Range(r) \subseteq Range(q \o r)
    BY <2>3, <2>5 DEF Range
  <2> QED
    BY <2>1, <2>6, <2>7, <2>8
<1> DEFINE used(t) == IF t \in TypeURIs THEN <<t>> ELSE <<>>
<1>1. ASSUME NEW t PROVE used(t) \in Seq(TypeURIs) /\ Range(used(t)) = {t} \cap TypeURIs
  BY SMT DEF Range
<1>2. PushOrder = used("CDS") \o used("EDS") \o used("LDS") \o used("RDS")
  BY DEF PushOrder
<1> DEFINE two == used("CDS") \o used("EDS")
           three == two \o used("LDS")
<1>3. PushOrder = three \o used("RDS")
  BY <1>2
<1> HIDE DEF used
<1>4. two \in Seq(TypeURIs) /\ Range(two) = {"CDS", "EDS"} \cap TypeURIs
  BY <1>1, <1>0, SMT
<1> HIDE DEF two
<1>5. three \in Seq(TypeURIs) /\ Range(three) = {"CDS", "EDS", "LDS"} \cap TypeURIs
  BY <1>1, <1>4, <1>0, SMT
<1> HIDE DEF three
<1>6. /\ PushOrder \in Seq(TypeURIs)
      /\ Range(PushOrder) = {"CDS", "EDS", "LDS", "RDS"} \cap TypeURIs
  BY <1>1, <1>3, <1>5, <1>0, SMT
<1> QED
  BY <1>6, TypesKnown DEF Source
-----------------------------------------------------------------------------
(* Queues, seen by one type: what is last in what is left of a queue and in  *)
(* a queue with one more message.                                            *)
SeesNoMore(q, r, t) ==
  /\ \A i \in DOMAIN r : IsLast(r, i, t) => \E j \in DOMAIN q : IsLast(q, j, t) /\ q[j] = r[i]
  /\ \A i \in DOMAIN r : r[i].type = t => \E j \in DOMAIN q : q[j] = r[i]

(* Reading a message from a channel: nothing is new in what is left, a type  *)
(* that the message is not of has some left if it had some, and if none of   *)
(* the message's own type is left, it was the last.                          *)
LEMMA QueueTail ==
  ASSUME NEW S, NEW q \in Seq(S), q # <<>>, NEW t
  PROVE  /\ SeesNoMore(q, Tail(q), t)
         /\ Head(q).type # t => (None(Tail(q), t) <=> None(q, t))
         /\ Head(q).type = t /\ None(Tail(q), t) => IsLast(q, 1, t)
         /\ Head(q) = q[1] /\ 1 \in DOMAIN q /\ Head(q) \in S /\ Tail(q) \in Seq(S)
<1>1. /\ Tail(q) \in Seq(S) /\ Len(Tail(q)) = Len(q) - 1 /\ Len(q) \in Nat /\ Len(q) > 0
      /\ DOMAIN q = 1..Len(q) /\ DOMAIN Tail(q) = 1..(Len(q) - 1)
      /\ Head(q) = q[1] /\ Head(q) \in S
  BY SMT
<1>2. \A i \in DOMAIN Tail(q) : Tail(q)[i] = q[i + 1] /\ i + 1 \in DOMAIN q
  BY <1>1, SMT
<1>3. \A i \in DOMAIN q : i = 1 \/ (i - 1 \in DOMAIN Tail(q) /\ q[i] = Tail(q)[i - 1])
  BY <1>1, SMT
<1>4. ASSUME NEW i \in DOMAIN Tail(q), IsLast(Tail(q), i, t) PROVE IsLast(q, i + 1, t)
  <2>1. ASSUME NEW j \in DOMAIN q, j > i + 1 PROVE q[j].type # t
    <3>1. j - 1 \in DOMAIN Tail(q) /\ q[j] = Tail(q)[j - 1] /\ j - 1 > i
      BY <1>1, <1>3, <2>1, SMT
    <3> QED
      BY <1>4, <3>1 DEF IsLast
  <2> QED
    BY <1>2, <1>4, <2>1 DEF IsLast
<1>5. SeesNoMore(q, Tail(q), t)
  BY <1>2, <1>4 DEF SeesNoMore
<1>6. None(q, t) => None(Tail(q), t)
  BY <1>2 DEF None
<1>7. Head(q).type # t /\ None(Tail(q), t) => None(q, t)
  BY <1>1, <1>3 DEF None
<1>8. 1 \in DOMAIN q
  BY <1>1, SMT
<1>9. ASSUME Head(q).type = t, None(Tail(q), t) PROVE IsLast(q, 1, t)
  <2>1. ASSUME NEW j \in DOMAIN q, j > 1 PROVE q[j].type # t
    <3>1. j # 1
      BY <1>1, <2>1, SMT
    <3> QED
      BY <1>3, <1>9, <3>1 DEF None
  <2> QED
    BY <1>1, <1>8, <1>9, <2>1 DEF IsLast
<1> QED
  BY <1>1, <1>5, <1>6, <1>7, <1>8, <1>9

(* Sending a message to a channel: it is the last of its type, other types   *)
(* see no more than before, and the first in the channel stays first.        *)
LEMMA QueueAppend ==
  ASSUME NEW S, NEW q \in Seq(S), NEW m \in S, NEW t
  PROVE  /\ m.type # t => SeesNoMore(q, Append(q, m), t) /\ (None(Append(q, m), t) <=> None(q, t))
         /\ m.type = t => /\ ~None(Append(q, m), t)
                          /\ \A i \in DOMAIN Append(q, m) :
                               IsLast(Append(q, m), i, t) => Append(q, m)[i] = m
         /\ Append(q, m) \in Seq(S)
         /\ \A i \in DOMAIN Append(q, m) : Append(q, m)[i] = m \/ \E j \in DOMAIN q : q[j] = Append(q, m)[i]
         /\ Append(q, m) # <<>> /\ (q # <<>> => Append(q, m)[1] = q[1]) /\ (q = <<>> => Append(q, m)[1] = m)
<1> DEFINE r == Append(q, m)
<1>1. /\ r \in Seq(S) /\ Len(r) = Len(q) + 1 /\ Len(q) \in Nat
      /\ DOMAIN q = 1..Len(q) /\ DOMAIN r = 1..(Len(q) + 1)
      /\ r[Len(q) + 1] = m
  BY SMT
<1>2. \A i \in DOMAIN q : i \in DOMAIN r /\ r[i] = q[i]
  BY <1>1, SMT
<1>3. \A i \in DOMAIN r : i = Len(q) + 1 \/ i \in DOMAIN q
  BY <1>1, SMT
<1>4. r # <<>> /\ (q # <<>> => r[1] = q[1]) /\ (q = <<>> => r[1] = m)
  BY SMT
<1> HIDE DEF r
<1>5. ASSUME m.type # t PROVE SeesNoMore(q, r, t) /\ (None(r, t) <=> None(q, t))
  <2>1. \A i \in DOMAIN r : r[i].type = t => i \in DOMAIN q /\ q[i] = r[i]
    BY <1>1, <1>2, <1>3, <1>5
  <2>2. \A i \in DOMAIN r : IsLast(r, i, t) => IsLast(q, i, t)
    BY <1>2, <2>1 DEF IsLast
  <2>3. SeesNoMore(q, r, t)
    BY <2>1, <2>2 DEF SeesNoMore, IsLast
  <2> QED
    BY <1>2, <2>1, <2>3 DEF None
<1>6. ASSUME m.type = t
      PROVE  ~None(r, t) /\ \A i \in DOMAIN r : IsLast(r, i, t) => r[i] = m
  <2>1. Len(q) + 1 \in DOMAIN r
    BY <1>1, SMT
  <2>2. ~None(r, t)
    BY <1>1, <1>6, <2>1 DEF None
  <2>3. ASSUME NEW i \in DOMAIN r, IsLast(r, i, t) PROVE i = Len(q) + 1
    BY <1>1, <1>6, <2>1, <2>3, SMT DEF IsLast
  <2> QED
    BY <1>1, <2>2, <2>3
<1>7. \A i \in DOMAIN r : r[i] = m \/ \E j \in DOMAIN q : q[j] = r[i]
  BY <1>1, <1>2, <1>3
<1> QED
  BY <1>1, <1>4, <1>5, <1>6, <1>7 DEF r
-----------------------------------------------------------------------------
(* What the operators on proxies and requests make. *)
IsRequest(m, e, t, nonce) ==
  /\ m \in Requests
  /\ m.type = t /\ m.nonce = nonce /\ m.names = e.names[t] /\ m.version = e.version[t]

(* What Request makes is a request with the proxy's names and version of     *)
(* that type.                                                                *)
LEMMA RequestType ==
  ASSUME NEW e \in Envoys, NEW t \in TypeURIs, NEW nonce \in Nat
  PROVE  /\ IsRequest(Request(e, t, nonce, FALSE), e, t, nonce) /\ ~Request(e, t, nonce, FALSE).err
         /\ IsRequest(Request(e, t, nonce, TRUE), e, t, nonce)
<1>1. e.names[t] \in SUBSET Names /\ e.version[t] \in Nat
  BY DEF Envoys
<1> QED
  BY <1>1 DEF Request, Requests, IsRequest

(* SetSubscribedResources changes the names of the request's type only. *)
LEMMA SubscribeType ==
  ASSUME NEW p \in Proxies, NEW r \in Requests
  PROVE  /\ Subscribe(p, r) \in Proxies
         /\ Subscribe(p, r).nonce = p.nonce /\ Subscribe(p, r).lastSent = p.lastSent
         /\ Subscribe(p, r).applied = p.applied
         /\ Subscribe(p, r).subscribed[r.type] = r.names
         /\ \A u \in TypeURIs \ {r.type} : Subscribe(p, r).subscribed[u] = p.subscribed[u]
<1>1. r.type \in TypeURIs /\ r.names \in SUBSET Names /\ p.subscribed \in [TypeURIs -> SUBSET Names]
  BY DEF Requests, Proxies
<1> DEFINE s == [p.subscribed EXCEPT ![r.type] = r.names]
<1>2. s \in [TypeURIs -> SUBSET Names]
  BY <1>1
<1>3. Subscribe(p, r) = [p EXCEPT !.subscribed = s]
  BY DEF Subscribe, Proxies
<1>4. s[r.type] = r.names /\ \A u \in TypeURIs \ {r.type} : s[u] = p.subscribed[u]
  BY <1>1
<1> HIDE DEF s
<1> QED
  BY <1>2, <1>3, <1>4 DEF Proxies

(* An ACK sets the applied version of its type only. *)
LEMMA AckedType ==
  ASSUME proxy \in Proxies, NEW r \in Requests
  PROVE  /\ Acked(r) \in Proxies
         /\ Acked(r).nonce = proxy.nonce /\ Acked(r).lastSent = proxy.lastSent
         /\ Acked(r).subscribed = proxy.subscribed
         /\ Acked(r).applied[r.type] = r.version
         /\ \A u \in TypeURIs \ {r.type} : Acked(r).applied[u] = proxy.applied[u]
<1>1. r.type \in TypeURIs /\ r.version \in Nat /\ proxy.applied \in [TypeURIs -> Nat]
  BY DEF Requests, Proxies
<1> DEFINE s == [proxy.applied EXCEPT ![r.type] = r.version]
<1>2. s \in [TypeURIs -> Nat]
  BY <1>1
<1>3. Acked(r) = [proxy EXCEPT !.applied = s]
  BY DEF Acked, Proxies
<1>4. s[r.type] = r.version /\ \A u \in TypeURIs \ {r.type} : s[u] = proxy.applied[u]
  BY <1>1
<1> HIDE DEF s
<1> QED
  BY <1>2, <1>3, <1>4 DEF Proxies

(* A version taken over from a reconnecting proxy is one of the request's    *)
(* type.                                                                     *)
LEMMA AdoptType ==
  ASSUME proxy \in Proxies, NEW r \in Requests
  PROVE  /\ AdoptVersion(r) \in Proxies
         /\ AdoptVersion(r).nonce = proxy.nonce /\ AdoptVersion(r).lastSent = proxy.lastSent
         /\ AdoptVersion(r).subscribed = proxy.subscribed
         /\ \A u \in TypeURIs \ {r.type} : AdoptVersion(r).applied[u] = proxy.applied[u]
<1>1. /\ r.type \in TypeURIs /\ r.version \in Nat
      /\ proxy.applied \in [TypeURIs -> Nat] /\ proxy.sent \in [TypeURIs -> Nat]
  BY DEF Requests, Proxies
<1> DEFINE a == [proxy.applied EXCEPT ![r.type] = r.version]
           s == [proxy.sent EXCEPT ![r.type] = r.version]
<1>2. a \in [TypeURIs -> Nat] /\ s \in [TypeURIs -> Nat]
  BY <1>1
<1>3. AdoptVersion(r) = [proxy EXCEPT !.sent = s, !.applied = a]
  BY DEF AdoptVersion, Proxies
<1>4. \A u \in TypeURIs \ {r.type} : a[u] = proxy.applied[u]
  BY <1>1
<1> HIDE DEF a, s
<1> QED
  BY <1>2, <1>3, <1>4 DEF Proxies

(* What respondToRequest records: it leaves nonces, sent resources and other *)
(* types alone, and takes version and names from a request with the latest   *)
(* nonce.                                                                    *)
LEMMA AfterRequestType ==
  ASSUME proxy \in Proxies, NEW r \in Requests
  PROVE  /\ AfterRequest(r) \in Proxies
         /\ AfterRequest(r).nonce = proxy.nonce /\ AfterRequest(r).lastSent = proxy.lastSent
         /\ \A u \in TypeURIs \ {r.type} :
              /\ AfterRequest(r).applied[u] = proxy.applied[u]
              /\ AfterRequest(r).subscribed[u] = proxy.subscribed[u]
         /\ AfterRequest(r).subscribed[r.type] \in {r.names, proxy.subscribed[r.type]}
         /\ ~r.err /\ r.nonce # 0 /\ r.nonce = proxy.nonce[r.type] =>
              /\ AfterRequest(r).applied[r.type] = r.version
              /\ ~IsWildcardTypeURI(r.type) => AfterRequest(r).subscribed[r.type] = r.names
<1>1. CASE r.err
  BY <1>1 DEF AfterRequest
<1>2. CASE ~r.err /\ r.nonce = 0
  BY <1>2, SubscribeType DEF AfterRequest
<1>3. CASE ~r.err /\ r.nonce # 0 /\ proxy.nonce[r.type] = 0
  BY <1>3, SubscribeType, AdoptType, SMT DEF AfterRequest
<1>4. CASE ~r.err /\ r.nonce # 0 /\ proxy.nonce[r.type] # 0
  BY <1>4, SubscribeType, AckedType, SMT DEF AfterRequest, StaleNonce
<1> QED
  BY <1>1, <1>2, <1>3, <1>4

(* The resources of a wildcard type are all of them, those of another are    *)
(* named.                                                                    *)
LEMMA ResourcesType ==
  ASSUME scope \in Scopes, NEW t \in TypeURIs, NEW names \in SUBSET Names
  PROVE  Resources(t, names) \in SUBSET (Names \cup {All}) /\ (IsWildcardTypeURI(t) => Resources(t, names) = {All})
         /\ (~IsWildcardTypeURI(t) => Resources(t, names) \in SUBSET Names)
<1>1. t \in {"CDS", "EDS", "LDS", "RDS", "SDS"}
  BY TypesKnown
<1> QED
  BY <1>1, ADSConstants DEF Resources, IsWildcardTypeURI

(* The job goes on to types it had, with nothing made, or is over. *)
LEMMA NextTypeType ==
  ASSUME job \in Jobs, job.types # <<>>
  PROVE  /\ NextType \in Jobs /\ (NextType.types = <<>> <=> NextType = NoJob)
         /\ NextType.made = -1
         /\ \A t : t \in Range(job.types) => t = Head(job.types) \/ t \in Range(NextType.types)
         /\ Range(NextType.types) \subseteq Range(job.types)
         /\ Head(job.types) \in TypeURIs /\ Head(job.types) \in Range(job.types)
<1>0. NoJob \in Jobs /\ NoJob.types = <<>> /\ NoJob.made = -1
  BY SMT DEF NoJob, Jobs
<1>1. /\ job.types \in Seq(TypeURIs) /\ Len(job.types) \in Nat /\ Len(job.types) > 0
      /\ DOMAIN job.types = 1..Len(job.types)
  BY SMT DEF Jobs
<1>2. Head(job.types) = job.types[1] /\ 1 \in DOMAIN job.types
  BY <1>1, SMT
<1>3. CASE Len(job.types) = 1
  <2>1. Range(job.types) = {Head(job.types)} /\ Range(<<>>) = {}
    BY <1>1, <1>2, <1>3, SMT DEF Range
  <2> QED
    BY <1>0, <1>1, <1>2, <1>3, <2>1, SMT DEF NextType
<1>4. CASE Len(job.types) # 1
  <2>1. /\ Tail(job.types) \in Seq(TypeURIs) /\ Tail(job.types) # <<>>
        /\ DOMAIN Tail(job.types) = 1..(Len(job.types) - 1)
        /\ \A i \in 1..(Len(job.types) - 1) : Tail(job.types)[i] = job.types[i + 1]
    <3> DEFINE s == job.types
    <3>1. s \in Seq(TypeURIs) /\ Len(s) > 0 /\ Len(s) # 1
      BY <1>1, <1>4
    <3> HIDE DEF s
    <3>2. Tail(s) \in Seq(TypeURIs) /\ Len(Tail(s)) = Len(s) - 1 /\ Len(s) \in Nat
      BY <3>1, SMT
    <3>3. Len(Tail(s)) > 0
      BY <3>1, <3>2, SMT
    <3>4. Tail(s) # <<>> /\ DOMAIN Tail(s) = 1..(Len(s) - 1)
      <4> DEFINE u == Tail(s)
      <4>1. u \in Seq(TypeURIs) /\ Len(u) = Len(s) - 1 /\ Len(u) > 0
        BY <3>2, <3>3
      <4> HIDE DEF u
      <4>2. u # <<>> /\ DOMAIN u = 1..Len(u)
        BY <4>1, SMT
      <4> QED
        BY <4>1, <4>2 DEF u
    <3>5. \A i \in 1..(Len(s) - 1) : Tail(s)[i] = s[i + 1]
      BY <3>1, SMT
    <3> QED
      BY <3>2, <3>4, <3>5 DEF s
  <2>2. NextType \in Jobs /\ NextType.types = Tail(job.types) /\ NextType.made = -1
    BY <1>4, <2>1 DEF NextType, Jobs
  <2>3. Range(Tail(job.types)) \subseteq Range(job.types)
    BY <1>1, <2>1, SMT DEF Range
  <2>4. ASSUME NEW t \in Range(job.types), t # Head(job.types) PROVE t \in Range(Tail(job.types))
    <3>1. PICK i \in DOMAIN job.types : t = job.types[i]
      BY DEF Range
    <3>2. i - 1 \in 1..(Len(job.types) - 1) /\ Tail(job.types)[i - 1] = t
      BY <1>1, <1>2, <2>1, <2>4, <3>1, SMT
    <3> QED
      BY <2>1, <3>2 DEF Range
  <2>5. Head(job.types) \in TypeURIs /\ Head(job.types) \in Range(job.types)
    BY <1>1, <1>2, SMT DEF Range
  <2>6. NextType # NoJob /\ NextType.types # <<>>
    BY <1>0, <2>1, <2>2
  <2> QED
    BY <2>2, <2>3, <2>4, <2>5, <2>6
<1> QED
  BY <1>3, <1>4

(* A job for one type. *)
LEMMA OneType ==
  ASSUME NEW t \in TypeURIs
  PROVE  <<t>> \in Seq(TypeURIs) /\ <<t>> # <<>> /\ Range(<<t>>) = {t} /\ Head(<<t>>) = t
BY SMT DEF Range

(* What SendDiscoveryResponse does to the proxy, and what it sends. *)
NowType == Head(job.types)
NewResponse ==
  [type |-> NowType, version |-> proxy.sent[NowType] + 1, nonce |-> nonces + 1,
   names |-> Resources(NowType, job.names), gen |-> job.made]

(* sendResponse: the new nonce and the resources are recorded for the type   *)
(* sent, and the response is the last in the channel.                        *)
LEMMA SendEffect ==
  ASSUME TypeInv, SendDiscoveryResponse
  PROVE  /\ job.types # <<>> /\ NowType \in TypeURIs /\ NewResponse \in Responses
         /\ down' = Append(down, NewResponse)
         /\ proxy' \in Proxies
         /\ proxy'.nonce[NowType] = nonces + 1
         /\ proxy'.lastSent[NowType] = Resources(NowType, job.names) \cap proxy.subscribed[NowType]
         /\ proxy'.lastSent[NowType] \subseteq Resources(NowType, job.names)
         /\ \A u \in TypeURIs \ {NowType} :
              proxy'.nonce[u] = proxy.nonce[u] /\ proxy'.lastSent[u] = proxy.lastSent[u]
         /\ proxy'.applied = proxy.applied /\ proxy'.subscribed = proxy.subscribed
<1> DEFINE t == NowType
           made == Resources(t, job.names)
<1>1. job.types # <<>> /\ job.made # -1 /\ job \in Jobs
  BY SMT DEF SendDiscoveryResponse, TypeInv, NoJob
<1>2. t \in TypeURIs /\ job.made \in Nat /\ job.names \in SUBSET Names
  BY <1>1, NextTypeType DEF NowType, Jobs
<1>3. made \in SUBSET (Names \cup {All})
  BY <1>2, ResourcesType DEF TypeInv
<1>4. /\ proxy.sent \in [TypeURIs -> Nat] /\ proxy.nonce \in [TypeURIs -> Nat]
      /\ proxy.lastSent \in [TypeURIs -> SUBSET Names] /\ proxy.subscribed \in [TypeURIs -> SUBSET Names]
      /\ nonces + 1 \in Nat
  BY SMT DEF TypeInv, Proxies
<1> DEFINE s == [proxy.sent EXCEPT ![t] = @ + 1]
           n == [proxy.nonce EXCEPT ![t] = nonces + 1]
           l == [proxy.lastSent EXCEPT ![t] = made \cap proxy.subscribed[t]]
<1>5. proxy' = [proxy EXCEPT !.sent = s, !.nonce = n, !.lastSent = l]
  BY DEF SendDiscoveryResponse, TrackSubscribed, TypeInv, Proxies, NowType
<1>6. made \cap proxy.subscribed[t] \in SUBSET Names
  BY <1>2, <1>4
<1>7. /\ s \in [TypeURIs -> Nat] /\ n \in [TypeURIs -> Nat] /\ l \in [TypeURIs -> SUBSET Names]
      /\ s[t] = proxy.sent[t] + 1 /\ n[t] = nonces + 1 /\ l[t] = made \cap proxy.subscribed[t]
      /\ \A u \in TypeURIs \ {t} : n[u] = proxy.nonce[u] /\ l[u] = proxy.lastSent[u]
  BY <1>2, <1>4, <1>6, SMT
<1> HIDE DEF s, n, l
<1>8. /\ proxy' \in Proxies /\ proxy'.sent = s /\ proxy'.nonce = n /\ proxy'.lastSent = l
      /\ proxy'.applied = proxy.applied /\ proxy'.subscribed = proxy.subscribed
  BY <1>5, <1>7 DEF TypeInv, Proxies
<1>9. down' = Append(down, NewResponse)
  BY <1>7, <1>8 DEF SendDiscoveryResponse, NewResponse, NowType
<1>10. NewResponse \in Responses
  BY <1>2, <1>3, <1>4, SMT DEF NewResponse, Responses
<1> QED
  BY <1>1, <1>2, <1>7, <1>8, <1>9, <1>10

(* What the steps of the proxy do to it. *)
LEMMA SubscribesEffect ==
  ASSUME TypeInv, NEW t \in TypeURIs, NEW names \in SUBSET Names, EnvoySubscribes(t, names)
  PROVE  /\ envoy' \in Envoys /\ envoy'.types = Append(envoy.types, t)
         /\ envoy'.names[t] = names /\ \A u \in TypeURIs \ {t} : envoy'.names[u] = envoy.names[u]
         /\ envoy'.version = envoy.version /\ envoy'.nonce = envoy.nonce /\ envoy'.has = envoy.has
         /\ \E m : IsRequest(m, envoy', t, 0) /\ ~m.err /\ up' = Append(up, m)
<1>1. envoy.types \in Seq(TypeURIs) /\ envoy.names \in [TypeURIs -> SUBSET Names]
  BY DEF TypeInv, Envoys
<1> DEFINE s == Append(envoy.types, t)
           n == [envoy.names EXCEPT ![t] = names]
<1>2. s \in Seq(TypeURIs) /\ n \in [TypeURIs -> SUBSET Names]
      /\ n[t] = names /\ \A u \in TypeURIs \ {t} : n[u] = envoy.names[u]
  BY <1>1, SMT
<1>3. envoy' = [envoy EXCEPT !.types = s, !.names = n]
  BY DEF EnvoySubscribes, TypeInv, Envoys
<1>4. s = Append(envoy.types, t)
  OBVIOUS
<1> HIDE DEF s, n
<1>5. /\ envoy' \in Envoys /\ envoy'.types = s /\ envoy'.names = n
      /\ envoy'.version = envoy.version /\ envoy'.nonce = envoy.nonce /\ envoy'.has = envoy.has
  BY <1>2, <1>3 DEF TypeInv, Envoys
<1>6. \E m : IsRequest(m, envoy', t, 0) /\ ~m.err /\ up' = Append(up, m)
  <2>1. up' = Append(up, Request(envoy', t, 0, FALSE)) /\ 0 \in Nat
    BY DEF EnvoySubscribes
  <2> QED
    BY <1>5, <2>1, RequestType
<1> QED
  BY <1>2, <1>4, <1>5, <1>6

(* A proxy that wants other names says so under the nonce it has. *)
LEMMA ChangesNamesEffect ==
  ASSUME TypeInv, NEW t \in TypeURIs, NEW names \in SUBSET Names, EnvoyChangesNames(t, names)
  PROVE  /\ envoy' \in Envoys /\ envoy'.types = envoy.types
         /\ envoy'.names[t] = names /\ \A u \in TypeURIs \ {t} : envoy'.names[u] = envoy.names[u]
         /\ envoy'.version = envoy.version /\ envoy'.nonce = envoy.nonce /\ envoy'.has = envoy.has
         /\ \E m : IsRequest(m, envoy', t, envoy.nonce[t]) /\ ~m.err /\ up' = Append(up, m)
<1>1. envoy.names \in [TypeURIs -> SUBSET Names]
  BY DEF TypeInv, Envoys
<1> DEFINE n == [envoy.names EXCEPT ![t] = names]
<1>2. n \in [TypeURIs -> SUBSET Names]
      /\ n[t] = names /\ \A u \in TypeURIs \ {t} : n[u] = envoy.names[u]
  BY <1>1
<1>3. envoy' = [envoy EXCEPT !.names = n]
  BY DEF EnvoyChangesNames, TypeInv, Envoys
<1> HIDE DEF n
<1>4. /\ envoy' \in Envoys /\ envoy'.types = envoy.types /\ envoy'.names = n
      /\ envoy'.version = envoy.version /\ envoy'.nonce = envoy.nonce /\ envoy'.has = envoy.has
  BY <1>2, <1>3 DEF TypeInv, Envoys
<1>5. \E m : IsRequest(m, envoy', t, envoy.nonce[t]) /\ ~m.err /\ up' = Append(up, m)
  <2>1. up' = Append(up, Request(envoy', t, envoy.nonce[t], FALSE))
    BY DEF EnvoyChangesNames
  <2>2. envoy.nonce[t] \in Nat
    BY DEF TypeInv, Envoys
  <2> QED
    BY <1>4, <2>1, <2>2, RequestType
<1> QED
  BY <1>2, <1>4, <1>5

(* An ACK: the proxy has what was sent, and says so under the response's     *)
(* nonce with the names it wants now.                                        *)
LEMMA AcksEffect ==
  ASSUME TypeInv, EnvoyAcks, Subscribed(Head(down).type)
  PROVE  LET r == Head(down) t == r.type
         IN /\ r \in Responses /\ t \in TypeURIs
            /\ envoy' \in Envoys /\ envoy'.types = envoy.types /\ envoy'.names = envoy.names
            /\ envoy'.version[t] = r.version /\ envoy'.nonce[t] = r.nonce
            /\ \A n \in r.names : envoy'.has[t][n] = r.gen
            /\ \A u \in TypeURIs \ {t} :
                 /\ envoy'.version[u] = envoy.version[u] /\ envoy'.nonce[u] = envoy.nonce[u]
                 /\ envoy'.has[u] = envoy.has[u]
            /\ \E m : IsRequest(m, envoy', t, r.nonce) /\ ~m.err /\ up' = Append(up, m)
<1> DEFINE r == Head(down)
           t == r.type
<1>1. down \in Seq(Responses) /\ down # <<>>
  BY DEF TypeInv, EnvoyAcks
<1>2. r \in Responses
  BY <1>1, SMT
<1>3. t \in TypeURIs /\ r.version \in Nat /\ r.nonce \in Nat /\ r.gen \in Nat /\ r.names \in SUBSET (Names \cup {All})
  BY <1>2 DEF Responses
<1>4. /\ envoy.version \in [TypeURIs -> Nat] /\ envoy.nonce \in [TypeURIs -> Nat]
      /\ envoy.has \in [TypeURIs -> [Names \cup {All} -> Nat]]
  BY DEF TypeInv, Envoys
<1> DEFINE v == [envoy.version EXCEPT ![t] = r.version]
           n == [envoy.nonce EXCEPT ![t] = r.nonce]
           got == [m \in Names \cup {All} |-> IF m \in r.names THEN r.gen ELSE envoy.has[t][m]]
           h == [envoy.has EXCEPT ![t] = got]
<1>5. envoy' = [envoy EXCEPT !.version = v, !.nonce = n, !.has = h]
  BY DEF EnvoyAcks, TypeInv, Envoys
<1>6. /\ v \in [TypeURIs -> Nat] /\ v[t] = r.version /\ \A u \in TypeURIs \ {t} : v[u] = envoy.version[u]
      /\ n \in [TypeURIs -> Nat] /\ n[t] = r.nonce /\ \A u \in TypeURIs \ {t} : n[u] = envoy.nonce[u]
  BY <1>3, <1>4
<1>7. got \in [Names \cup {All} -> Nat] /\ \A m \in r.names : got[m] = r.gen
  BY <1>3, <1>4
<1> HIDE DEF got
<1>8. /\ h \in [TypeURIs -> [Names \cup {All} -> Nat]] /\ h[t] = got
      /\ \A u \in TypeURIs \ {t} : h[u] = envoy.has[u]
  BY <1>3, <1>4, <1>7
<1> HIDE DEF v, n, h
<1>9. /\ envoy' \in Envoys /\ envoy'.version = v /\ envoy'.nonce = n /\ envoy'.has = h
      /\ envoy'.types = envoy.types /\ envoy'.names = envoy.names
  BY <1>5, <1>6, <1>8 DEF TypeInv, Envoys
<1>10. \E m : IsRequest(m, envoy', t, r.nonce) /\ ~m.err /\ up' = Append(up, m)
  <2>1. up' = Append(up, Request(envoy', t, r.nonce, FALSE))
    BY DEF EnvoyAcks
  <2> QED
    BY <1>3, <1>9, <2>1, RequestType
<1> QED
  BY <1>2, <1>3, <1>6, <1>7, <1>8, <1>9, <1>10

(* A NACK: the proxy keeps what it has and takes the nonce. *)
LEMMA NacksEffect ==
  ASSUME TypeInv, EnvoyNacks
  PROVE  LET r == Head(down) t == r.type
         IN /\ r \in Responses /\ t \in TypeURIs
            /\ envoy' \in Envoys /\ envoy'.types = envoy.types /\ envoy'.names = envoy.names
            /\ envoy'.version = envoy.version /\ envoy'.has = envoy.has
            /\ envoy'.nonce[t] = r.nonce /\ \A u \in TypeURIs \ {t} : envoy'.nonce[u] = envoy.nonce[u]
            /\ \E m : IsRequest(m, envoy', t, r.nonce) /\ up' = Append(up, m)
<1> DEFINE r == Head(down)
           t == r.type
<1>1. down \in Seq(Responses) /\ down # <<>>
  BY DEF TypeInv, EnvoyNacks
<1>2. r \in Responses
  BY <1>1, SMT
<1>3. t \in TypeURIs /\ r.nonce \in Nat /\ envoy.nonce \in [TypeURIs -> Nat]
  BY <1>2 DEF Responses, TypeInv, Envoys
<1> DEFINE n == [envoy.nonce EXCEPT ![t] = r.nonce]
<1>4. envoy' = [envoy EXCEPT !.nonce = n]
  BY DEF EnvoyNacks, TypeInv, Envoys
<1>5. n \in [TypeURIs -> Nat] /\ n[t] = r.nonce /\ \A u \in TypeURIs \ {t} : n[u] = envoy.nonce[u]
  BY <1>3
<1> HIDE DEF n
<1>6. /\ envoy' \in Envoys /\ envoy'.types = envoy.types /\ envoy'.names = envoy.names
      /\ envoy'.version = envoy.version /\ envoy'.has = envoy.has /\ envoy'.nonce = n
  BY <1>4, <1>5 DEF TypeInv, Envoys
<1>7. \E m : IsRequest(m, envoy', t, r.nonce) /\ up' = Append(up, m)
  <2>1. up' = Append(up, Request(envoy', t, r.nonce, TRUE))
    BY DEF EnvoyNacks
  <2> QED
    BY <1>3, <1>6, <2>1, RequestType
<1> QED
  BY <1>2, <1>3, <1>5, <1>6, <1>7

(* A reconnection: the server knows nothing, and the proxy asks for all its  *)
(* types again, in order, with its versions and with or without its nonces.  *)
LEMMA ReconnectEffect ==
  ASSUME TypeInv, NEW k \in BOOLEAN, Reconnect(k)
  PROVE  /\ NewProxy \in Proxies /\ proxy' = NewProxy
         /\ \A u \in TypeURIs : NewProxy.nonce[u] = 0 /\ NewProxy.subscribed[u] = {}
         /\ envoy' \in Envoys /\ envoy'.types = envoy.types /\ envoy'.names = envoy.names
         /\ envoy'.version = envoy.version /\ envoy'.has = envoy.has
         /\ \A u \in TypeURIs : envoy'.nonce[u] \in {0, envoy.nonce[u]}
         /\ up' \in Seq(Requests) /\ DOMAIN up' = DOMAIN envoy.types /\ (envoy.types # <<>> => up' # <<>> /\ 1 \in DOMAIN up')
         /\ \A i \in DOMAIN up' :
              /\ up'[i].type = envoy.types[i] /\ up'[i].type \in TypeURIs
              /\ up'[i].names = envoy.names[up'[i].type]
              /\ up'[i].version = envoy.version[up'[i].type]
              /\ up'[i].nonce = envoy'.nonce[up'[i].type] /\ ~up'[i].err
<1> DEFINE nonce == IF k THEN envoy.nonce ELSE [t \in TypeURIs |-> 0]
           ask(t) == Request(envoy, t, nonce[t], FALSE)
<1>1. NewProxy \in Proxies /\ \A u \in TypeURIs : NewProxy.nonce[u] = 0 /\ NewProxy.subscribed[u] = {}
  BY DEF NewProxy, Proxies
<1>2. envoy \in Envoys /\ envoy.nonce \in [TypeURIs -> Nat] /\ envoy.types \in Seq(TypeURIs)
  BY DEF TypeInv, Envoys
<1>3. nonce \in [TypeURIs -> Nat] /\ \A u \in TypeURIs : nonce[u] \in {0, envoy.nonce[u]}
  BY <1>2
<1>4. /\ envoy' = [envoy EXCEPT !.nonce = nonce]
      /\ up' = [i \in DOMAIN envoy.types |-> ask(envoy.types[i])] /\ proxy' = NewProxy
  BY DEF Reconnect
<1> HIDE DEF nonce
<1>5. /\ envoy' \in Envoys /\ envoy'.types = envoy.types /\ envoy'.names = envoy.names
      /\ envoy'.version = envoy.version /\ envoy'.has = envoy.has /\ envoy'.nonce = nonce
  BY <1>2, <1>3, <1>4 DEF Envoys
<1>6. \A t \in TypeURIs :
        /\ ask(t) \in Requests /\ ask(t).type = t /\ ask(t).nonce = nonce[t] /\ ~ask(t).err
        /\ ask(t).names = envoy.names[t] /\ ask(t).version = envoy.version[t]
  <2>1. \A t \in TypeURIs : nonce[t] \in Nat
    BY <1>3
  <2>2. ASSUME NEW t \in TypeURIs PROVE IsRequest(ask(t), envoy, t, nonce[t]) /\ ~ask(t).err
    BY <1>2, <2>1, <2>2, RequestType
  <2> HIDE DEF ask
  <2> QED
    BY <2>2 DEF IsRequest
<1>7. \A i \in DOMAIN envoy.types : envoy.types[i] \in TypeURIs
  BY <1>2, SMT
<1> HIDE DEF ask
<1>8. up' \in Seq(Requests) /\ DOMAIN up' = DOMAIN envoy.types
  <2>1. up' \in [1..Len(envoy.types) -> Requests] /\ Len(envoy.types) \in Nat
    BY <1>2, <1>4, <1>6, <1>7, SMT
  <2> QED
    BY <1>2, <2>1, SMT
<1>9. envoy.types # <<>> => 1 \in DOMAIN envoy.types
  BY <1>2, SMT
<1>10. envoy.types # <<>> => up' # <<>>
  BY <1>8, <1>9, SMT
<1> QED
  BY <1>1, <1>3, <1>4, <1>5, <1>6, <1>7, <1>8, <1>9, <1>10, SMT

(* Type correctness of the stream, its proxy and the channels. *)
LEMMA TypeInvariant == Spec => []TypeInv
<1>1. Init => TypeInv
  <2> SUFFICES ASSUME Init PROVE TypeInv
    OBVIOUS
  <2>1. NewProxy \in Proxies
    BY DEF NewProxy, Proxies
  <2>2. NoJob \in Jobs /\ NoJob.types = <<>>
    BY SMT DEF NoJob, Jobs
  <2>3. envoy \in Envoys
    BY SMT DEF Init, Envoys
  <2> QED
    BY <2>1, <2>2, <2>3, SMT DEF Init, TypeInv
<1>2. TypeInv /\ [Next]_vars => TypeInv'
  <2> SUFFICES ASSUME TypeInv, [Next]_vars PROVE TypeInv'
    OBVIOUS
  (* The jobs a request and an update make. *)
  <2>j. ASSUME NEW s \in Seq(TypeURIs), s # <<>>, NEW names \in SUBSET Names, NEW j,
               \/ j = [NoJob EXCEPT !.types = s, !.names = names]
               \/ j = [NoJob EXCEPT !.types = s, !.driven = TRUE]
        PROVE  j \in Jobs /\ j.types = s /\ j.made = -1 /\ j # NoJob
    <3> USE <2>j
    <3>1. CASE j = [NoJob EXCEPT !.types = s, !.names = names]
      <4>1. j = [types |-> s, names |-> names, driven |-> FALSE, made |-> -1]
        BY <3>1 DEF NoJob
      <4> QED
        BY <4>1 DEF Jobs, NoJob
    <3>2. CASE j = [NoJob EXCEPT !.types = s, !.driven = TRUE]
      <4>1. j = [types |-> s, names |-> {}, driven |-> TRUE, made |-> -1]
        BY <3>2 DEF NoJob
      <4> QED
        BY <4>1 DEF Jobs, NoJob
    <3> QED
      BY <3>1, <3>2
  <2>0. /\ scope' = scope
        /\ Requests' = Requests /\ Responses' = Responses /\ Proxies' = Proxies
        /\ Envoys' = Envoys /\ Jobs' = Jobs
    <3>1. scope' = scope
      BY DEF Next, vars, Change, Publish, ServerStep, HandleRequest, HandleProxyUpdate,
             HandleCertRotation, GenerateResources, SendDiscoveryResponse, GenerateFails,
             EnvoySubscribes, EnvoyChangesNames, EnvoyAcks, EnvoyNacks, Reconnect
    <3> QED
      BY <3>1 DEF TypeURIs, Requests, Responses, Proxies, Envoys, Jobs
  <2>1. ASSUME NEW s \in Sources, Change(s) \/ Publish(s) PROVE TypeInv'
    <3>1. gen' \in [Sources -> Nat] /\ unpublished' \subseteq Sources /\ chan' \in [Sources -> Nat]
      <4>1. gen \in [Sources -> Nat] /\ chan \in [Sources -> Nat] /\ unpublished \subseteq Sources
        BY DEF TypeInv
      <4>2. CASE Change(s)
        BY <4>1, <4>2, SMT DEF Change
      <4>3. CASE Publish(s)
        BY <4>1, <4>3, SMT DEF Publish
      <4> QED
        BY <2>1, <4>2, <4>3
    <3>2. UNCHANGED <<proxy, nonces, job, up, down, envoy, reconnects, failures>>
      BY <2>1 DEF Change, Publish, serverVars, proxyVars
    <3> QED
      BY <2>0, <3>1, <3>2 DEF TypeInv, NoJob
  <2>2. CASE HandleRequest
    <3>1. up \in Seq(Requests) /\ up # <<>> /\ proxy \in Proxies
      BY <2>2 DEF HandleRequest, TypeInv
    <3>2. Head(up) \in Requests /\ Tail(up) \in Seq(Requests)
      BY <3>1, SMT
    <3>3. AfterRequest(Head(up)) \in Proxies
      BY <3>1, <3>2, AfterRequestType
    <3>4. job' \in Jobs /\ (job'.types = <<>> <=> job' = NoJob)
      <4>1. Head(up).type \in TypeURIs /\ Head(up).names \in SUBSET Names
        BY <3>2 DEF Requests
      <4>2. CASE job' = NoJob
        BY <4>2, SMT DEF NoJob, Jobs
      <4>3. CASE job' = [NoJob EXCEPT !.types = <<Head(up).type>>, !.names = Head(up).names]
        <5>1. <<Head(up).type>> \in Seq(TypeURIs) /\ <<Head(up).type>> # <<>>
          BY <4>1, OneType
        <5>2. job' \in Jobs /\ job'.types # <<>> /\ job' # NoJob
          <6> DEFINE s == <<Head(up).type>>
                     names == Head(up).names
                     j == job'
          <6>1. s \in Seq(TypeURIs) /\ s # <<>> /\ names \in SUBSET Names
            BY <4>1, <5>1
          <6>2. j = [NoJob EXCEPT !.types = s, !.names = names]
            BY <4>3
          <6> HIDE DEF s, names, j
          <6>3. j \in Jobs /\ j.types = s /\ j # NoJob
            BY <6>1, <6>2, <2>j
          <6> QED
            BY <6>1, <6>3 DEF j
        <5> QED
          BY <5>2
      <4> QED
        BY <2>2, <4>2, <4>3 DEF HandleRequest
    <3> QED
      BY <2>0, <2>2, <3>2, <3>3, <3>4 DEF TypeInv, HandleRequest, sourceVars, proxyVars, NoJob
  <2>3. CASE HandleProxyUpdate \/ HandleCertRotation
    <3>1. job' \in Jobs /\ (job'.types = <<>> <=> job' = NoJob)
      <4>1. CASE job' = NoJob
        BY <4>1, SMT DEF NoJob, Jobs
      <4>2. CASE ShouldPushUpdate /\ job' = [NoJob EXCEPT !.types = PushOrder, !.driven = TRUE]
        <5>1. PushOrder \in Seq(TypeURIs) /\ Range(PushOrder) = {t \in TypeURIs : Source(t) = "mesh"}
          BY PushesAll DEF TypeInv
        <5>2. Range(PushOrder) # {}
          BY <4>2, <5>1 DEF ShouldPushUpdate, IsWildcardTypeURI, Source
        <5>3. PushOrder # <<>>
          BY <5>2, SMT DEF Range
        <5> QED
          BY <4>2, <5>1, <5>3, <2>j
      <4>3. CASE "SDS" \in TypeURIs /\ job' = [NoJob EXCEPT !.types = <<"SDS">>, !.driven = TRUE]
        <5>1. <<"SDS">> \in Seq(TypeURIs) /\ <<"SDS">> # <<>>
          BY <4>3, OneType
        <5> QED
          BY <4>3, <5>1, <2>j
      <4> QED
        BY <2>3, <4>1, <4>2, <4>3 DEF HandleProxyUpdate, HandleCertRotation
    <3>2. chan' \in [Sources -> Nat]
      <4>1. chan \in [Sources -> Nat] /\ "mesh" \in Sources /\ "cert" \in Sources
        BY DEF TypeInv, Sources
      <4>2. CASE HandleProxyUpdate
        BY <4>1, <4>2, SMT DEF HandleProxyUpdate
      <4>3. CASE HandleCertRotation
        BY <4>1, <4>3, SMT DEF HandleCertRotation
      <4> QED
        BY <2>3, <4>2, <4>3
    <3> QED
      BY <2>0, <2>3, <3>1, <3>2
      DEF TypeInv, HandleProxyUpdate, HandleCertRotation, proxyVars, NoJob
  <2>4. CASE GenerateResources
    <3>1. job.types # <<>> /\ job \in Jobs
      BY <2>4 DEF GenerateResources, TypeInv
    <3>2. Head(job.types) \in TypeURIs
      BY <3>1, NextTypeType
    <3>3. gen[Source(Head(job.types))] \in Nat
      BY DEF TypeInv, Source, Sources
    <3>4. proxy.subscribed[Head(job.types)] \in SUBSET Names /\ job.names \in SUBSET Names
      BY <3>1, <3>2 DEF TypeInv, Proxies, Jobs
    <3>5. job' \in Jobs /\ job'.types = job.types
      BY <2>4, <3>1, <3>3, <3>4 DEF GenerateResources, Jobs
    <3>6. NoJob.types = <<>>
      BY DEF NoJob
    <3> QED
      BY <2>0, <2>4, <3>1, <3>5, <3>6 DEF TypeInv, GenerateResources, sourceVars, proxyVars, NoJob
  <2>5. CASE GenerateFails
    <3>1. NextType \in Jobs /\ (NextType.types = <<>> <=> NextType = NoJob)
      BY <2>5, NextTypeType DEF GenerateFails, TypeInv
    <3> QED
      BY <2>0, <2>5, <3>1, SMT DEF TypeInv, GenerateFails, sourceVars, proxyVars, NoJob
  <2>6. CASE SendDiscoveryResponse
    <3>1. /\ job.types # <<>> /\ NewResponse \in Responses /\ proxy' \in Proxies
          /\ down' = Append(down, NewResponse)
      BY <2>6, SendEffect
    <3>2. NextType \in Jobs /\ (NextType.types = <<>> <=> NextType = NoJob)
      BY <3>1, NextTypeType DEF TypeInv
    <3>3. down' \in Seq(Responses)
      BY <3>1, SMT DEF TypeInv
    <3>4. nonces' \in Nat /\ job' = NextType /\ UNCHANGED <<gen, unpublished, chan, up, envoy, reconnects, failures>>
      BY <2>6, SMT DEF SendDiscoveryResponse, TypeInv, sourceVars, proxyVars
    <3> QED
      BY <2>0, <3>1, <3>2, <3>3, <3>4 DEF TypeInv, NoJob
  <2>7. ASSUME NEW t \in TypeURIs, NEW names \in SUBSET Names,
               EnvoySubscribes(t, names) \/ EnvoyChangesNames(t, names)
        PROVE  TypeInv'
    <3>1. envoy' \in Envoys
      BY <2>7, SubscribesEffect, ChangesNamesEffect
    <3>2. PICK m \in Requests : up' = Append(up, m)
      BY <2>7, SubscribesEffect, ChangesNamesEffect DEF IsRequest
    <3>3. up' \in Seq(Requests)
      BY <3>2, SMT DEF TypeInv
    <3> QED
      BY <2>0, <2>7, <3>1, <3>3
      DEF TypeInv, EnvoySubscribes, EnvoyChangesNames, sourceVars, serverVars, NoJob
  <2>8. CASE EnvoyAcks \/ EnvoyNacks
    <3>1. down \in Seq(Responses) /\ down # <<>>
      BY <2>8 DEF EnvoyAcks, EnvoyNacks, TypeInv
    <3>2. down' \in Seq(Responses) /\ Head(down) \in Responses
      <4>1. down' = Tail(down)
        BY <2>8 DEF EnvoyAcks, EnvoyNacks
      <4> QED
        BY <3>1, <4>1, SMT
    <3>3. Head(down).nonce \in Nat /\ Head(down).type \in TypeURIs
      BY <3>2 DEF Responses
    <3>4. envoy' \in Envoys /\ up' \in Seq(Requests)
      <4>1. CASE UNCHANGED <<envoy, up>>
        BY <4>1 DEF TypeInv
      <4>2. CASE EnvoyAcks /\ Subscribed(Head(down).type)
        <5>1. envoy' \in Envoys
          BY <4>2, AcksEffect
        <5>2. PICK m \in Requests : up' = Append(up, m)
          BY <4>2, AcksEffect DEF IsRequest
        <5> QED
          BY <5>1, <5>2, SMT DEF TypeInv
      <4>3. CASE EnvoyNacks
        <5>1. envoy' \in Envoys
          BY <4>3, NacksEffect
        <5>2. PICK m \in Requests : up' = Append(up, m)
          BY <4>3, NacksEffect DEF IsRequest
        <5> QED
          BY <5>1, <5>2, SMT DEF TypeInv
      <4> QED
        BY <2>8, <4>1, <4>2, <4>3 DEF EnvoyAcks
    <3> QED
      BY <2>0, <2>8, <3>2, <3>4 DEF TypeInv, EnvoyAcks, EnvoyNacks, sourceVars, serverVars, NoJob
  <2>9. ASSUME NEW k \in BOOLEAN, Reconnect(k) PROVE TypeInv'
    <3>1. proxy' \in Proxies /\ envoy' \in Envoys /\ up' \in Seq(Requests)
      BY <2>9, ReconnectEffect
    <3>2. NoJob \in Jobs /\ NoJob.types = <<>> /\ NoJob' = NoJob
      BY SMT DEF NoJob, Jobs
    <3>3. /\ job' = NoJob /\ down' = <<>> /\ chan' = [s \in Sources |-> 0] /\ reconnects' = reconnects + 1
          /\ UNCHANGED <<gen, unpublished, nonces, failures>>
      BY <2>9 DEF Reconnect
    <3> QED
      BY <2>0, <3>1, <3>2, <3>3, SMT DEF TypeInv
  <2>10. CASE UNCHANGED vars
    BY <2>0, <2>10 DEF TypeInv, vars, sourceVars, serverVars, proxyVars, NoJob
  <2> QED
    BY <2>1, <2>2, <2>3, <2>4, <2>5, <2>6, <2>7, <2>8, <2>9, <2>10 DEF Next, ServerStep
<1> QED
  BY <1>1, <1>2, PTL DEF Spec
-----------------------------------------------------------------------------
(* A step that type t does not see: its messages, and what the server and    *)
(* the proxy remember of it, are the same.                                   *)
SameQueue(q, r, t) == SeesNoMore(q, r, t) /\ (None(r, t) <=> None(q, t))

SameProxy(t) ==
  /\ proxy'.nonce[t] = proxy.nonce[t] /\ proxy'.lastSent[t] = proxy.lastSent[t]
  /\ proxy'.subscribed[t] = proxy.subscribed[t] /\ proxy'.applied[t] = proxy.applied[t]

SameEnvoy(t) ==
  /\ envoy'.names[t] = envoy.names[t] /\ envoy'.version[t] = envoy.version[t]
  /\ envoy'.nonce[t] = envoy.nonce[t] /\ envoy'.has[t] = envoy.has[t]
  /\ Subscribed(t)' <=> Subscribed(t)
  /\ t \in rejected' <=> t \in rejected

(* A job or a failure that it waits for goes on or becomes a failure; else   *)
(* what was current is current, unless nothing has been sent.                *)
SameWork(t) ==
  /\ InJob(t) \/ t \in failed => InJob(t)' \/ t \in failed'
  /\ ~InJob(t)' /\ t \notin failed' /\ proxy.nonce[t] # 0 =>
       \A g \in Nat : Current(g, t) => Current(g, t)'

(* Without a job there is no type in the making. *)
LEMMA NothingToDo ==
  ASSUME job = NoJob
  PROVE  job.types = <<>> /\ job.made = -1 /\ \A t : ~InJob(t)
BY SMT DEF NoJob, InJob, Range

(* Every step keeps the invariant of the stream, unless the stream fails     *)
(* after a reconnection.                                                     *)
LEMMA StreamStep ==
  ASSUME TypeInv, StreamInv, NotBoth', [Next]_vars
  PROVE  StreamInv'
(* A channel that did not change is the same for every type. *)
<1>SameItself. \A q, t : SameQueue(q, q, t)
  BY DEF SameQueue, SeesNoMore
(* A step of which a type sees nothing, neither in its messages, nor in what *)
(* server and proxy record, nor in the work that is due, keeps what is said  *)
(* of it.                                                                    *)
<1>Unseen. ASSUME TypeInv, FirstIsWildcard, NEW t \in TypeURIs, TypeServed(t),
                  SameQueue(up, up', t), SameQueue(down, down', t), SameProxy(t), SameEnvoy(t), SameWork(t)
           PROVE  TypeServed(t)'
  <2> USE <1>Unseen
  <2>1. LastRequestIsTrue(t)'
    <3> SUFFICES ASSUME NEW i \in DOMAIN up', IsLast(up', i, t)
                 PROVE  /\ up'[i].names = envoy'.names[t] /\ up'[i].version = envoy'.version[t]
                        /\ up'[i].nonce = envoy'.nonce[t]
                        /\ up'[i].err => t \in rejected'
      BY DEF LastRequestIsTrue
    <3>1. PICK j \in DOMAIN up : IsLast(up, j, t) /\ up[j] = up'[i]
      BY DEF SameQueue, SeesNoMore
    <3> QED
      BY <3>1 DEF TypeServed, LastRequestIsTrue, SameEnvoy
  <2>2. LastResponseIsCurrent(t)'
    <3> SUFFICES ASSUME NEW i \in DOMAIN down', IsLast(down', i, t)
                 PROVE  /\ down'[i].nonce = proxy'.nonce[t] /\ Sent(t)' \subseteq down'[i].names
                        /\ ~InJob(t)' /\ t \notin failed' => Current(down[i].gen, t)'
      BY DEF LastResponseIsCurrent
    <3>1. PICK j \in DOMAIN down : IsLast(down, j, t) /\ down[j] = down'[i]
      BY DEF SameQueue, SeesNoMore
    <3>2. proxy.nonce[t] # 0 /\ down[j] \in Responses
      BY <3>1, SMTT(30) DEF FirstIsWildcard, IsLast, TypeInv
    <3>3. down[j].gen \in Nat
      BY <3>2 DEF Responses
    <3>4. Sent(t)' = Sent(t)
      BY DEF Sent, SameProxy
    <3>5. PICK g \in Nat : g = down[j].gen /\ g = down'[i].gen
      BY <3>1, <3>3
    <3>6. ASSUME ~InJob(t)', t \notin failed' PROVE Current(down[i].gen, t)'
      <4>1. Current(g, t)
        <5>1. ~InJob(t) /\ t \notin failed
          BY <3>6 DEF SameWork
        <5> QED
          BY <3>1, <3>5, <5>1 DEF TypeServed, LastResponseIsCurrent
      <4>2. Current(g, t)'
        BY <3>2, <3>6, <4>1 DEF SameWork
      <4> QED
        BY <3>5, <4>2 DEF Current
    <3>7. down'[i].nonce = proxy'.nonce[t] /\ Sent(t)' \subseteq down'[i].names
      BY <3>1, <3>4 DEF TypeServed, LastResponseIsCurrent, SameProxy
    <3> QED
      BY <3>6, <3>7
  <2>3. Unasked(t)' /\ NoNames(t)'
    BY ZenonT(30) DEF TypeServed, Unasked, NoNames, SameQueue, SeesNoMore, SameEnvoy, SameProxy
  <2>4. NonceIsKnown(t)'
    BY DEF TypeServed, NonceIsKnown, SameQueue, SameEnvoy, SameProxy
  <2>5. AtRest(t)' => AtRest(t)
    BY DEF AtRest, SameQueue, SameEnvoy, SameWork
  <2>6. Agreed(t)'
    BY <2>5 DEF TypeServed, Agreed, SameQueue, SameEnvoy, SameProxy
  <2>7. Served(t)'
    <3> SUFFICES ASSUME AtRest(t)', proxy'.nonce[t] # 0, envoy'.nonce[t] = proxy'.nonce[t],
                        NEW n \in Sent(t)'
                 PROVE  Current(envoy.has[t][n], t)'
      BY DEF Served
    <3>1. AtRest(t) /\ n \in Sent(t) /\ envoy'.has[t][n] = envoy.has[t][n]
          /\ proxy.nonce[t] # 0 /\ envoy.nonce[t] = proxy.nonce[t]
      BY <2>5 DEF Sent, SameProxy, SameEnvoy
    <3>2. Current(envoy.has[t][n], t)
      BY <3>1 DEF TypeServed, Served
    <3>3. envoy.has[t][n] \in Nat
      <4>1. Sent(t) \subseteq Names \cup {All}
        BY DEF Sent, TypeInv, Proxies
      <4> QED
        BY <3>1, <4>1 DEF TypeInv, Envoys
    <3>4. ~InJob(t)' /\ t \notin failed'
      BY DEF AtRest
    <3> QED
      BY <3>1, <3>2, <3>3, <3>4 DEF SameWork
  <2> QED
    BY <2>1, <2>2, <2>3, <2>4, <2>6, <2>7 DEF TypeServed
(* A step that leaves queues, server and proxy alone for type t. *)
<1>Untouched. ASSUME TypeInv, FirstIsWildcard, NEW t \in TypeURIs, TypeServed(t),
                     UNCHANGED <<up, down, proxy, envoy, rejected>>, SameWork(t)
              PROVE  TypeServed(t)'
  <2> USE <1>Untouched
  <2>1. SameQueue(up, up', t) /\ SameQueue(down, down', t)
    BY <1>SameItself
  <2>2. SameProxy(t) /\ SameEnvoy(t)
    BY DEF SameProxy, SameEnvoy, Subscribed
  <2> QED
    BY <2>1, <2>2, <1>Unseen
(* What is current stays so while no source changes and no update moves. *)
<1>SameSources. ASSUME UNCHANGED <<gen, unpublished, chan>>, NEW t
                PROVE  \A g : Current(g, t)' <=> Current(g, t)
  BY <1>SameSources DEF Current, SourcePending
(* What the proxy says once more does not change who is first. *)
<1>FirstStays. ASSUME TypeInv, FirstIsWildcard, UNCHANGED <<scope, proxy, job, reconnects>>,
                      envoy'.types = envoy.types,
                      up # <<>> => up' # <<>> /\ up'[1] = up[1],
                      \A i \in DOMAIN down' : \E j \in DOMAIN down : down[j] = down'[i],
                      ~ShouldPushUpdate =>
                        \A w \in TypeURIs : IsWildcardTypeURI(w) => envoy'.has[w] = envoy.has[w]
               PROVE  FirstIsWildcard'
  <2> USE <1>FirstStays
  <2>1. \A i \in DOMAIN down' : proxy'.nonce[down'[i].type] # 0
    BY DEF FirstIsWildcard
  <2>2. ShouldPushUpdate' <=> ShouldPushUpdate
    BY DEF ShouldPushUpdate, TypeURIs
  <2> QED
    BY <2>1, <2>2, ZenonT(30) DEF FirstIsWildcard, Subscribed, TypeURIs
(* A type the proxy says nothing of. *)
<1>SilentType. ASSUME TypeInv, StreamInv, NEW m \in Requests, up' = Append(up, m),
                      NEW u \in TypeURIs, m.type # u, SameQueue(down, down', u), SameEnvoy(u),
                      UNCHANGED <<proxy, job, failed, gen, unpublished, chan>>
               PROVE  TypeServed(u)'
  <2> USE <1>SilentType
  <2>1. SameQueue(up, up', u)
    BY QueueAppend DEF SameQueue, TypeInv
  <2>2. SameProxy(u) /\ SameWork(u)
    BY <1>SameSources DEF SameProxy, SameWork, InJob
  <2> QED
    BY <2>1, <2>2, <1>Unseen DEF StreamInv
(* A job that no step touches stays current. *)
<1>SameJob. ASSUME UNCHANGED <<job, gen, unpublished, chan>>, JobIsCurrent
            PROVE  JobIsCurrent'
  BY <1>SameJob DEF JobIsCurrent, Current, SourcePending
(* A request that is sent is the last of its type. *)
<1>LastSaid. ASSUME up \in Seq(Requests), NEW m \in Requests, NEW t, m.type = t, up' = Append(up, m)
             PROVE  /\ ~None(up', t) /\ \A i \in DOMAIN up' : IsLast(up', i, t) => up'[i] = m
                    /\ \A i \in DOMAIN up' : up'[i] = m \/ \E j \in DOMAIN up : up[j] = up'[i]
                    /\ up' # <<>> /\ (up # <<>> => up'[1] = up[1]) /\ (up = <<>> => up'[1] = m)
  BY <1>LastSaid, QueueAppend, SMT
(* The proxy names nothing when it asks for a wildcard type. *)
<1>StillNoNames. ASSUME NEW t, NoNames(t), NEW m, m.names = envoy'.names[t],
                        proxy'.subscribed[t] = proxy.subscribed[t],
                        IsWildcardTypeURI(t) => envoy'.names[t] = {},
                        \A i \in DOMAIN up' : up'[i] = m \/ \E j \in DOMAIN up : up[j] = up'[i]
                 PROVE  NoNames(t)'
  <2> USE <1>StillNoNames
  <2> SUFFICES ASSUME IsWildcardTypeURI(t)
               PROVE  /\ envoy'.names[t] = {} /\ proxy'.subscribed[t] = {}
                      /\ \A i \in DOMAIN up' : up'[i].type = t => up'[i].names = {}
    BY DEF NoNames
  <2>1. proxy.subscribed[t] = {} /\ \A j \in DOMAIN up : up[j].type = t => up[j].names = {}
    BY DEF NoNames
  <2>2. ASSUME NEW i \in DOMAIN up', up'[i].type = t PROVE up'[i].names = {}
    BY <2>1, <2>2
  <2> QED
    BY <2>1, <2>2
(* The proxy says something of a type it subscribes to. *)
<1>Says. ASSUME TypeInv, NEW t \in TypeURIs, TypeServed(t), NEW m,
                IsRequest(m, envoy', t, envoy'.nonce[t]), up' = Append(up, m),
                m.err => t \in rejected', Subscribed(t)', proxy' = proxy,
                IsWildcardTypeURI(t) => envoy'.names[t] = envoy.names[t]
         PROVE  /\ LastRequestIsTrue(t)' /\ Unasked(t)' /\ NoNames(t)' /\ Agreed(t)'
                /\ m \in Requests /\ m.type = t /\ (up # <<>> => up' # <<>> /\ up'[1] = up[1])
  <2> USE <1>Says
  <2>1. /\ m \in Requests /\ m.type = t /\ m.nonce = envoy'.nonce[t]
        /\ m.names = envoy'.names[t] /\ m.version = envoy'.version[t]
    BY DEF IsRequest
  <2>2. /\ ~None(up', t) /\ \A i \in DOMAIN up' : IsLast(up', i, t) => up'[i] = m
        /\ \A i \in DOMAIN up' : up'[i] = m \/ \E j \in DOMAIN up : up[j] = up'[i]
        /\ up' # <<>> /\ (up # <<>> => up'[1] = up[1])
    <3>1. up \in Seq(Requests)
      BY DEF TypeInv
    <3> QED
      BY <2>1, <3>1, <1>LastSaid
  <2>3. LastRequestIsTrue(t)'
    BY <2>1, <2>2 DEF LastRequestIsTrue
  <2>4. NoNames(t)'
    <3>1. NoNames(t) /\ (IsWildcardTypeURI(t) => envoy'.names[t] = {})
      BY DEF TypeServed, NoNames
    <3> QED
      BY <2>1, <2>2, <3>1, <1>StillNoNames
  <2>5. Unasked(t)' /\ Agreed(t)'
    BY <2>2 DEF Unasked, Agreed
  <2> QED
    BY <2>1, <2>2, <2>3, <2>4, <2>5
(* What the proxy has still to read is as current as it was. *)
<1>StillToRead. ASSUME NEW t, LastResponseIsCurrent(t), SeesNoMore(down, down', t),
                       UNCHANGED <<proxy, job, failed, gen, unpublished, chan>>
                PROVE  LastResponseIsCurrent(t)'
  <2> USE <1>StillToRead
  <2> SUFFICES ASSUME NEW i \in DOMAIN down', IsLast(down', i, t)
               PROVE  /\ down'[i].nonce = proxy'.nonce[t] /\ Sent(t)' \subseteq down'[i].names
                      /\ ~InJob(t)' /\ t \notin failed' => Current(down[i].gen, t)'
    BY DEF LastResponseIsCurrent
  <2>1. PICK j \in DOMAIN down : IsLast(down, j, t) /\ down[j] = down'[i]
    BY DEF SeesNoMore
  <2>2. /\ down[j].nonce = proxy.nonce[t] /\ Sent(t) \subseteq down[j].names
        /\ ~InJob(t) /\ t \notin failed => Current(down[j].gen, t)
    BY <2>1 DEF LastResponseIsCurrent
  <2>3. Sent(t)' = Sent(t) /\ (InJob(t)' <=> InJob(t))
    BY DEF Sent, InJob
  <2>4. Current(down[j].gen, t) => Current(down[i].gen, t)'
    BY <2>1 DEF Current, SourcePending
  <2> QED
    BY <2>1, <2>2, <2>3, <2>4
(* The proxy reads a response, for the types it is not about, and the first. *)
<1>Reads. ASSUME TypeInv, FirstIsWildcard, down # <<>>, down' = Tail(down)
          PROVE  \E r \in Responses, t \in TypeURIs :
                   /\ r = Head(down) /\ t = r.type /\ proxy.nonce[t] # 0
                   /\ \A u : SeesNoMore(down, down', u)
                   /\ \A u : t # u => SameQueue(down, down', u)
                   /\ r = down[1] /\ 1 \in DOMAIN down
                   /\ None(down', t) => IsLast(down, 1, t)
                   /\ \A i \in DOMAIN down' : \E j \in DOMAIN down : down[j] = down'[i]
  <2> USE <1>Reads
  <2>1. down \in Seq(Responses)
    BY DEF TypeInv
  <2>2. PICK r : r = Head(down)
    OBVIOUS
  <2>3. /\ r = down[1] /\ 1 \in DOMAIN down /\ r \in Responses
        /\ \A u : SeesNoMore(down, down', u)
        /\ \A u : r.type # u => (None(down', u) <=> None(down, u))
        /\ \A u : r.type = u /\ None(down', u) => IsLast(down, 1, u)
    BY <2>1, <2>2, QueueTail
  <2>4. r.type \in TypeURIs /\ proxy.nonce[r.type] # 0
    BY <2>3 DEF FirstIsWildcard, Responses
  <2>5. \A u : r.type # u => SameQueue(down, down', u)
    BY <2>3 DEF SameQueue
  <2>6. \A i \in DOMAIN down' : \E j \in DOMAIN down : down[j] = down'[i]
    BY <2>3 DEF SeesNoMore
  <2>7. PICK t \in TypeURIs : t = r.type
    BY <2>4
  <2> QED
    BY <2>2, <2>3, <2>4, <2>5, <2>6, <2>7
(* A change of the mesh or a rotation, which is still to be published, and   *)
(* its publication, which is still to be received.                           *)
<1>1. ASSUME NEW s \in Sources, Change(s) \/ Publish(s)
      PROVE  StreamInv'
  <2> USE <1>1
  <2>1. UNCHANGED <<scope, proxy, job, failed, up, down, envoy, rejected, reconnects>>
    BY DEF Change, Publish, serverVars, proxyVars
  <2>2. ASSUME NEW t, NEW g \in Nat, Current(g, t) PROVE Current(g, t)'
    <3>1. Source(t) \in Sources
      BY DEF Source, Sources
    <3> QED
      BY <2>2, <3>1, SMT DEF Change, Publish, Current, SourcePending, TypeInv, Sources
  <2>3. ASSUME NEW t \in TypeURIs PROVE TypeServed(t)'
    <3>1. SameWork(t)
      BY <2>1, <2>2 DEF SameWork, InJob
    <3> QED
      BY <2>1, <3>1, <1>Untouched DEF StreamInv
  <2>4. JobIsCurrent'
    <3>1. job.made # -1 => job.made \in Nat
      BY DEF TypeInv, Jobs
    <3>2. ASSUME job.types # <<>>, job.made # -1 PROVE Current(job.made, Head(job.types))'
      <4>1. PICK g \in Nat, t \in TypeURIs : g = job.made /\ t = Head(job.types)
        BY <3>1, <3>2, NextTypeType DEF TypeInv
      <4>2. Current(g, t)'
        BY <2>2, <3>2, <4>1 DEF StreamInv, JobIsCurrent
      <4> QED
        BY <2>1, <4>1, <4>2 DEF Current, SourcePending
    <3> QED
      BY <2>1, <3>2 DEF JobIsCurrent
  <2>5. FirstIsWildcard'
    BY <2>1 DEF StreamInv, FirstIsWildcard, ShouldPushUpdate, Subscribed, TypeURIs
  <2> QED
    BY <2>1, <2>3, <2>4, <2>5 DEF StreamInv, TypeURIs
(* A broadcast or a rotation that is received puts the types it concerns     *)
(* into a job, if updates are pushed at all.                                 *)
<1>2. ASSUME HandleProxyUpdate \/ HandleCertRotation
      PROVE  StreamInv'
  <2> USE <1>2
  <2>1. /\ UNCHANGED <<scope, gen, unpublished, proxy, failed, up, down, envoy, rejected, reconnects>>
        /\ job = NoJob
    BY DEF HandleProxyUpdate, HandleCertRotation, proxyVars
  <2>2. /\ job'.made = -1
        /\ job'.types \in {<<>>, <<"SDS">>} \/ ShouldPushUpdate
        /\ "SDS" \in Range(job'.types) => job'.types = <<"SDS">>
        /\ \A t \in TypeURIs : proxy.nonce[t] # 0 /\ t \notin Range(job'.types) =>
             chan'[Source(t)] = chan[Source(t)]
    <3>1. CASE HandleProxyUpdate /\ ShouldPushUpdate
      <4>1. PushOrder \in Seq(TypeURIs) /\ Range(PushOrder) = {t \in TypeURIs : Source(t) = "mesh"}
        BY PushesAll DEF TypeInv
      <4>2. job'.types = PushOrder /\ job'.made = -1
        BY <3>1 DEF HandleProxyUpdate, NoJob
      <4>3. "SDS" \notin Range(PushOrder)
        BY <4>1 DEF Source
      <4>4. chan'["cert"] = chan["cert"]
        BY <3>1 DEF HandleProxyUpdate, TypeInv, Sources
      <4> QED
        BY <3>1, <4>1, <4>2, <4>3, <4>4 DEF Source
    <3>2. CASE HandleProxyUpdate /\ ~ShouldPushUpdate
      <4>1. job'.types = <<>> /\ job'.made = -1 /\ Range(<<>>) = {}
        BY <3>2, SMT DEF HandleProxyUpdate, NoJob, Range
      <4>2. chan'["cert"] = chan["cert"]
        BY <3>2 DEF HandleProxyUpdate, TypeInv, Sources
      <4>3. \A t \in TypeURIs : proxy.nonce[t] # 0 => Source(t) = "cert"
        BY <3>2 DEF StreamInv, FirstIsWildcard, Source
      <4> QED
        BY <4>1, <4>2, <4>3
    <3>3. CASE HandleCertRotation
      <4>1. chan'["mesh"] = chan["mesh"]
        BY <3>3 DEF HandleCertRotation, TypeInv, Sources
      <4>2. CASE "SDS" \in TypeURIs
        <5>1. job'.types = <<"SDS">> /\ job'.made = -1 /\ Range(<<"SDS">>) = {"SDS"}
          BY <3>3, <4>2, OneType DEF HandleCertRotation, NoJob
        <5> QED
          BY <4>1, <5>1 DEF Source
      <4>3. CASE "SDS" \notin TypeURIs
        <5>1. job'.types = <<>> /\ job'.made = -1 /\ Range(<<>>) = {}
          BY <3>3, <4>3, SMT DEF HandleCertRotation, NoJob, Range
        <5> QED
          BY <4>1, <4>3, <5>1 DEF Source
      <4> QED
        BY <4>2, <4>3
    <3> QED
      BY <3>1, <3>2, <3>3
  <2>3. ASSUME NEW t \in TypeURIs PROVE TypeServed(t)'
    <3>1. ~InJob(t)
      BY <2>1, NothingToDo
    <3>2. SameWork(t)
      BY <2>1, <2>2, <3>1 DEF SameWork, InJob, Current, SourcePending
    <3> QED
      BY <2>1, <3>2, <1>Untouched DEF StreamInv
  <2>4. JobIsCurrent'
    BY <2>2 DEF JobIsCurrent
  <2>5. FirstIsWildcard'
    <3>1. Range(<<>>) = {} /\ Range(<<"SDS">>) = {"SDS"}
      BY SMT DEF Range
    <3>2. ShouldPushUpdate' <=> ShouldPushUpdate
      BY <2>1 DEF ShouldPushUpdate, TypeURIs
    <3>3. job.types = <<>>
      BY <2>1, NothingToDo
    <3> QED
      BY <2>1, <2>2, <3>1, <3>2, <3>3, SMT DEF StreamInv, FirstIsWildcard, Subscribed, TypeURIs
  <2> QED
    BY <2>1, <2>3, <2>4, <2>5 DEF StreamInv, TypeURIs
(* Resources that are made are current; those that cannot be made are left   *)
(* out.                                                                      *)
<1>3. ASSUME GenerateResources \/ GenerateFails
      PROVE  StreamInv'
  <2> USE <1>3
  <2>1. /\ UNCHANGED <<scope, gen, unpublished, chan, proxy, up, down, envoy, rejected, reconnects>>
        /\ job.types # <<>> /\ job \in Jobs
    BY DEF GenerateResources, GenerateFails, sourceVars, proxyVars, TypeInv
  <2>2. CASE GenerateResources
    <3>1. job'.types = job.types /\ job'.made = gen[Source(Head(job.types))] /\ failed' = failed
      BY <2>1, <2>2 DEF GenerateResources, Jobs
    <3>2. ASSUME NEW t \in TypeURIs PROVE SameWork(t)
      BY <2>1, <3>1, <1>SameSources DEF SameWork, InJob
    <3>3. JobIsCurrent'
      BY <2>1, <3>1 DEF JobIsCurrent, Current
    <3>4. FirstIsWildcard'
      BY <2>1, <3>1 DEF StreamInv, FirstIsWildcard, ShouldPushUpdate, Subscribed, TypeURIs
    <3> QED
      BY <2>1, <3>2, <3>3, <3>4, <1>Untouched DEF StreamInv, TypeURIs
  <2>3. CASE GenerateFails
    <3>1. /\ job' = NextType /\ failed' = failed \cup {Head(job.types)}
          /\ failures' = failures + 1 /\ reconnects' = reconnects
      BY <2>3 DEF GenerateFails, proxyVars
    <3>2. /\ NextType.made = -1 /\ Range(NextType.types) \subseteq Range(job.types)
          /\ \A t : t \in Range(job.types) => t = Head(job.types) \/ t \in Range(NextType.types)
      BY <2>1, NextTypeType
    <3>3. reconnects = 0
      BY <3>1, SMT DEF NotBoth, TypeInv
    <3>4. ASSUME NEW t \in TypeURIs PROVE SameWork(t)
      BY <2>1, <3>1, <3>2, <1>SameSources DEF SameWork, InJob
    <3>5. JobIsCurrent'
      BY <3>1, <3>2 DEF JobIsCurrent
    <3>6. "SDS" \in Range(NextType.types) => NextType.types = <<"SDS">>
      <4>1. ASSUME job.types = <<"SDS">> PROVE Range(NextType.types) = {}
        BY <4>1, SMT DEF NextType, NoJob, Range
      <4> QED
        BY <3>2, <4>1 DEF StreamInv, FirstIsWildcard
    <3>7. FirstIsWildcard'
      BY <2>1, <3>1, <3>2, <3>3, <3>6, SMTT(30)
      DEF StreamInv, FirstIsWildcard, ShouldPushUpdate, Subscribed, TypeURIs
    <3> QED
      BY <2>1, <3>3, <3>4, <3>5, <3>7, <1>Untouched DEF StreamInv, TypeURIs
  <2> QED
    BY <2>2, <2>3
(* A request that is read may start a job, and changes the record of its     *)
(* type only.                                                                *)
<1>4. ASSUME HandleRequest
      PROVE  StreamInv'
  <2> USE <1>4
  <2>0. PICK r \in Requests, t \in TypeURIs : r = Head(up) /\ t = r.type
    <3>1. Head(up) \in Requests
      BY SMT DEF HandleRequest, TypeInv
    <3> QED
      BY <3>1 DEF Requests
  <2>1. /\ UNCHANGED <<scope, gen, unpublished, chan, failed, down, envoy, rejected, reconnects>>
        /\ job = NoJob /\ up # <<>> /\ up' = Tail(up) /\ proxy' = AfterRequest(r)
        /\ up \in Seq(Requests) /\ proxy \in Proxies
    BY <2>0 DEF HandleRequest, sourceVars, proxyVars, TypeInv
  <2>2. /\ \A u : SeesNoMore(up, up', u)
        /\ \A u : t # u => (None(up', u) <=> None(up, u))
        /\ None(up', t) => IsLast(up, 1, t)
        /\ r = up[1] /\ 1 \in DOMAIN up
    BY <2>0, <2>1, QueueTail
  <2>3. t = r.type /\ r.names \in SUBSET Names
    BY <2>0 DEF Requests
  <2>4. /\ proxy'.nonce = proxy.nonce /\ proxy'.lastSent = proxy.lastSent
        /\ \A u \in TypeURIs \ {t} : proxy'.applied[u] = proxy.applied[u] /\ proxy'.subscribed[u] = proxy.subscribed[u]
        /\ proxy'.subscribed[t] \in {r.names, proxy.subscribed[t]}
        /\ ~r.err /\ r.nonce # 0 /\ r.nonce = proxy.nonce[t] =>
             /\ proxy'.applied[t] = r.version
             /\ ~IsWildcardTypeURI(t) => proxy'.subscribed[t] = r.names
    BY <2>0, <2>1, AfterRequestType
  <2>5. /\ ~RespondToRequest(r) => job'.types = <<>>
        /\ RespondToRequest(r) => job'.types = <<t>>
        /\ job'.made = -1
    BY <2>0 DEF HandleRequest, NoJob
  <2>6. job.types = <<>> /\ \A u : ~InJob(u)
    BY <2>1, NothingToDo
  <2>7. Range(<<>>) = {} /\ Range(<<t>>) = {t}
    BY <2>3, OneType, SMT DEF Range
  <2>9. Subscribed(t)
    BY <2>2, <2>3 DEF StreamInv, TypeServed, Unasked, None
  <2>10. ASSUME NEW u \in TypeURIs \ {t} PROVE TypeServed(u)'
    <3>1. SameQueue(up, up', u) /\ SameQueue(down, down', u)
      BY <2>1, <2>2, <1>SameItself DEF SameQueue
    <3>2. SameProxy(u) /\ SameEnvoy(u) /\ SameWork(u)
      BY <2>1, <2>4, <2>6, <1>SameSources DEF SameProxy, SameEnvoy, SameWork, Subscribed
    <3> QED
      BY <3>1, <3>2, <1>Unseen DEF StreamInv
  <2>11. TypeServed(t)'
    <3>0. TypeServed(t)
      BY <2>3 DEF StreamInv
    <3>1. LastRequestIsTrue(t)'
      BY <2>1, <2>2, <3>0, SMTT(30) DEF TypeServed, LastRequestIsTrue, SeesNoMore
    <3>2. LastResponseIsCurrent(t)'
      BY <2>1, <2>4, <2>6, <3>0 DEF TypeServed, LastResponseIsCurrent, Sent, Current, SourcePending
    <3>3. Unasked(t)' /\ NonceIsKnown(t)'
      BY <2>1, <2>4, <2>9, <3>0 DEF TypeServed, Unasked, NonceIsKnown, Subscribed
    <3>4. NoNames(t)'
      <4> SUFFICES ASSUME IsWildcardTypeURI(t)
                   PROVE  /\ envoy'.names[t] = {} /\ proxy'.subscribed[t] = {}
                          /\ \A i \in DOMAIN up' : up'[i].type = t => up'[i].names = {}
        BY DEF NoNames
      <4>1. /\ envoy.names[t] = {} /\ proxy.subscribed[t] = {}
            /\ \A i \in DOMAIN up : up[i].type = t => up[i].names = {}
        BY <3>0 DEF TypeServed, NoNames
      <4>2. r.names = {}
        BY <2>2, <2>3, <4>1
      <4>3. ASSUME NEW i \in DOMAIN up', up'[i].type = t PROVE up'[i].names = {}
        BY <2>2, <4>1, <4>3 DEF SeesNoMore
      <4> QED
        BY <2>1, <2>4, <4>1, <4>2, <4>3
    <3>5. AtRest(t)' => AtRest(t) /\ ~RespondToRequest(r)
      BY <2>1, <2>5, <2>6, <2>7 DEF AtRest, Subscribed, InJob
    <3>6. Agreed(t)'
      <4> SUFFICES ASSUME AtRest(t)', None(up', t)
                   PROVE  /\ proxy'.nonce[t] # 0 /\ envoy'.nonce[t] = proxy'.nonce[t]
                          /\ proxy'.subscribed[t] = envoy'.names[t] /\ proxy'.applied[t] = envoy'.version[t]
                          /\ ~IsWildcardTypeURI(t) => proxy'.lastSent[t] = envoy'.names[t]
        BY DEF Agreed
      <4>1. AtRest(t) /\ ~RespondToRequest(r) /\ IsLast(up, 1, t)
        BY <2>2, <3>5
      <4>2. /\ r.names = envoy.names[t] /\ r.version = envoy.version[t]
            /\ r.nonce = envoy.nonce[t] /\ ~r.err
        BY <2>2, <3>0, <4>1 DEF TypeServed, LastRequestIsTrue, AtRest
      <4>3. /\ r.nonce # 0 /\ proxy.nonce[t] # 0
            /\ r.nonce = proxy.nonce[t] => IsWildcardTypeURI(t) \/ r.names = proxy.lastSent[t]
        BY <2>3, <4>1, <4>2 DEF RespondToRequest, StaleNonce, NewNames
      <4>4. r.nonce = proxy.nonce[t]
        BY <3>0, <4>1, <4>2, <4>3 DEF TypeServed, NonceIsKnown, AtRest
      <4>5. IsWildcardTypeURI(t) => proxy'.subscribed[t] = envoy.names[t]
        BY <2>2, <2>3, <2>4, <3>0, <4>2 DEF TypeServed, NoNames
      <4> QED
        BY <2>1, <2>4, <4>2, <4>3, <4>4, <4>5
    <3>7. Served(t)'
      BY <2>1, <2>4, <3>0, <3>5 DEF TypeServed, Served, Sent, Current, SourcePending
    <3> QED
      BY <3>1, <3>2, <3>3, <3>4, <3>6, <3>7 DEF TypeServed
  <2>12. JobIsCurrent'
    BY <2>5 DEF JobIsCurrent
  <2>13. FirstIsWildcard'
    <3>0. FirstIsWildcard
      BY DEF StreamInv
    <3>1. ShouldPushUpdate' <=> ShouldPushUpdate
      BY <2>1, <2>4 DEF ShouldPushUpdate, TypeURIs
    <3>2. "SDS" \in Range(job'.types) => job'.types = <<"SDS">>
      BY <2>5, <2>7, SMT
    <3>3. ASSUME ~ShouldPushUpdate PROVE \A u \in Range(job'.types) : IsWildcardTypeURI(u) \/ u = "SDS"
      <4>1. envoy.types # <<>>
        BY <2>9, SMT DEF Subscribed, Range
      <4>2. IsWildcardTypeURI(t)
        <5>1. CASE reconnects = 0
          BY <2>9, <3>0, <3>3, <5>1 DEF FirstIsWildcard
        <5>2. CASE reconnects > 0
          BY <2>2, <2>3, <2>6, <3>0, <3>3, <4>1, <5>2 DEF FirstIsWildcard
        <5>3. reconnects = 0 \/ reconnects > 0
          BY SMT DEF TypeInv
        <5> QED
          BY <5>1, <5>2, <5>3
      <4> QED
        BY <2>5, <2>7, <4>2
    <3>4. ASSUME ~ShouldPushUpdate, reconnects > 0, envoy.types # <<>>
          PROVE  job'.types \notin {<<>>, <<"SDS">>}
      <4>1. IsWildcardTypeURI(t) /\ ~r.err
        BY <2>2, <2>3, <2>6, <3>0, <3>4 DEF FirstIsWildcard
      <4>2. RespondToRequest(r)
        BY <2>3, <3>4, <4>1 DEF RespondToRequest, ShouldPushUpdate
      <4>3. <<t>> # <<>> /\ <<t>> # <<"SDS">>
        <5>1. <<t>>[1] = t /\ <<"SDS">>[1] = "SDS" /\ t # "SDS"
          BY <4>1 DEF IsWildcardTypeURI
        <5> QED
          BY <5>1, OneType
      <4> QED
        BY <2>5, <4>2, <4>3
    <3> QED
      BY <2>1, <2>4, <3>0, <3>1, <3>2, <3>3, <3>4 DEF FirstIsWildcard, Subscribed, TypeURIs
  <2> QED
    BY <2>1, <2>10, <2>11, <2>12, <2>13 DEF StreamInv, TypeURIs
(* A response that is sent is the last of its type and current. *)
<1>5. ASSUME SendDiscoveryResponse
      PROVE  StreamInv'
  <2> USE <1>5
  <2>0. PICK t \in TypeURIs, m \in Responses : t = NowType /\ m = NewResponse
    BY SendEffect
  <2>1. /\ UNCHANGED <<scope, gen, unpublished, chan, up, envoy, rejected, reconnects>>
        /\ failed' = failed \ {t} /\ job' = NextType /\ nonces + 1 # 0
        /\ job.made # -1 /\ job.types # <<>>
    BY <2>0, SendEffect, SMT DEF SendDiscoveryResponse, sourceVars, proxyVars, TypeInv, NowType
  <2>2. /\ down' = Append(down, m) /\ down \in Seq(Responses)
        /\ proxy'.nonce[t] = nonces + 1 /\ proxy'.lastSent[t] \subseteq Resources(t, job.names)
        /\ \A u \in TypeURIs \ {t} :
             proxy'.nonce[u] = proxy.nonce[u] /\ proxy'.lastSent[u] = proxy.lastSent[u]
        /\ proxy'.applied = proxy.applied /\ proxy'.subscribed = proxy.subscribed
    BY <2>0, SendEffect DEF TypeInv
  <2>3. /\ m.type = t /\ m.nonce = nonces + 1 /\ m.names = Resources(t, job.names) /\ m.gen = job.made
    BY <2>0 DEF NewResponse
  <2>4. /\ \A u : t # u => SeesNoMore(down, down', u) /\ (None(down', u) <=> None(down, u))
        /\ ~None(down', t) /\ \A i \in DOMAIN down' : IsLast(down', i, t) => down'[i] = m
        /\ \A i \in DOMAIN down' : down'[i] = m \/ \E j \in DOMAIN down : down[j] = down'[i]
    BY <2>2, <2>3, QueueAppend, SMTT(30)
  <2>5. /\ NextType.made = -1 /\ Range(NextType.types) \subseteq Range(job.types)
        /\ \A u : u \in Range(job.types) => u = t \/ u \in Range(NextType.types)
        /\ t \in Range(job.types)
    BY <2>0, <2>1, NextTypeType DEF NowType, TypeInv
  <2>6. ASSUME NEW u \in TypeURIs \ {t} PROVE TypeServed(u)'
    <3>1. SameQueue(up, up', u) /\ SameQueue(down, down', u)
      BY <2>1, <2>4, <1>SameItself DEF SameQueue
    <3>2. SameProxy(u) /\ SameEnvoy(u)
      BY <2>1, <2>2 DEF SameProxy, SameEnvoy, Subscribed
    <3>3. SameWork(u)
      BY <2>1, <2>5, <1>SameSources DEF SameWork, InJob
    <3> QED
      BY <3>1, <3>2, <3>3, <1>Unseen DEF StreamInv
  <2>7. TypeServed(t)'
    <3>0. TypeServed(t)
      BY DEF StreamInv
    <3>1. LastRequestIsTrue(t)'
      BY <2>1, <3>0 DEF TypeServed, LastRequestIsTrue
    <3>2. LastResponseIsCurrent(t)'
      <4>1. Current(m.gen, t)
        BY <2>0, <2>1, <2>3 DEF StreamInv, JobIsCurrent, NowType
      <4>2. ASSUME NEW i \in DOMAIN down', IsLast(down', i, t) PROVE Current(down[i].gen, t)'
        BY <2>1, <2>4, <4>1, <4>2 DEF Current, SourcePending
      <4>3. Sent(t)' \subseteq Resources(t, job.names)
        <5>1. job.names \in SUBSET Names
          BY DEF TypeInv, Jobs
        <5> QED
          BY <2>2, <5>1, ResourcesType DEF Sent, TypeInv
      <4> QED
        BY <2>2, <2>3, <2>4, <4>2, <4>3, ZenonT(30) DEF LastResponseIsCurrent
    <3>3. Unasked(t)' /\ NoNames(t)'
      BY <2>1, <2>2, <3>0 DEF TypeServed, Unasked, NoNames, Subscribed
    <3>4. NonceIsKnown(t)' /\ Agreed(t)' /\ Served(t)'
      BY <2>4 DEF NonceIsKnown, Agreed, Served, AtRest
    <3> QED
      BY <3>1, <3>2, <3>3, <3>4 DEF TypeServed
  <2>8. JobIsCurrent'
    BY <2>1, <2>5 DEF JobIsCurrent
  <2>9. FirstIsWildcard'
    <3>0. FirstIsWildcard
      BY DEF StreamInv
    <3>1. "SDS" \in Range(job.types) => NextType.types = <<>> /\ Range(NextType.types) = {}
      <4>1. ASSUME job.types = <<"SDS">> PROVE NextType.types = <<>>
        BY <4>1 DEF NextType, NoJob
      <4>2. Range(<<>>) = {}
        BY SMT DEF Range
      <4> QED
        BY <3>0, <4>1, <4>2 DEF FirstIsWildcard
    <3>2. \A i \in DOMAIN down' : proxy'.nonce[down'[i].type] # 0
      <4> SUFFICES ASSUME NEW i \in DOMAIN down' PROVE proxy'.nonce[down'[i].type] # 0
        OBVIOUS
      <4>1. CASE down'[i].type = t
        BY <2>1, <2>2, <4>1
      <4>2. CASE down'[i].type # t
        <5>1. PICK j \in DOMAIN down : down[j] = down'[i]
          BY <2>3, <2>4, <4>2
        <5>2. down[j] \in Responses
          BY <2>2, SMT
        <5>3. down[j].type \in TypeURIs
          BY <5>2 DEF Responses
        <5> QED
          BY <2>2, <3>0, <4>2, <5>1, <5>3, ZenonT(30) DEF FirstIsWildcard
      <4> QED
        BY <4>1, <4>2
    <3>3. ASSUME ~ShouldPushUpdate' PROVE ~ShouldPushUpdate /\ t = "SDS"
      <4>1. ~IsWildcardTypeURI(t)
        BY <2>1, <2>2, <3>3 DEF ShouldPushUpdate, TypeURIs
      <4>2. ~ShouldPushUpdate
        BY <2>1, <2>2, <3>3, <4>1 DEF ShouldPushUpdate, TypeURIs
      <4> QED
        BY <2>5, <3>0, <4>1, <4>2 DEF FirstIsWildcard
    <3>4. ASSUME ~ShouldPushUpdate', NEW u \in TypeURIs, Source(u) = "mesh" PROVE proxy'.nonce[u] = 0
      BY <2>2, <3>0, <3>3, <3>4 DEF FirstIsWildcard, Source
    <3>5. ~ShouldPushUpdate' => job.types = <<"SDS">>
      BY <2>5, <3>0, <3>3 DEF FirstIsWildcard
    <3> QED
      BY <2>1, <2>5, <3>0, <3>1, <3>2, <3>3, <3>4, <3>5 DEF FirstIsWildcard, Subscribed, TypeURIs
  <2> QED
    BY <2>1, <2>6, <2>7, <2>8, <2>9 DEF StreamInv, TypeURIs
(* The first request for a type. *)
<1>6. ASSUME NEW t \in TypeURIs, NEW names \in SUBSET Names,
             EnvoySubscribes(t, names)
      PROVE  StreamInv'
  <2> USE <1>6
  <2>1. /\ UNCHANGED <<scope, gen, unpublished, chan, proxy, job, failed, down, rejected, reconnects>>
        /\ ~Subscribed(t)
        /\ IsWildcardTypeURI(t) => names = {}
        /\ ~IsWildcardTypeURI(t) =>
             \E w \in TypeURIs : IsWildcardTypeURI(w) /\ envoy.has[w][All] # 0
    BY DEF EnvoySubscribes, sourceVars, serverVars
  <2>2. /\ envoy'.types = Append(envoy.types, t) /\ envoy.types \in Seq(TypeURIs)
        /\ envoy'.names[t] = names /\ \A u \in TypeURIs \ {t} : envoy'.names[u] = envoy.names[u]
        /\ envoy'.version = envoy.version /\ envoy'.nonce = envoy.nonce /\ envoy'.has = envoy.has
    BY SubscribesEffect DEF TypeInv, Envoys
  <2>3. PICK m : IsRequest(m, envoy', t, 0) /\ ~m.err /\ up' = Append(up, m)
    BY SubscribesEffect
  <2>4. /\ m \in Requests /\ m.type = t /\ m.nonce = 0
        /\ m.names = envoy'.names[t] /\ m.version = envoy'.version[t]
    BY <2>3 DEF IsRequest
  <2>5. /\ ~None(up', t) /\ \A i \in DOMAIN up' : IsLast(up', i, t) => up'[i] = m
        /\ \A i \in DOMAIN up' : up'[i] = m \/ \E j \in DOMAIN up : up[j] = up'[i]
        /\ up' # <<>> /\ (up # <<>> => up'[1] = up[1]) /\ (up = <<>> => up'[1] = m)
    <3>1. up \in Seq(Requests)
      BY DEF TypeInv
    <3> QED
      BY <2>3, <2>4, <3>1, <1>LastSaid
  <2>6. \A u : Subscribed(u)' <=> Subscribed(u) \/ u = t
    <3>1. \A i \in DOMAIN envoy'.types : envoy'.types[i] = t \/ \E j \in DOMAIN envoy.types : envoy.types[j] = envoy'.types[i]
      BY <2>2, SMT
    <3>2. /\ \A j \in DOMAIN envoy.types : j \in DOMAIN envoy'.types /\ envoy'.types[j] = envoy.types[j]
          /\ Len(envoy.types) + 1 \in DOMAIN envoy'.types /\ envoy'.types[Len(envoy.types) + 1] = t
      BY <2>2, SMT
    <3> QED
      BY <3>1, <3>2 DEF Subscribed
  <2>7. ASSUME NEW u \in TypeURIs \ {t} PROVE TypeServed(u)'
    <3>1. SameEnvoy(u)
      BY <2>1, <2>2, <2>6 DEF SameEnvoy, Subscribed
    <3>2. SameQueue(down, down', u)
      BY <2>1, <1>SameItself
    <3> QED
      BY <2>1, <2>3, <2>4, <3>1, <3>2, <1>SilentType
  <2>8. TypeServed(t)'
    <3>0. TypeServed(t) /\ envoy.nonce[t] = 0 /\ Subscribed(t)'
      BY <2>1, <2>6 DEF StreamInv, TypeServed, Unasked, Subscribed
    <3>1. LastRequestIsTrue(t)'
      BY <2>2, <2>3, <2>4, <2>5, <3>0 DEF LastRequestIsTrue
    <3>2. LastResponseIsCurrent(t)'
      BY <2>1, <3>0 DEF TypeServed, LastResponseIsCurrent, Sent, InJob, Current, SourcePending
    <3>3. NoNames(t)'
      <4>1. NoNames(t) /\ (IsWildcardTypeURI(t) => envoy'.names[t] = {})
        BY <2>1, <2>2, <3>0 DEF TypeServed
      <4> QED
        BY <2>1, <2>4, <2>5, <4>1, <1>StillNoNames
    <3>4. Unasked(t)' /\ NonceIsKnown(t)' /\ Agreed(t)' /\ Served(t)'
      BY <2>1, <2>2, <2>5, <3>0 DEF Unasked, NonceIsKnown, Agreed, Served
    <3> QED
      BY <3>1, <3>2, <3>3, <3>4 DEF TypeServed
  <2>9. FirstIsWildcard'
    <3>0. FirstIsWildcard
      BY DEF StreamInv
    <3>1. ASSUME NEW w \in TypeURIs, envoy.has[w][All] # 0 PROVE envoy.types # <<>>
      <4>1. Subscribed(w)
        BY <3>1 DEF StreamInv, TypeServed, Unasked
      <4> QED
        BY <4>1, SMT DEF Subscribed, Range
    <3>2. envoy.types = <<>> => IsWildcardTypeURI(t) /\ envoy'.types[1] = t
      <4>1. envoy.types = <<>> => IsWildcardTypeURI(t)
        BY <2>1, <3>1
      <4>2. Append(<<>>, t)[1] = t
        BY SMT
      <4> QED
        BY <2>2, <4>1, <4>2
    <3>3. envoy.types # <<>> => envoy'.types[1] = envoy.types[1]
      <4>1. \A s \in Seq(TypeURIs) : s # <<>> => Append(s, t)[1] = s[1]
        BY SMT
      <4> QED
        BY <2>2, <4>1
    <3>4. envoy.types = <<>> => up = <<>>
      <4> SUFFICES ASSUME envoy.types = <<>>, up # <<>> PROVE FALSE
        OBVIOUS
      <4>1. 1 \in DOMAIN up /\ up[1] \in Requests
        BY SMT DEF TypeInv
      <4>2. up[1].type \in TypeURIs /\ ~Subscribed(up[1].type)
        BY <4>1, SMT DEF Requests, Subscribed, Range
      <4> QED
        BY <4>1, <4>2 DEF StreamInv, TypeServed, Unasked, None
    <3>5. ShouldPushUpdate' <=> ShouldPushUpdate
      BY <2>1 DEF ShouldPushUpdate, TypeURIs
    <3>6. ASSUME ~ShouldPushUpdate, reconnects = 0, NEW u \in TypeURIs, Subscribed(u)'
          PROVE  IsWildcardTypeURI(u)
      BY <2>1, <2>6, <3>0, <3>6 DEF FirstIsWildcard, Subscribed
    <3>7. ASSUME ~ShouldPushUpdate, reconnects > 0, job.types \in {<<>>, <<"SDS">>}
          PROVE  IsWildcardTypeURI(up'[1].type) /\ ~up'[1].err
      <4>1. CASE envoy.types = <<>>
        BY <2>3, <2>4, <2>5, <3>2, <3>4, <4>1
      <4>2. CASE envoy.types # <<>>
        BY <2>5, <3>0, <3>7, <4>2 DEF FirstIsWildcard
      <4> QED
        BY <4>1, <4>2
    <3> QED
      BY <2>1, <2>2, <2>5, <3>0, <3>2, <3>3, <3>5, <3>6, <3>7 DEF FirstIsWildcard, TypeURIs
  <2>10. JobIsCurrent'
    BY <2>1, <1>SameJob DEF StreamInv
  <2> QED
    BY <2>1, <2>7, <2>8, <2>9, <2>10 DEF StreamInv, TypeURIs
(* A request for other names. *)
<1>7. ASSUME NEW t \in TypeURIs, NEW names \in SUBSET Names,
             EnvoyChangesNames(t, names)
      PROVE  StreamInv'
  <2> USE <1>7
  <2>1. /\ UNCHANGED <<scope, gen, unpublished, chan, proxy, job, failed, down, rejected, reconnects>>
        /\ Subscribed(t) /\ ~IsWildcardTypeURI(t)
    BY DEF EnvoyChangesNames, sourceVars, serverVars
  <2>2. /\ envoy'.types = envoy.types
        /\ \A u \in TypeURIs \ {t} : envoy'.names[u] = envoy.names[u]
        /\ envoy'.version = envoy.version /\ envoy'.nonce = envoy.nonce /\ envoy'.has = envoy.has
    BY ChangesNamesEffect
  <2>3. PICK m : IsRequest(m, envoy', t, envoy.nonce[t]) /\ ~m.err /\ up' = Append(up, m)
    BY ChangesNamesEffect
  <2>4. TypeServed(t)
    BY DEF StreamInv
  <2>5. Subscribed(t)'
    BY <2>1, <2>2 DEF Subscribed
  <2>6. /\ LastRequestIsTrue(t)' /\ Unasked(t)' /\ NoNames(t)' /\ Agreed(t)'
        /\ m \in Requests /\ m.type = t /\ (up # <<>> => up' # <<>> /\ up'[1] = up[1])
    <3>1. IsRequest(m, envoy', t, envoy'.nonce[t])
      BY <2>2, <2>3
    <3> QED
      BY <2>1, <2>3, <2>4, <2>5, <3>1, <1>Says
  <2>7. ASSUME NEW u \in TypeURIs \ {t} PROVE TypeServed(u)'
    <3>1. SameEnvoy(u)
      BY <2>1, <2>2 DEF SameEnvoy, Subscribed
    <3>2. SameQueue(down, down', u)
      BY <2>1, <1>SameItself
    <3> QED
      BY <2>1, <2>3, <2>6, <3>1, <3>2, <1>SilentType
  <2>8. TypeServed(t)'
    <3>1. LastResponseIsCurrent(t)'
      BY <2>1, <2>4 DEF TypeServed, LastResponseIsCurrent, Sent, InJob, Current, SourcePending
    <3>2. NonceIsKnown(t)'
      BY <2>1, <2>2, <2>4 DEF TypeServed, NonceIsKnown
    <3>3. Served(t)'
      BY <2>1, <2>2, <2>4
      DEF TypeServed, Served, AtRest, Subscribed, Sent, InJob, Current, SourcePending
    <3> QED
      BY <2>6, <3>1, <3>2, <3>3 DEF TypeServed
  <2>9. FirstIsWildcard'
    BY <2>1, <2>2, <2>6, <1>FirstStays DEF StreamInv
  <2>10. JobIsCurrent'
    BY <2>1, <1>SameJob DEF StreamInv
  <2> QED
    BY <2>1, <2>7, <2>8, <2>9, <2>10 DEF StreamInv, TypeURIs
(* A response for a type that the proxy has not asked for is dropped. *)
<1>8. ASSUME EnvoyAcks, ~Subscribed(Head(down).type)
      PROVE  StreamInv'
  <2> USE <1>8
  <2>1. /\ UNCHANGED <<scope, gen, unpublished, chan, proxy, job, failed, up, envoy, rejected, reconnects>>
        /\ down # <<>> /\ down' = Tail(down)
    BY DEF EnvoyAcks, sourceVars, serverVars
  <2>2. PICK r \in Responses, t \in TypeURIs :
          /\ r = Head(down) /\ t = r.type
          /\ \A u : SeesNoMore(down, down', u)
          /\ \A u : t # u => SameQueue(down, down', u)
          /\ \A i \in DOMAIN down' : \E j \in DOMAIN down : down[j] = down'[i]
    BY <2>1, <1>Reads DEF StreamInv
  <2>3. ASSUME NEW u \in TypeURIs \ {t} PROVE TypeServed(u)'
    <3>1. SameQueue(up, up', u) /\ SameQueue(down, down', u)
      BY <2>1, <2>2, <1>SameItself
    <3>2. SameProxy(u) /\ SameEnvoy(u) /\ SameWork(u)
      BY <2>1, <1>SameSources DEF SameProxy, SameEnvoy, SameWork, Subscribed, InJob
    <3> QED
      BY <3>1, <3>2, <1>Unseen DEF StreamInv
  <2>4. TypeServed(t)'
    <3>0. TypeServed(t) /\ ~Subscribed(t)'
      BY <2>1, <2>2 DEF StreamInv, Subscribed
    <3>1. LastRequestIsTrue(t)' /\ Unasked(t)' /\ NoNames(t)'
      BY <2>1, <3>0 DEF TypeServed, LastRequestIsTrue, Unasked, NoNames, Subscribed
    <3>2. LastResponseIsCurrent(t)'
      BY <2>1, <2>2, <3>0, <1>StillToRead DEF TypeServed
    <3>3. NonceIsKnown(t)' /\ Agreed(t)' /\ Served(t)'
      BY <3>0 DEF NonceIsKnown, Agreed, Served, AtRest
    <3> QED
      BY <3>1, <3>2, <3>3 DEF TypeServed
  <2>5. FirstIsWildcard'
    BY <2>1, <2>2, <1>FirstStays DEF StreamInv
  <2>6. JobIsCurrent'
    BY <2>1, <1>SameJob DEF StreamInv
  <2> QED
    BY <2>1, <2>3, <2>4, <2>5, <2>6 DEF StreamInv, TypeURIs
(* An ACK or a NACK is the last request of its type and says what the proxy  *)
(* has and wants.                                                            *)
<1>9. ASSUME (EnvoyAcks /\ Subscribed(Head(down).type)) \/ EnvoyNacks
      PROVE  StreamInv'
  <2> USE <1>9
  <2>1. /\ UNCHANGED <<scope, gen, unpublished, chan, proxy, job, failed, reconnects>>
        /\ down # <<>> /\ down' = Tail(down) /\ Subscribed(Head(down).type)
    BY DEF EnvoyAcks, EnvoyNacks, sourceVars, serverVars
  <2>2. PICK r \in Responses, t \in TypeURIs :
          /\ r = Head(down) /\ t = r.type /\ proxy.nonce[t] # 0
          /\ \A u : SeesNoMore(down, down', u)
          /\ \A u : t # u => SameQueue(down, down', u)
          /\ r = down[1] /\ 1 \in DOMAIN down
          /\ None(down', t) => IsLast(down, 1, t)
          /\ \A i \in DOMAIN down' : \E j \in DOMAIN down : down[j] = down'[i]
    BY <2>1, <1>Reads DEF StreamInv
  <2>3. /\ envoy'.types = envoy.types /\ envoy'.names = envoy.names /\ envoy'.nonce[t] = r.nonce
        /\ \A u \in TypeURIs \ {t} :
             /\ envoy'.version[u] = envoy.version[u] /\ envoy'.nonce[u] = envoy.nonce[u]
             /\ envoy'.has[u] = envoy.has[u]
        /\ \A u \in TypeURIs \ {t} : u \in rejected' <=> u \in rejected
        /\ t \notin rejected' => \A n \in r.names : envoy'.has[t][n] = r.gen
    <3>1. CASE EnvoyAcks /\ Subscribed(Head(down).type)
      <4>1. rejected' = rejected \ {t}
        BY <2>2, <3>1 DEF EnvoyAcks
      <4> QED
        BY <2>2, <3>1, <4>1, AcksEffect, ZenonT(30)
    <3>2. CASE EnvoyNacks
      <4>1. rejected' = rejected \cup {t}
        BY <2>2, <3>2 DEF EnvoyNacks
      <4> QED
        BY <2>2, <3>2, <4>1, NacksEffect
    <3> QED
      BY <3>1, <3>2
  <2>4. PICK m : IsRequest(m, envoy', t, r.nonce) /\ up' = Append(up, m) /\ (m.err => t \in rejected')
    <3>1. CASE EnvoyAcks /\ Subscribed(Head(down).type)
      <4>1. \E m : IsRequest(m, envoy', t, r.nonce) /\ ~m.err /\ up' = Append(up, m)
        BY <2>2, <3>1, AcksEffect
      <4> QED
        BY <4>1
    <3>2. CASE EnvoyNacks
      <4>1. \E m : IsRequest(m, envoy', t, r.nonce) /\ up' = Append(up, m)
        BY <2>2, <3>2, NacksEffect
      <4>2. t \in rejected'
        BY <2>2, <3>2 DEF EnvoyNacks
      <4> QED
        BY <4>1, <4>2
    <3> QED
      BY <3>1, <3>2
  <2>5. TypeServed(t) /\ Subscribed(t)'
    BY <2>1, <2>2, <2>3 DEF StreamInv, Subscribed
  <2>6. /\ LastRequestIsTrue(t)' /\ Unasked(t)' /\ NoNames(t)' /\ Agreed(t)'
        /\ m \in Requests /\ m.type = t /\ (up # <<>> => up' # <<>> /\ up'[1] = up[1])
    <3>1. IsRequest(m, envoy', t, envoy'.nonce[t])
      BY <2>3, <2>4
    <3> QED
      BY <2>1, <2>3, <2>4, <2>5, <3>1, <1>Says
  <2>7. ASSUME NEW u \in TypeURIs \ {t} PROVE TypeServed(u)'
    <3>1. SameEnvoy(u)
      BY <2>3 DEF SameEnvoy, Subscribed
    <3>2. SameQueue(down, down', u)
      BY <2>2
    <3> QED
      BY <2>1, <2>4, <2>6, <3>1, <3>2, <1>SilentType
  <2>8. TypeServed(t)'
    <3>1. LastResponseIsCurrent(t)'
      BY <2>1, <2>2, <2>5, <1>StillToRead DEF TypeServed
    <3>2. ASSUME None(down', t)
          PROVE  /\ r.nonce = proxy.nonce[t] /\ Sent(t) \subseteq r.names
                 /\ ~InJob(t) /\ t \notin failed => Current(r.gen, t)
      BY <2>2, <2>5, <3>2 DEF TypeServed, LastResponseIsCurrent
    <3>3. NonceIsKnown(t)'
      BY <2>1, <2>3, <3>2 DEF NonceIsKnown
    <3>4. Served(t)'
      <4> SUFFICES ASSUME AtRest(t)', NEW n \in Sent(t)' PROVE Current(envoy.has[t][n], t)'
        BY DEF Served
      <4>1. None(down', t) /\ ~InJob(t) /\ t \notin failed /\ t \notin rejected' /\ n \in Sent(t)
        BY <2>1 DEF AtRest, InJob, Sent
      <4>2. Current(r.gen, t) /\ envoy'.has[t][n] = r.gen
        BY <2>3, <3>2, <4>1
      <4> QED
        BY <2>1, <4>2 DEF Current, SourcePending
    <3> QED
      BY <2>6, <3>1, <3>3, <3>4 DEF TypeServed
  <2>9. FirstIsWildcard'
    <3>1. ASSUME ~ShouldPushUpdate, NEW w \in TypeURIs, IsWildcardTypeURI(w)
          PROVE  envoy'.has[w] = envoy.has[w]
      BY <2>2, <2>3, <3>1 DEF ShouldPushUpdate
    <3> QED
      BY <2>1, <2>2, <2>3, <2>6, <3>1, <1>FirstStays DEF StreamInv
  <2>10. JobIsCurrent'
    BY <2>1, <1>SameJob DEF StreamInv
  <2> QED
    BY <2>1, <2>7, <2>8, <2>9, <2>10 DEF StreamInv, TypeURIs
(* After a reconnection everything is asked for again, a wildcard type       *)
(* first.                                                                    *)
<1>10. ASSUME NEW k \in BOOLEAN, Reconnect(k)
       PROVE  StreamInv'
  <2> USE <1>10
  <2>1. /\ scope' = scope /\ reconnects' = reconnects + 1 /\ reconnects < scope.reconnects
        /\ job' = NoJob /\ failed' = {} /\ down' = <<>> /\ rejected' = {}
    BY DEF Reconnect
  <2>2. /\ \A u \in TypeURIs : proxy'.nonce[u] = 0 /\ proxy'.subscribed[u] = {}
        /\ envoy'.types = envoy.types /\ envoy'.names = envoy.names
        /\ envoy'.version = envoy.version /\ envoy'.has = envoy.has
        /\ \A u \in TypeURIs : envoy'.nonce[u] \in {0, envoy.nonce[u]}
        /\ DOMAIN up' = DOMAIN envoy.types /\ (envoy.types # <<>> => up' # <<>> /\ 1 \in DOMAIN up')
        /\ \A i \in DOMAIN up' :
             /\ up'[i].type = envoy.types[i] /\ up'[i].type \in TypeURIs
             /\ up'[i].names = envoy.names[up'[i].type]
             /\ up'[i].version = envoy.version[up'[i].type]
             /\ up'[i].nonce = envoy'.nonce[up'[i].type] /\ ~up'[i].err
    BY ReconnectEffect
  <2>3. job'.types = <<>> /\ Range(<<>>) = {} /\ reconnects' > 0
    BY <2>1, SMT DEF NoJob, Range, TypeInv
  <2>4. ASSUME NEW t \in TypeURIs PROVE TypeServed(t)'
    <3>0. TypeServed(t)
      BY DEF StreamInv
    <3>1. Subscribed(t)' <=> Subscribed(t)
      BY <2>2 DEF Subscribed
    <3>2. Subscribed(t) <=> ~None(up', t)
      BY <2>2, SMTT(30) DEF Subscribed, None
    <3>3. LastRequestIsTrue(t)'
      BY <2>2, SMTT(30) DEF LastRequestIsTrue, IsLast
    <3>4. LastResponseIsCurrent(t)'
      BY <2>1, SMTT(30) DEF LastResponseIsCurrent
    <3>5. Unasked(t)' /\ NoNames(t)'
      <4>1. Unasked(t) /\ NoNames(t)
        BY <3>0 DEF TypeServed
      <4>2. envoy'.nonce[t] \in {0, envoy.nonce[t]} /\ envoy'.has = envoy.has
        BY <2>2
      <4>3. Unasked(t)'
        BY <3>1, <3>2, <4>1, <4>2 DEF Unasked
      <4>4. proxy'.subscribed[t] = {} /\ envoy'.names = envoy.names
            /\ \A i \in DOMAIN up' : up'[i].names = envoy.names[up'[i].type]
        BY <2>2
      <4>5. NoNames(t)'
        BY <4>1, <4>4 DEF NoNames
      <4> QED
        BY <4>3, <4>5
    <3>6. NonceIsKnown(t)' /\ Agreed(t)' /\ Served(t)'
      BY <2>2, <3>1, <3>2 DEF NonceIsKnown, Agreed, Served, AtRest
    <3> QED
      BY <3>3, <3>4, <3>5, <3>6 DEF TypeServed
  <2>5. JobIsCurrent'
    BY <2>3 DEF JobIsCurrent
  <2>6. FirstIsWildcard'
    <3>1. \A i \in DOMAIN down' : proxy'.nonce[down'[i].type] # 0
      BY <2>1, SMT
    <3>2. envoy.types # <<>> => up' # <<>> /\ IsWildcardTypeURI(up'[1].type) /\ ~up'[1].err
      BY <2>2 DEF StreamInv, FirstIsWildcard
    <3> QED
      <4>1. envoy'.types # <<>> => IsWildcardTypeURI(envoy'.types[1])
        BY <2>2 DEF StreamInv, FirstIsWildcard
      <4>2. "SDS" \notin Range(job'.types) /\ \A t \in Range(job'.types) : FALSE
        BY <2>3
      <4>3. TypeURIs' = TypeURIs /\ reconnects' # 0
        BY <2>1, <2>3, SMT DEF TypeURIs
      <4> QED
        BY <2>2, <3>1, <3>2, <4>1, <4>2, <4>3 DEF FirstIsWildcard
  <2> QED
    BY <2>1, <2>4, <2>5, <2>6 DEF StreamInv, TypeURIs
<1>11. CASE UNCHANGED vars
  <2>1. UNCHANGED <<scope, gen, unpublished, chan, proxy, job, failed, up, down, envoy, rejected, reconnects>>
    BY <1>11 DEF vars, sourceVars, serverVars, proxyVars
  <2>2. ASSUME NEW t \in TypeURIs PROVE TypeServed(t)'
    <3>1. SameWork(t)
      BY <2>1, <1>SameSources DEF SameWork, InJob
    <3> QED
      BY <2>1, <3>1, <1>Untouched DEF StreamInv
  <2>3. JobIsCurrent' /\ FirstIsWildcard'
    BY <2>1, <1>SameJob, <1>FirstStays DEF StreamInv
  <2> QED
    BY <2>1, <2>2, <2>3 DEF StreamInv, TypeURIs
<1>12. CASE EnvoyAcks
  BY <1>8, <1>9, <1>12
<1> QED
  BY <1>1, <1>2, <1>3, <1>4, <1>5, <1>6, <1>7, <1>9, <1>10, <1>11, <1>12
  DEF Next, ServerStep

(* QuietIsCurrent, for any types, names, changes, and reconnections or       *)
(* failures, as long as there are not both: when nothing is under way, the   *)
(* proxy has the current contents of what it wants, and server and proxy     *)
(* agree on what that is (respondToRequest, sendResponse).                   *)
THEOREM QuietStreamsAreCurrent == Spec => [](NotBoth => QuietIsCurrent)
<1>1. TypeInv /\ StreamInv => QuietIsCurrent
  <2> SUFFICES ASSUME TypeInv, StreamInv, Quiet,
                      NEW t \in TypeURIs \ (failed \cup rejected), Subscribed(t)
               PROVE  /\ \A n \in Wanted(t) : envoy.has[t][n] = gen[Source(t)]
                      /\ proxy.subscribed[t] = envoy.names[t]
                      /\ proxy.applied[t] = envoy.version[t]
    BY DEF QuietIsCurrent
  <2>1. t \in TypeURIs
    OBVIOUS
  <2>2. AtRest(t) /\ None(up, t)
    BY NothingToDo, SMT DEF AtRest, Quiet, None, Subscribed
  <2>3. /\ proxy.nonce[t] # 0 /\ envoy.nonce[t] = proxy.nonce[t]
        /\ proxy.subscribed[t] = envoy.names[t] /\ proxy.applied[t] = envoy.version[t]
        /\ ~IsWildcardTypeURI(t) => proxy.lastSent[t] = envoy.names[t]
    BY <2>1, <2>2 DEF StreamInv, TypeServed, Agreed
  <2>4. Wanted(t) = Sent(t)
    BY <2>3 DEF Wanted, Sent
  <2>5. \A n \in Wanted(t) : Current(envoy.has[t][n], t)
    BY <2>1, <2>2, <2>3, <2>4 DEF StreamInv, TypeServed, Served
  <2>6. ~SourcePending(t)
    BY SMT DEF SourcePending, Quiet, Source, Sources
  <2> QED
    BY <2>3, <2>5, <2>6 DEF Current
<1>2. Init => StreamInv
  <2> SUFFICES ASSUME Init PROVE StreamInv
    OBVIOUS
  <2>1. /\ up = <<>> /\ down = <<>> /\ job.types = <<>> /\ reconnects = 0 /\ envoy.types = <<>>
        /\ \A t \in TypeURIs :
             /\ proxy.nonce[t] = 0 /\ proxy.subscribed[t] = {}
             /\ envoy.names[t] = {} /\ envoy.nonce[t] = 0
             /\ \A n \in Names \cup {All} : envoy.has[t][n] = 0
    BY DEF Init, NewProxy, NoJob
  <2>2. Range(<<>>) = {}
    BY SMT DEF Range
  <2>3. ASSUME NEW t \in TypeURIs PROVE TypeServed(t)
    <3>1. ~Subscribed(t)
      BY <2>1, <2>2, SMT DEF Subscribed
    <3> QED
      <4>1. None(up, t) /\ LastRequestIsTrue(t) /\ LastResponseIsCurrent(t)
        BY <2>1, SMT DEF None, LastRequestIsTrue, LastResponseIsCurrent
      <4>2. Unasked(t)
        BY <2>1, <4>1 DEF Unasked
      <4>3. NoNames(t)
        BY <2>1, SMT DEF NoNames
      <4>4. NonceIsKnown(t) /\ Agreed(t) /\ Served(t)
        BY <3>1 DEF NonceIsKnown, Agreed, Served, AtRest
      <4> QED
        BY <4>1, <4>2, <4>3, <4>4 DEF TypeServed
  <2>4. FirstIsWildcard
    BY <2>1, <2>2, SMTT(30) DEF FirstIsWildcard, Subscribed
  <2> QED
    BY <2>1, <2>3, <2>4 DEF StreamInv, JobIsCurrent
<1>3. TypeInv /\ [Next]_vars /\ NotBoth' => NotBoth
  <2> SUFFICES ASSUME TypeInv, [Next]_vars, NotBoth' PROVE NotBoth
    OBVIOUS
  <2>1. \/ UNCHANGED <<failures, reconnects>>
        \/ failures' = failures + 1 /\ reconnects' = reconnects
        \/ failures' = failures /\ reconnects' = reconnects + 1
    BY DEF Next, vars, Change, Publish, ServerStep, HandleRequest, HandleProxyUpdate,
           HandleCertRotation, GenerateResources, SendDiscoveryResponse, GenerateFails,
           EnvoySubscribes, EnvoyChangesNames, EnvoyAcks, EnvoyNacks, Reconnect, proxyVars
  <2>2. failures \in Nat /\ reconnects \in Nat
    BY DEF TypeInv
  <2> QED
    BY <2>1, <2>2, SMT DEF NotBoth
<1>4. TypeInv /\ StreamInv /\ [Next]_vars /\ NotBoth' => StreamInv'
  BY StreamStep
<1> QED
  BY <1>1, <1>2, <1>3, <1>4, TypeInvariant, PTL DEF Spec
-----------------------------------------------------------------------------
(* The account of the responses that are still to come.  A request of type t *)
(* that is not ignored when k is the last nonce sent, and one that is        *)
(* answered whatever it names (respondToRequest).                            *)
Heard(r, k, t) == r.type = t /\ ~r.err /\ (r.nonce = 0 \/ k = 0 \/ r.nonce = k)
Asks(r, k) == r.nonce = 0 \/ k = 0

(* The names that the server knows after i requests, s being those it knows  *)
(* now.                                                                      *)
Told(q, s, i) == IF i = 0 THEN s ELSE q[i].names
Stop(q, k, t, i) == i = 0 \/ Heard(q[i], k, t)

(* f[i] responses are enough for what follows the first i requests: one for  *)
(* every request that asks, one wherever the names that are heard change,    *)
(* and one if they are not in the end the names e that the proxy wants.      *)
Covers(f, q, k, s, e, t) ==
  /\ \A i, j \in Nat : i <= j /\ j <= Len(q) => f[j] <= f[i]
  /\ \A i, j \in Nat :
       /\ i < j /\ j <= Len(q) /\ Stop(q, k, t, i) /\ Heard(q[j], k, t)
       /\ Asks(q[j], k) \/ Told(q, s, i) # q[j].names
       => f[j] < f[i]
  /\ \A i \in Nat : i <= Len(q) /\ Stop(q, k, t, i) /\ Told(q, s, i) # e => f[i] > 0

(* A queue p whose requests are some of q, in order. *)
Within(at, p, q) ==
  /\ \A i, j \in Nat : i < j /\ j <= Len(p) => at[i] < at[j]
  /\ \A i \in Nat : i <= Len(p) => at[i] <= Len(q)

(* The requests of p are some of those of q, in order, and are heard no      *)
(* more, seen by one type; u are the names known before those of p.          *)
Carries(at, p, u, q, k, s, t) ==
  /\ at \in [Nat -> Nat] /\ Len(p) \in Nat /\ Len(q) \in Nat /\ Within(at, p, q)
  /\ \A i \in Nat : i <= Len(p) => Told(p, u, i) = Told(q, s, at[i])
  /\ \A i \in Nat : i <= Len(p) /\ Stop(p, k, t, i) => Stop(q, k, t, at[i])
  /\ \A i \in Nat : i # 0 /\ i <= Len(p) /\ Heard(p[i], k, t) => Heard(q[at[i]], k, t)
  /\ \A i \in Nat : i # 0 /\ i <= Len(p) /\ Heard(p[i], k, t) /\ Asks(p[i], k) => Asks(q[at[i]], k)

(* Reading the first request.  One that is ignored, or is of another type,   *)
(* leaves the account of type t as it is; one that is heard is answered, or  *)
(* has the names that the server knows.                                      *)
OnceRead(f, q, k, s, e, t) ==
  /\ ~Heard(q[1], k, t) =>
       \E g \in [Nat -> Nat] : g[0] = f[0] /\ Covers(g, Tail(q), k, s, e, t)
  /\ Heard(q[1], k, t) =>
       \E g \in [Nat -> Nat] :
         /\ Covers(g, Tail(q), k, q[1].names, e, t)
         /\ g[0] <= f[0] /\ (Asks(q[1], k) \/ s # q[1].names => g[0] < f[0])

(* A number that is enough before the request is read is so after it.        *)
LEMMA CoversTail ==
  ASSUME NEW S, NEW q \in Seq(S), q # <<>>, NEW k, NEW s, NEW e, NEW t,
         NEW f \in [Nat -> Nat], Covers(f, q, k, s, e, t)
  PROVE  OnceRead(f, q, k, s, e, t)
<1> DEFINE p == Tail(q)
<1>1. /\ Len(p) \in Nat /\ Len(q) = Len(p) + 1 /\ Len(q) \in Nat
      /\ \A i \in Nat : i # 0 /\ i <= Len(p) => p[i] = q[i + 1]
  <2>1. /\ Len(q) \in Nat /\ Len(q) > 0 /\ Len(p) = Len(q) - 1
        /\ \A i \in 1..(Len(q) - 1) : p[i] = q[i + 1]
    BY SMT
  <2> QED
    BY <2>1, SMT
<1> HIDE DEF p
(* What is enough for a queue is enough for a part of it in which no more is *)
(* heard.                                                                    *)
<1>2. ASSUME NEW u, NEW at, Carries(at, p, u, q, k, s, t)
      PROVE  Covers([i \in Nat |-> f[at[i]]], p, k, u, e, t)
  <2> USE <1>2
  <2>0. /\ at \in [Nat -> Nat] /\ Len(p) \in Nat /\ Len(q) \in Nat /\ Within(at, p, q)
        /\ \A i \in Nat : i <= Len(p) => Told(p, u, i) = Told(q, s, at[i])
        /\ \A i \in Nat : i <= Len(p) /\ Stop(p, k, t, i) => Stop(q, k, t, at[i])
        /\ \A i \in Nat : i # 0 /\ i <= Len(p) /\ Heard(p[i], k, t) => Heard(q[at[i]], k, t)
        /\ \A i \in Nat : i # 0 /\ i <= Len(p) /\ Heard(p[i], k, t) /\ Asks(p[i], k) => Asks(q[at[i]], k)
    BY DEF Carries
  (* The order of the requests is kept. *)
  <2>a. ASSUME NEW i \in Nat, NEW j \in Nat, j <= Len(p)
        PROVE  /\ at[j] <= Len(q)
               /\ i <= j => i <= Len(p) /\ at[i] <= at[j]
               /\ i < j => i <= Len(p) /\ j # 0 /\ at[i] < at[j] /\ at[j] # 0
    <3> USE <2>0, <2>a
    <3>1. at[i] \in Nat /\ at[j] \in Nat /\ at[j] <= Len(q)
      BY DEF Within
    <3>2. ASSUME i < j PROVE at[i] < at[j]
      BY <3>2 DEF Within
    <3>3. i <= j => i <= Len(p)
      BY SMT
    <3>4. i < j => j # 0
      BY SMT
    <3>5. i < j => at[j] # 0
      BY <3>1, <3>2, SMT
    <3>6. i <= j => at[i] <= at[j]
      <4>1. CASE i = j
        BY <3>1, <4>1, SMT
      <4>2. CASE i < j
        BY <3>1, <3>2, <4>2, SMT
      <4> QED
        BY <4>1, <4>2, SMT
    <3>7. i < j => i <= Len(p)
      BY SMT
    <3> QED
      BY <3>1, <3>2, <3>3, <3>4, <3>5, <3>6, <3>7
  <2> DEFINE g == [i \in Nat |-> f[at[i]]]
  <2>1. g \in [Nat -> Nat] /\ \A i \in Nat : g[i] = f[at[i]] /\ at[i] \in Nat
    BY <2>0
  <2> HIDE DEF g
  <2>2. ASSUME NEW i \in Nat, NEW j \in Nat, i <= j, j <= Len(p) PROVE g[j] <= g[i]
    <3>1. at[i] <= at[j] /\ at[j] <= Len(q)
      BY <2>0, <2>2, <2>a
    <3> QED
      BY <2>1, <3>1 DEF Covers
  <2>3. ASSUME NEW i \in Nat, NEW j \in Nat, i < j, j <= Len(p), Stop(p, k, t, i), Heard(p[j], k, t),
               Asks(p[j], k) \/ Told(p, u, i) # p[j].names
        PROVE  g[j] < g[i]
    <3>1. i < j /\ j <= Len(p)
      BY <2>3
    <3>2. i <= Len(p) /\ j # 0 /\ at[i] < at[j] /\ at[j] <= Len(q) /\ at[j] # 0
      BY <2>0, <3>1, <2>a
    <3>3. /\ Stop(q, k, t, at[i]) /\ Told(p, u, i) = Told(q, s, at[i])
          /\ Heard(q[at[j]], k, t) /\ (Asks(p[j], k) => Asks(q[at[j]], k))
      BY <2>0, <2>3, <3>2
    <3>4. p[j].names = q[at[j]].names
      BY <2>0, <3>1, <3>2 DEF Told
    <3> QED
      BY <2>1, <2>3, <3>2, <3>3, <3>4, ZenonT(30) DEF Covers
  <2>4. ASSUME NEW i \in Nat, i <= Len(p), Stop(p, k, t, i), Told(p, u, i) # e PROVE g[i] > 0
    <3>1. at[i] <= Len(q) /\ Stop(q, k, t, at[i]) /\ Told(q, s, at[i]) # e
      BY <2>0, <2>4 DEF Within
    <3> QED
      BY <2>1, <3>1 DEF Covers
  <2>5. Covers(g, p, k, u, e, t)
    BY <2>2, <2>3, <2>4 DEF Covers
  <2> QED
    BY <2>5 DEF g
<1>3. ASSUME ~Heard(q[1], k, t)
      PROVE  \E g \in [Nat -> Nat] : g[0] = f[0] /\ Covers(g, Tail(q), k, s, e, t)
  <2> USE <1>3
  <2> DEFINE at == [i \in Nat |-> IF i = 0 THEN 0 ELSE i + 1]
  <2>1. at \in [Nat -> Nat] /\ at[0] = 0
    BY SMT
  <2>2. \A i \in Nat : i # 0 => at[i] = i + 1 /\ at[i] # 0
    BY SMT
  <2> HIDE DEF at
  <2>3. Within(at, p, q)
    <3>1. ASSUME NEW i \in Nat, NEW j \in Nat, i < j PROVE at[i] < at[j]
      <4>1. at[j] = j + 1
        BY <2>2, <3>1, SMT
      <4>2. CASE i = 0
        BY <2>1, <3>1, <4>1, <4>2, SMT
      <4>3. CASE i # 0
        BY <2>2, <3>1, <4>1, <4>3, SMT
      <4> QED
        BY <4>2, <4>3
    <3>2. ASSUME NEW i \in Nat, i <= Len(p) PROVE at[i] <= Len(q)
      <4>1. CASE i = 0
        BY <1>1, <2>1, <4>1, SMT
      <4>2. CASE i # 0
        BY <1>1, <2>2, <3>2, <4>2, SMT
      <4> QED
        BY <4>1, <4>2
    <3> QED
      BY <3>1, <3>2 DEF Within
  <2>4. ASSUME NEW i \in Nat, i # 0, i <= Len(p) PROVE p[i] = q[at[i]] /\ at[i] # 0
    BY <1>1, <2>2, <2>4
  <2>5. ASSUME NEW i \in Nat, i <= Len(p)
        PROVE  Told(p, s, i) = Told(q, s, at[i]) /\ (Stop(p, k, t, i) => Stop(q, k, t, at[i]))
    BY <2>1, <2>4, <2>5 DEF Told, Stop
  <2>6. Carries(at, p, s, q, k, s, t)
    BY <1>1, <2>1, <2>3, <2>4, <2>5 DEF Carries
  <2> DEFINE g == [i \in Nat |-> f[at[i]]]
  <2>7. Covers(g, p, k, s, e, t)
    BY <2>6, <1>2
  <2>8. g \in [Nat -> Nat] /\ g[0] = f[0]
    BY <2>1
  <2> HIDE DEF g
  <2> QED
    BY <2>7, <2>8 DEF p
<1>4. ASSUME Heard(q[1], k, t)
      PROVE  \E g \in [Nat -> Nat] :
               /\ Covers(g, Tail(q), k, q[1].names, e, t)
               /\ g[0] <= f[0] /\ (Asks(q[1], k) \/ s # q[1].names => g[0] < f[0])
  <2> USE <1>4
  <2> DEFINE at == [i \in Nat |-> i + 1]
             u == q[1].names
  <2>1. at \in [Nat -> Nat] /\ at[0] = 1
    BY SMT
  <2>2. \A i \in Nat : at[i] = i + 1 /\ at[i] # 0
    BY SMT
  <2> HIDE DEF at
  <2>3. Within(at, p, q)
    <3>1. ASSUME NEW i \in Nat, NEW j \in Nat, i < j PROVE at[i] < at[j]
      BY <2>2, <3>1, SMT
    <3>2. ASSUME NEW i \in Nat, i <= Len(p) PROVE at[i] <= Len(q)
      BY <1>1, <2>2, <3>2, SMT
    <3> QED
      BY <3>1, <3>2 DEF Within
  <2>4. ASSUME NEW i \in Nat, i # 0, i <= Len(p) PROVE p[i] = q[at[i]]
    BY <1>1, <2>2, <2>4
  <2>5. ASSUME NEW i \in Nat, i <= Len(p)
        PROVE  Told(p, u, i) = Told(q, s, at[i]) /\ (Stop(p, k, t, i) => Stop(q, k, t, at[i]))
    <3>1. CASE i = 0
      BY <2>1, <3>1, SMT DEF Told, Stop
    <3>2. CASE i # 0
      BY <2>2, <2>4, <2>5, <3>2 DEF Told, Stop
    <3> QED
      BY <3>1, <3>2
  <2> HIDE DEF u
  <2>6. Carries(at, p, u, q, k, s, t)
    BY <1>1, <2>1, <2>3, <2>4, <2>5 DEF Carries
  <2> DEFINE g == [i \in Nat |-> f[at[i]]]
  <2>7. Covers(g, p, k, u, e, t)
    BY <2>6, <1>2
  <2>8. g \in [Nat -> Nat] /\ g[0] = f[1]
    BY <2>1
  <2> HIDE DEF g
  <2>9. f[1] <= f[0]
    BY <1>1, SMT DEF Covers
  <2>10. ASSUME Asks(q[1], k) \/ s # q[1].names PROVE f[1] < f[0]
    <3>1. 0 \in Nat /\ 1 \in Nat /\ 0 < 1 /\ 1 <= Len(q)
      BY <1>1, SMT
    <3>2. Stop(q, k, t, 0) /\ Told(q, s, 0) = s
      BY DEF Stop, Told
    <3> QED
      BY <2>10, <3>1, <3>2 DEF Covers
  <2> QED
    BY <2>7, <2>8, <2>9, <2>10 DEF p, u
<1> QED
  BY <1>3, <1>4 DEF OnceRead

(* A new request has the names w the proxy wants now, and needs d responses  *)
(* of its own: at least one if it asks, or if it wanted other names before.  *)
Adds(m, k, e, w, t, d) ==
  /\ Heard(m, k, t) => m.names = w
  /\ d = 0 => w = e /\ (Heard(m, k, t) => ~Asks(m, k))

(* With these responses there are enough for the longer queue. *)
LEMMA CoversMore ==
  ASSUME NEW S, NEW q \in Seq(S), NEW m \in S, NEW k, NEW s, NEW e, NEW w, NEW t, NEW d \in Nat,
         Adds(m, k, e, w, t, d),
         NEW f \in [Nat -> Nat], Covers(f, q, k, s, e, t)
  PROVE  Covers([i \in Nat |-> IF i <= Len(q) THEN f[i] + d ELSE 0], Append(q, m), k, s, w, t)
<1>0. /\ Heard(m, k, t) => m.names = w
      /\ d = 0 => w = e /\ (Heard(m, k, t) => ~Asks(m, k))
  BY DEF Adds
<1>1. PICK n \in Nat : n = Len(q) /\ n + 1 = Len(Append(q, m))
  BY SMT
<1> DEFINE p == Append(q, m)
           g == [i \in Nat |-> IF i <= n THEN f[i] + d ELSE 0]
<1>2. p[n + 1] = m /\ \A i \in Nat : i # 0 /\ i <= n => p[i] = q[i]
  <2>1. p[n + 1] = m
    BY <1>1, SMT
  <2>2. \A i \in 1 .. n : p[i] = q[i]
    BY <1>1, SMT
  <2>3. \A i \in Nat : i # 0 /\ i <= n => i \in 1 .. n
    BY SMT
  <2> QED
    BY <2>1, <2>2, <2>3
<1>3. n + 1 = Len(p)
  BY <1>1
<1> HIDE DEF p
<1>4. g \in [Nat -> Nat] /\ g[0] = f[0] + d
  <2>1. \A i \in Nat : f[i] + d \in Nat
    <3>1. \A a \in Nat : a + d \in Nat
      BY SMT
    <3> QED
      BY <3>1
  <2>2. g \in [Nat -> Nat]
    BY <2>1
  <2>3. g[0] = f[0] + d
    BY SMT
  <2> QED
    BY <2>2, <2>3
<1>5. \A i \in Nat : i <= n => g[i] = f[i] + d
  OBVIOUS
<1>6. \A i \in Nat : i > n => g[i] = 0
  BY SMT
<1> HIDE DEF g
<1>7. ASSUME NEW i \in Nat, i <= n
      PROVE  Told(p, s, i) = Told(q, s, i) /\ (Stop(p, k, t, i) => Stop(q, k, t, i))
  BY <1>2, <1>7 DEF Told, Stop
<1>8. ASSUME NEW i \in Nat, i <= n, Stop(p, k, t, i), d # 0 \/ Told(p, s, i) # e PROVE g[i] > 0
  <2>1. f[i] \in Nat /\ (d # 0 => f[i] + d > 0)
    BY SMTT(30)
  <2>2. CASE d # 0
    BY <1>5, <1>8, <2>1, <2>2
  <2>3. CASE Told(p, s, i) # e
    <3>1. f[i] > 0
      BY <1>1, <1>7, <1>8, <2>3 DEF Covers
    <3>2. f[i] + d > 0 /\ g[i] = f[i] + d
      <4>1. g[i] = f[i] + d
        BY <1>5, <1>8
      <4>2. f[i] + d > 0
        BY <3>1, SMT
      <4> QED
        BY <4>1, <4>2
    <3> QED
      BY <3>2
  <2> QED
    BY <1>8, <2>2, <2>3
<1>9. ASSUME NEW i \in Nat, NEW j \in Nat, i <= j, j <= n + 1 PROVE g[j] <= g[i]
  <2>1. CASE j <= n
    <3>1. i <= n
      BY <1>9, <2>1, SMT
    <3>2. f[j] <= f[i]
      BY <1>1, <1>9, <2>1 DEF Covers
    <3> QED
      BY <1>5, <2>1, <3>1, <3>2, SMT
  <2>2. CASE j > n
    BY <1>4, <1>6, <2>2, SMT
  <2> QED
    BY <2>1, <2>2, SMT
<1>10. ASSUME NEW i \in Nat, NEW j \in Nat, i < j, j <= n + 1, Stop(p, k, t, i), Heard(p[j], k, t),
              Asks(p[j], k) \/ Told(p, s, i) # p[j].names
       PROVE  g[j] < g[i]
  <2>0. i < j /\ j <= n + 1
    BY <1>10
  <2>1. i <= n /\ j # 0
    BY <2>0, SMTT(30)
  <2>2. CASE j <= n
    <3>1. p[j] = q[j]
      BY <1>2, <2>1, <2>2
    <3>2. f[j] < f[i]
      BY <1>1, <1>7, <1>10, <2>1, <2>2, <3>1 DEF Covers
    <3> QED
      BY <1>5, <2>1, <2>2, <3>2, SMT
  <2>3. CASE j > n
    <3>1. j = n + 1
      BY <2>0, <2>3, SMT
    <3>2. d # 0 \/ Told(p, s, i) # e
      BY <1>0, <1>2, <1>10, <3>1
    <3> QED
      BY <1>6, <1>8, <1>10, <2>1, <2>3, <3>2
  <2> QED
    BY <2>2, <2>3, SMT
<1>11. ASSUME NEW i \in Nat, i <= n + 1, Stop(p, k, t, i), Told(p, s, i) # w PROVE g[i] > 0
  <2>1. CASE i <= n
    BY <1>0, <1>8, <1>11, <2>1
  <2>2. CASE i > n
    <3>1. i = n + 1 /\ i # 0
      BY <1>11, <2>2, SMT
    <3> QED
      BY <1>0, <1>2, <1>11, <3>1 DEF Stop, Told
  <2> QED
    BY <2>1, <2>2, SMT
<1>12. Covers(g, p, k, s, w, t)
  BY <1>3, <1>9, <1>10, <1>11 DEF Covers
<1> QED
  BY <1>1, <1>12 DEF p, g

(* A new stream, on which the proxy asks once for every type it has: a       *)
(* single response of type t is enough, and none if it has not asked for it. *)
LEMMA CoversAnew ==
  ASSUME NEW S, NEW q \in Seq(S), NEW e, NEW t,
         \A i \in Nat : i # 0 /\ i <= Len(q) /\ q[i].type = t => q[i].names = e,
         \A i, j \in Nat : (/\ i # 0 /\ i <= Len(q) /\ q[i].type = t
                            /\ j # 0 /\ j <= Len(q) /\ q[j].type = t) => i = j
  PROVE  /\ \E f \in [Nat -> Nat] : f[0] = 1 /\ Covers(f, q, 0, {}, e, t)
         /\ (\A i \in Nat : i # 0 /\ i <= Len(q) => q[i].type # t) /\ e = {} =>
              \E f \in [Nat -> Nat] : f[0] = 0 /\ Covers(f, q, 0, {}, e, t)
<1>1. Len(q) \in Nat
  BY SMT
<1> DEFINE of(j) == j # 0 /\ j <= Len(q) /\ q[j].type = t
           f == [i \in Nat |-> IF \E j \in Nat : j <= i /\ of(j) THEN 0 ELSE 1]
<1>2. \A i, j \in Nat : of(i) /\ of(j) => i = j
  OBVIOUS
<1>3. \A i \in Nat : of(i) => q[i].names = e
  OBVIOUS
<1>4. ~of(0) /\ \A j \in Nat : j <= Len(q) /\ Heard(q[j], 0, t) /\ j # 0 => of(j)
  BY DEF Heard
<1> HIDE DEF of
<1>5. f \in [Nat -> Nat] /\ \A i \in Nat : f[i] = IF \E j \in Nat : j <= i /\ of(j) THEN 0 ELSE 1
  OBVIOUS
<1> HIDE DEF f
<1>6. f[0] = 1
  <2>1. ASSUME NEW j \in Nat, j <= 0 PROVE ~of(j)
    <3>1. j = 0
      BY <2>1, SMT
    <3> QED
      BY <1>4, <3>1
  <2> QED
    BY <1>5, <2>1
<1>7. ASSUME NEW i \in Nat, NEW j \in Nat, i <= j PROVE f[j] <= f[i]
  <2>1. CASE \E h \in Nat : h <= i /\ of(h)
    <3>1. PICK h \in Nat : h <= i /\ of(h)
      BY <2>1
    <3>2. h <= j
      BY <1>7, <3>1, SMT
    <3>3. f[j] = 0
      BY <1>5, <3>1, <3>2
    <3> QED
      BY <1>5, <3>3, SMT
  <2>2. CASE ~\E h \in Nat : h <= i /\ of(h)
    <3>1. f[i] = 1
      BY <1>5, <2>2
    <3>2. f[j] = 0 \/ f[j] = 1
      BY <1>5
    <3> QED
      BY <3>1, <3>2, SMT
  <2> QED
    BY <2>1, <2>2
<1>8. ASSUME NEW i \in Nat, NEW j \in Nat, i < j, j <= Len(q), Heard(q[j], 0, t) PROVE f[j] < f[i]
  <2>0. i < j /\ j <= Len(q)
    BY <1>8
  <2>1. j # 0 /\ j <= j
    BY <2>0, SMT
  <2>2. of(j)
    BY <1>4, <1>8, <2>1
  <2>3. f[j] = 0
    BY <1>5, <2>1, <2>2
  <2>4. ASSUME NEW h \in Nat, h <= i PROVE ~of(h)
    <3>1. h # j
      BY <2>0, <2>4, SMT
    <3> QED
      BY <1>2, <2>2, <3>1
  <2>5. f[i] = 1
    BY <1>5, <2>4
  <2> QED
    BY <2>3, <2>5, SMT
<1>9. ASSUME NEW i \in Nat, i <= Len(q), Stop(q, 0, t, i), Told(q, {}, i) # e PROVE f[i] > 0
  <2>1. i = 0
    BY <1>3, <1>4, <1>9 DEF Stop, Told
  <2> QED
    BY <1>6, <2>1, SMT
<1>10. Covers(f, q, 0, {}, e, t)
  BY <1>7, <1>8, <1>9 DEF Covers
<1>11. ASSUME \A i \in Nat : i # 0 /\ i <= Len(q) => q[i].type # t, e = {}
       PROVE  \E g \in [Nat -> Nat] : g[0] = 0 /\ Covers(g, q, 0, {}, e, t)
  <2> DEFINE g == [i \in Nat |-> 0]
  <2>1. g \in [Nat -> Nat] /\ \A i \in Nat : g[i] = 0
    OBVIOUS
  <2> HIDE DEF g
  <2>2. \A j \in Nat : j # 0 /\ j <= Len(q) => ~Heard(q[j], 0, t)
    BY <1>11 DEF Heard
  <2>3. ASSUME NEW i \in Nat, NEW j \in Nat, i < j, j <= Len(q) PROVE ~Heard(q[j], 0, t)
    BY <2>2, <2>3, SMT
  <2>4. ASSUME NEW i \in Nat, i <= Len(q), Stop(q, 0, t, i) PROVE Told(q, {}, i) = e
    BY <1>11, <2>2, <2>4 DEF Stop, Told
  <2>5. \A i, j \in Nat : g[j] <= g[i]
    BY <2>1, SMT
  <2>6. Covers(g, q, 0, {}, e, t)
    BY <2>3, <2>4, <2>5 DEF Covers
  <2> QED
    BY <2>1, <2>6
<1> QED
  BY <1>5, <1>6, <1>10, <1>11
-----------------------------------------------------------------------------
(* What the account rests on.  Nonces under way are of the past, and those   *)
(* of responses of this stream; a wildcard type has no names; the names of a *)
(* job for a request, and of made resources, are those subscribed to.        *)
RequestOk(r) == r.nonce <= nonces /\ (IsWildcardTypeURI(r.type) => r.names = {})
RequestsOk == \A i \in DOMAIN up : RequestOk(up[i])
ResponseOk(r) == r.nonce # 0 /\ r.nonce <= nonces /\ proxy.nonce[r.type] # 0
ResponsesOk == \A i \in DOMAIN down : ResponseOk(down[i])
TypesOnce == \A i, j \in DOMAIN envoy.types : envoy.types[i] = envoy.types[j] => i = j
JobOk ==
  /\ job.types # <<>> /\ (~job.driven \/ job.made # -1) => job.names = proxy.subscribed[Head(job.types)]
  /\ ~job.driven => Len(job.types) <= 1
TypeOk(t) ==
  /\ envoy.nonce[t] <= nonces
  /\ ~Subscribed(t) => envoy.names[t] = {}
  /\ IsWildcardTypeURI(t) =>
       envoy.names[t] = {} /\ proxy.subscribed[t] = {} /\ proxy.lastSent[t] = {}

(* The types of Envoy and a sum over them, which at one for each type in use *)
(* is the number of these.                                                   *)
AllTypes == {"CDS", "EDS", "LDS", "RDS", "SDS"}
Total(o) == o["CDS"] + o["EDS"] + o["LDS"] + o["RDS"] + o["SDS"]
TypesCounted ==
  /\ Cardinality(TypeURIs) \in Nat
  /\ \A o \in [AllTypes -> Nat] :
       (\A t \in AllTypes : o[t] = IF t \in TypeURIs THEN 1 ELSE 0) => Total(o) = Cardinality(TypeURIs)

Consistent ==
  /\ nameChanges \in Nat /\ TypesCounted
  /\ RequestsOk /\ ResponsesOk /\ TypesOnce /\ JobOk
  /\ \A t \in TypeURIs : TypeOk(t)

(* The scope of a behaviour does not change, nor do the types in use. *)
LEMMA SameScope ==
  ASSUME [Next]_vars PROVE scope' = scope /\ TypeURIs' = TypeURIs
<1>1. scope' = scope
  BY DEF Next, vars, Change, Publish, ServerStep, HandleRequest, HandleProxyUpdate,
         HandleCertRotation, GenerateResources, SendDiscoveryResponse, GenerateFails,
         EnvoySubscribes, EnvoyChangesNames, EnvoyAcks, EnvoyNacks, Reconnect
<1> QED
  BY <1>1 DEF TypeURIs

(* A job that goes on has one type less. *)
LEMMA NextTypeLen ==
  ASSUME job \in Jobs, job.types # <<>>
  PROVE  /\ Len(job.types) \in Nat /\ Len(NextType.types) = Len(job.types) - 1
         /\ NextType.types = <<>> \/ NextType.driven = job.driven
         /\ Len(job.types) = 1 => NextType = NoJob /\ NextType.types = <<>>
<1>1. job.types \in Seq(TypeURIs) /\ Len(job.types) \in Nat /\ Len(job.types) > 0
  BY SMT DEF Jobs
<1>2. CASE Len(job.types) = 1
  <2>1. NextType = NoJob /\ NextType.types = <<>>
    BY <1>2 DEF NextType, NoJob
  <2> QED
    BY <1>1, <1>2, <2>1, SMT
<1>3. CASE Len(job.types) # 1
  <2>1. NextType.types = Tail(job.types) /\ NextType.driven = job.driven
    BY <1>3 DEF NextType, Jobs
  <2>2. Len(Tail(job.types)) = Len(job.types) - 1
    <3> DEFINE s == job.types
    <3>1. s \in Seq(TypeURIs) /\ s # <<>>
      BY <1>1
    <3> HIDE DEF s
    <3>2. Len(Tail(s)) = Len(s) - 1
      BY <3>1, SMT
    <3> QED
      BY <3>2 DEF s
  <2> QED
    BY <1>1, <1>3, <2>1, <2>2
<1> QED
  BY <1>2, <1>3

(* respondToRequest: the server takes the names of a request it hears and    *)
(* ignores the others; it answers none that it does not hear.                *)
LEMMA HandleEffect ==
  ASSUME TypeInv, Consistent, HandleRequest, NEW r, r = Head(up)
  PROVE  /\ up \in Seq(Requests) /\ up # <<>> /\ r = up[1] /\ up' = Tail(up) /\ job.types = <<>>
         /\ r \in Requests /\ RequestOk(r) /\ r.type \in TypeURIs
         /\ proxy'.nonce = proxy.nonce /\ proxy'.lastSent = proxy.lastSent
         /\ \A u \in TypeURIs \ {r.type} : proxy'.subscribed[u] = proxy.subscribed[u]
         /\ Heard(r, proxy.nonce[r.type], r.type) => proxy'.subscribed[r.type] = r.names
         /\ ~Heard(r, proxy.nonce[r.type], r.type) =>
              proxy'.subscribed[r.type] = proxy.subscribed[r.type] /\ ~RespondToRequest(r)
         /\ ~RespondToRequest(r) => job' = NoJob
         /\ RespondToRequest(r) => /\ job'.types = <<r.type>> /\ job'.names = r.names
                                   /\ ~job'.driven /\ Len(job'.types) = 1
<1>1. up \in Seq(Requests) /\ up # <<>> /\ up' = Tail(up) /\ proxy \in Proxies /\ job.types = <<>>
  BY DEF HandleRequest, TypeInv, NoJob
<1>2. r \in Requests /\ r = up[1] /\ 1 \in DOMAIN up
  BY <1>1, SMT
<1>3. RequestOk(r) /\ r.type \in TypeURIs
  BY <1>2 DEF Consistent, RequestsOk, Requests
<1>4. proxy' = AfterRequest(r)
  BY DEF HandleRequest
<1>5. /\ proxy'.nonce = proxy.nonce /\ proxy'.lastSent = proxy.lastSent
      /\ \A u \in TypeURIs \ {r.type} : proxy'.subscribed[u] = proxy.subscribed[u]
  BY <1>1, <1>2, <1>4, AfterRequestType
<1>6. ASSUME Heard(r, proxy.nonce[r.type], r.type) PROVE proxy'.subscribed[r.type] = r.names
  <2>1. ~r.err /\ (r.nonce = 0 \/ proxy.nonce[r.type] = 0 \/ r.nonce = proxy.nonce[r.type])
    BY <1>6 DEF Heard
  <2>2. CASE r.nonce = 0
    BY <1>1, <1>2, <1>4, <2>1, <2>2, SubscribeType DEF AfterRequest
  <2>3. CASE r.nonce # 0 /\ proxy.nonce[r.type] = 0
    BY <1>1, <1>2, <1>4, <2>1, <2>3, SubscribeType, AdoptType DEF AfterRequest
  <2>4. CASE r.nonce # 0 /\ proxy.nonce[r.type] # 0
    <3>1. ~StaleNonce(r)
      BY <2>1, <2>4 DEF StaleNonce
    <3>2. CASE IsWildcardTypeURI(r.type)
      <4>1. proxy' = Acked(r)
        BY <1>4, <2>1, <2>4, <3>1, <3>2 DEF AfterRequest
      <4>2. proxy'.subscribed[r.type] = proxy.subscribed[r.type]
        BY <1>1, <1>2, <4>1, AckedType
      <4>3. proxy.subscribed[r.type] = {} /\ r.names = {}
        BY <1>3, <3>2 DEF Consistent, TypeOk, RequestOk
      <4> QED
        BY <4>2, <4>3
    <3>3. CASE ~IsWildcardTypeURI(r.type)
      <4>1. proxy' = Subscribe(Acked(r), r)
        BY <1>4, <2>1, <2>4, <3>1, <3>3 DEF AfterRequest
      <4> QED
        BY <1>1, <1>2, <4>1, SubscribeType, AckedType
    <3> QED
      BY <3>2, <3>3
  <2> QED
    BY <2>2, <2>3, <2>4
<1>7. ASSUME ~Heard(r, proxy.nonce[r.type], r.type)
      PROVE  proxy'.subscribed[r.type] = proxy.subscribed[r.type] /\ ~RespondToRequest(r)
  BY <1>4, <1>7 DEF Heard, AfterRequest, StaleNonce, RespondToRequest
<1>8. ~RespondToRequest(r) => job' = NoJob
  BY DEF HandleRequest
<1>9. ASSUME RespondToRequest(r)
      PROVE  job'.types = <<r.type>> /\ job'.names = r.names /\ ~job'.driven /\ Len(job'.types) = 1
  <2>1. job' = [NoJob EXCEPT !.types = <<r.type>>, !.names = r.names]
    BY <1>9 DEF HandleRequest
  <2>2. job'.types = <<r.type>> /\ job'.names = r.names /\ job'.driven = FALSE
    BY <2>1 DEF NoJob
  <2> QED
    BY <2>2
<1> QED
  BY <1>1, <1>2, <1>3, <1>5, <1>6, <1>7, <1>8, <1>9

(* Every step keeps the account's ground. *)
LEMMA ConsistentStep ==
  ASSUME TypeInv, TypeInv', Consistent, [Next]_vars PROVE Consistent'
(* A type stays so if nothing changes for it but the nonces. *)
(* The responses stay so as one is read or another sent. *)
(* The requests stay so as one is read or another sent. *)
<1>RequestsStep. ASSUME TypeInv, RequestsOk, nonces' \in Nat, nonces <= nonces',
                        \/ up' = up
                        \/ up # <<>> /\ up' = Tail(up)
                        \/ \E m \in Requests : up' = Append(up, m) /\ RequestOk(m)'
                 PROVE  RequestsOk'
  <2> USE <1>RequestsStep
  <2>0. up \in Seq(Requests) /\ nonces \in Nat
    BY DEF TypeInv
  <2>1. ASSUME NEW r \in Requests, RequestOk(r) PROVE RequestOk(r)'
    BY <2>0, <2>1, SMT DEF RequestOk, Requests
  <2>2. \A i \in DOMAIN up : up[i] \in Requests /\ RequestOk(up[i])
    BY <2>0, SMT DEF RequestsOk
  <2>3. CASE up' = up
    BY <2>1, <2>2, <2>3 DEF RequestsOk
  <2>4. CASE up # <<>> /\ up' = Tail(up)
    <3>1. \A i \in DOMAIN Tail(up) : \E j \in DOMAIN up : up[j] = Tail(up)[i]
      BY <2>0, <2>4, QueueTail, SMT DEF SeesNoMore
    <3>2. ASSUME NEW i \in DOMAIN up' PROVE RequestOk(up[i])'
      <4>1. PICK j \in DOMAIN up : up[j] = up'[i]
        BY <2>4, <3>1
      <4> QED
        BY <2>1, <2>2, <4>1 DEF RequestOk
    <3> QED
      BY <3>2 DEF RequestsOk
  <2>5. ASSUME NEW m \in Requests, up' = Append(up, m), RequestOk(m)' PROVE RequestsOk'
    <3>1. \A i \in DOMAIN up' : up'[i] = m \/ \E j \in DOMAIN up : up[j] = up'[i]
      BY <2>0, <2>5, QueueAppend, SMT
    <3>2. ASSUME NEW i \in DOMAIN up' PROVE RequestOk(up[i])'
      <4>1. CASE up'[i] = m
        BY <2>5, <4>1 DEF RequestOk
      <4>2. ASSUME NEW j \in DOMAIN up, up[j] = up'[i] PROVE RequestOk(up[i])'
        BY <2>1, <2>2, <4>2 DEF RequestOk
      <4> QED
        BY <3>1, <4>1, <4>2
    <3> QED
      BY <3>2 DEF RequestsOk
  <2> QED
    BY <2>3, <2>4, <2>5
<1>ResponsesStep. ASSUME TypeInv, ResponsesOk, nonces' \in Nat, nonces <= nonces',
                         \A t \in TypeURIs : proxy.nonce[t] # 0 => proxy'.nonce[t] # 0,
                         \/ down' = down
                         \/ down # <<>> /\ down' = Tail(down)
                         \/ \E m \in Responses : down' = Append(down, m) /\ ResponseOk(m)'
                  PROVE  ResponsesOk'
  <2> USE <1>ResponsesStep
  <2>0. down \in Seq(Responses) /\ nonces \in Nat
    BY DEF TypeInv
  <2>1. ASSUME NEW r \in Responses, ResponseOk(r) PROVE ResponseOk(r)'
    BY <2>0, <2>1, SMT DEF ResponseOk, Responses
  <2>2. \A i \in DOMAIN down : down[i] \in Responses /\ ResponseOk(down[i])
    BY <2>0, SMT DEF ResponsesOk
  <2>3. CASE down' = down
    BY <2>1, <2>2, <2>3 DEF ResponsesOk
  <2>4. CASE down # <<>> /\ down' = Tail(down)
    <3>1. \A i \in DOMAIN Tail(down) : \E j \in DOMAIN down : down[j] = Tail(down)[i]
      BY <2>0, <2>4, QueueTail, SMT DEF SeesNoMore
    <3>2. ASSUME NEW i \in DOMAIN down' PROVE ResponseOk(down[i])'
      <4>1. PICK j \in DOMAIN down : down[j] = down'[i]
        BY <2>4, <3>1
      <4> QED
        BY <2>1, <2>2, <4>1 DEF ResponseOk
    <3> QED
      BY <3>2 DEF ResponsesOk
  <2>5. ASSUME NEW m \in Responses, down' = Append(down, m), ResponseOk(m)' PROVE ResponsesOk'
    <3>1. \A i \in DOMAIN down' : down'[i] = m \/ \E j \in DOMAIN down : down[j] = down'[i]
      BY <2>0, <2>5, QueueAppend, SMT
    <3>2. ASSUME NEW i \in DOMAIN down' PROVE ResponseOk(down[i])'
      <4>1. CASE down'[i] = m
        BY <2>5, <4>1 DEF ResponseOk
      <4>2. ASSUME NEW j \in DOMAIN down, down[j] = down'[i] PROVE ResponseOk(down[i])'
        BY <2>1, <2>2, <4>2 DEF ResponseOk
      <4> QED
        BY <3>1, <4>1, <4>2
    <3> QED
      BY <3>2 DEF ResponsesOk
  <2> QED
    BY <2>3, <2>4, <2>5
<1>TypeStep. ASSUME NEW t, TypeOk(t), nonces \in Nat, nonces' \in Nat, nonces <= nonces', envoy.nonce[t] \in Nat,
                    envoy'.types = envoy.types, envoy'.names[t] = envoy.names[t],
                    envoy'.nonce[t] = envoy.nonce[t] \/ envoy'.nonce[t] <= nonces,
                    envoy'.nonce[t] \in Nat,
                    proxy'.subscribed[t] = proxy.subscribed[t] \/ (IsWildcardTypeURI(t) => proxy'.subscribed[t] = {}),
                    proxy'.lastSent[t] = proxy.lastSent[t] \/ (IsWildcardTypeURI(t) => proxy'.lastSent[t] = {})
             PROVE  TypeOk(t)'
  <2> USE <1>TypeStep
  <2>1. envoy'.nonce[t] <= nonces'
    BY SMT DEF TypeOk
  <2>2. Subscribed(t)' = Subscribed(t)
    BY DEF Subscribed
  <2>3. IsWildcardTypeURI(t)' = IsWildcardTypeURI(t)
    BY DEF IsWildcardTypeURI
  <2> QED
    BY <2>1, <2>2, <2>3 DEF TypeOk
<1>0. /\ nonces \in Nat /\ nonces <= nonces /\ proxy \in Proxies /\ envoy \in Envoys /\ job \in Jobs
      /\ envoy.nonce \in [TypeURIs -> Nat] /\ TypeURIs' = TypeURIs /\ TypesCounted'
  <2>1. nonces \in Nat /\ proxy \in Proxies /\ envoy \in Envoys /\ job \in Jobs
    BY DEF TypeInv
  <2>2. envoy.nonce \in [TypeURIs -> Nat]
    BY <2>1 DEF Envoys
  <2>3. nonces <= nonces
    BY <2>1, SMT
  <2>4. TypesCounted'
    BY SameScope DEF Consistent, TypesCounted
  <2> QED
    BY <2>1, <2>2, <2>3, <2>4, SameScope
<1>1. \A t \in TypeURIs : TypeOk(t) /\ envoy.nonce[t] \in Nat
  BY <1>0 DEF Consistent
<1>2. nameChanges \in Nat /\ RequestsOk /\ ResponsesOk /\ TypesOnce /\ JobOk
  BY DEF Consistent
<1>3. ASSUME job'.types = <<>> \/ (job'.driven = TRUE /\ job'.made = -1) PROVE JobOk'
  BY <1>3, SMT DEF JobOk
<1>4. NoJob.types = <<>>
  BY DEF NoJob
<1>5. ASSUME UNCHANGED <<proxy, nonces, up, down, envoy, nameChanges>>, JobOk' PROVE Consistent'
  <2>1. RequestsOk'
    BY <1>0, <1>2, <1>5, <1>RequestsStep
  <2>2. ResponsesOk'
    BY <1>0, <1>2, <1>5, <1>ResponsesStep
  <2>3. TypesOnce'
    BY <1>2, <1>5 DEF TypesOnce
  <2>4. \A t \in TypeURIs : TypeOk(t)'
    BY <1>0, <1>1, <1>5, <1>TypeStep
  <2> QED
    BY <1>0, <1>2, <1>5, <2>1, <2>2, <2>3, <2>4 DEF Consistent
<1>6. ASSUME UNCHANGED <<proxy, nonces, job, up, down, envoy, nameChanges>> PROVE Consistent'
  BY <1>2, <1>5, <1>6 DEF JobOk
<1>7. ASSUME NEW s \in Sources, Change(s) \/ Publish(s) PROVE Consistent'
  BY <1>6, <1>7 DEF Change, Publish, serverVars, proxyVars
<1>8. CASE HandleRequest
  <2>1. PICK r : r = Head(up)
    OBVIOUS
  <2>2. /\ up # <<>> /\ up' = Tail(up) /\ r.type \in TypeURIs /\ RequestOk(r)
        /\ proxy'.nonce = proxy.nonce /\ proxy'.lastSent = proxy.lastSent
        /\ \A u \in TypeURIs \ {r.type} : proxy'.subscribed[u] = proxy.subscribed[u]
        /\ proxy'.subscribed[r.type] \in {r.names, proxy.subscribed[r.type]}
    BY <1>8, <2>1, HandleEffect
  <2>3. UNCHANGED <<nonces, down, envoy, nameChanges>>
    BY <1>8 DEF HandleRequest, proxyVars
  <2>4. RequestsOk'
    BY <1>0, <1>2, <2>2, <2>3, <1>RequestsStep
  <2>5. ResponsesOk'
    BY <1>0, <1>2, <2>2, <2>3, <1>ResponsesStep
  <2>6. TypesOnce'
    BY <1>2, <2>3 DEF TypesOnce
  <2>7. JobOk'
    <3>1. CASE RespondToRequest(r)
      <4>1. Heard(r, proxy.nonce[r.type], r.type)
        BY <1>8, <2>1, <3>1, HandleEffect
      <4>2. /\ job'.types = <<r.type>> /\ job'.names = r.names /\ Len(job'.types) = 1
            /\ proxy'.subscribed[r.type] = r.names
        BY <1>8, <2>1, <3>1, <4>1, HandleEffect
      <4>3. Head(job'.types) = r.type
        BY <4>2, SMT
      <4> QED
        BY <4>2, <4>3, SMT DEF JobOk
    <3>2. CASE ~RespondToRequest(r)
      <4>1. job' = NoJob
        BY <1>8, <2>1, <3>2, HandleEffect
      <4> QED
        BY <1>3, <1>4, <4>1
    <3> QED
      BY <3>1, <3>2
  <2>8. ASSUME NEW t \in TypeURIs PROVE TypeOk(t)'
    <3>1. CASE t = r.type
      <4>1. IsWildcardTypeURI(t) => r.names = {}
        BY <2>2, <3>1 DEF RequestOk
      <4> QED
        BY <1>0, <1>1, <2>2, <2>3, <3>1, <4>1, <1>TypeStep
    <3>2. CASE t # r.type
      BY <1>0, <1>1, <2>2, <2>3, <3>2, <1>TypeStep
    <3> QED
      BY <3>1, <3>2
  <2> QED
    BY <1>0, <1>2, <2>3, <2>4, <2>5, <2>6, <2>7, <2>8 DEF Consistent
<1>9. CASE HandleProxyUpdate \/ HandleCertRotation
  <2>1. UNCHANGED <<proxy, nonces, up, down, envoy, nameChanges>>
    BY <1>9 DEF HandleProxyUpdate, HandleCertRotation, proxyVars
  <2>2. job' = NoJob \/ \E s : job' = [NoJob EXCEPT !.types = s, !.driven = TRUE]
    BY <1>9 DEF HandleProxyUpdate, HandleCertRotation
  <2>3. job'.types = <<>> \/ (job'.driven = TRUE /\ job'.made = -1)
    <3>1. ASSUME NEW s, job' = [NoJob EXCEPT !.types = s, !.driven = TRUE]
          PROVE  job'.driven = TRUE /\ job'.made = -1
      <4>1. job' = [types |-> s, names |-> {}, driven |-> TRUE, made |-> -1]
        BY <3>1 DEF NoJob
      <4> QED
        BY <4>1
    <3> QED
      BY <1>4, <2>2, <3>1
  <2> QED
    BY <1>3, <1>5, <2>1, <2>3
<1>10. CASE GenerateResources
  <2>1. UNCHANGED <<proxy, nonces, up, down, envoy, nameChanges>>
    BY <1>10 DEF GenerateResources, proxyVars
  <2>2. /\ job.types # <<>> /\ job'.types = job.types /\ job'.driven = job.driven
        /\ job'.names = IF job.driven THEN proxy.subscribed[Head(job.types)] ELSE job.names
    BY <1>0, <1>10 DEF GenerateResources, Jobs
  <2>3. job'.names = proxy.subscribed[Head(job.types)]
    BY <1>2, <2>2 DEF JobOk
  <2>4. JobOk'
    BY <1>2, <2>1, <2>2, <2>3 DEF JobOk
  <2> QED
    BY <1>5, <2>1, <2>4
<1>11. ASSUME job.types # <<>>, job' = NextType PROVE JobOk'
  <2>1. NextType.made = -1
    BY <1>0, <1>11, NextTypeType
  <2>2. /\ Len(job.types) \in Nat /\ (NextType.types = <<>> \/ NextType.driven = job.driven)
        /\ Len(job.types) = 1 => NextType.types = <<>>
    BY <1>0, <1>11, NextTypeLen
  <2>3. Len(job.types) # 0
    BY <1>0, <1>11, SMT DEF Jobs
  <2>4. NextType.types = <<>> \/ job.driven = TRUE
    <3>1. CASE job.driven
      BY <1>0, <3>1 DEF Jobs
    <3>2. CASE ~job.driven
      <4>1. Len(job.types) <= 1
        BY <1>2, <3>2 DEF JobOk
      <4>2. Len(job.types) = 1
        <5>1. \A n \in Nat : n # 0 /\ n <= 1 => n = 1
          BY SMT
        <5> QED
          BY <2>2, <2>3, <4>1, <5>1
      <4> QED
        BY <2>2, <4>2
    <3> QED
      BY <3>1, <3>2
  <2> QED
    BY <1>3, <1>11, <2>1, <2>2, <2>4
<1>12. CASE GenerateFails
  <2>1. UNCHANGED <<proxy, nonces, up, down, envoy, nameChanges>> /\ job.types # <<>> /\ job' = NextType
    BY <1>12 DEF GenerateFails, proxyVars
  <2> QED
    BY <1>5, <1>11, <2>1
<1>13. CASE SendDiscoveryResponse
  <2>1. PICK t : t = NowType
    OBVIOUS
  <2>2. /\ job.types # <<>> /\ t \in TypeURIs /\ NewResponse \in Responses
        /\ down' = Append(down, NewResponse) /\ proxy'.nonce[t] = nonces + 1
        /\ proxy'.lastSent[t] = Resources(t, job.names) \cap proxy.subscribed[t]
        /\ \A u \in TypeURIs \ {t} :
             proxy'.nonce[u] = proxy.nonce[u] /\ proxy'.lastSent[u] = proxy.lastSent[u]
        /\ proxy'.subscribed = proxy.subscribed
    BY <1>13, <2>1, SendEffect
  <2>3. nonces' = nonces + 1 /\ job' = NextType /\ UNCHANGED <<up, envoy, nameChanges>>
    BY <1>13 DEF SendDiscoveryResponse, proxyVars
  <2>4. nonces' \in Nat /\ nonces <= nonces' /\ nonces' # 0 /\ nonces' <= nonces'
    BY <1>0, <2>3, SMT
  <2>5. RequestsOk'
    BY <1>2, <2>3, <2>4, <1>RequestsStep
  <2>6. ResponsesOk'
    <3>1. NewResponse.nonce = nonces' /\ NewResponse.type = t
      BY <2>1, <2>3 DEF NewResponse
    <3>2. PICK m \in Responses : m = NewResponse
      BY <2>2
    <3>3. ResponseOk(m)'
      BY <2>2, <2>3, <2>4, <3>1, <3>2 DEF ResponseOk
    <3>4. \A u \in TypeURIs : proxy.nonce[u] # 0 => proxy'.nonce[u] # 0
      BY <2>2, <2>3, <2>4
    <3> QED
      BY <1>2, <2>2, <2>4, <3>2, <3>3, <3>4, <1>ResponsesStep
  <2>7. TypesOnce'
    BY <1>2, <2>3 DEF TypesOnce
  <2>8. ASSUME NEW u \in TypeURIs PROVE TypeOk(u)'
    <3>1. CASE u = t
      <4>1. IsWildcardTypeURI(u) => proxy'.lastSent[u] = {}
        BY <1>1, <2>2, <3>1 DEF TypeOk
      <4> QED
        BY <1>0, <1>1, <2>2, <2>3, <2>4, <3>1, <4>1, <1>TypeStep
    <3>2. CASE u # t
      BY <1>0, <1>1, <2>2, <2>3, <2>4, <3>2, <1>TypeStep
    <3> QED
      BY <3>1, <3>2
  <2>9. JobOk'
    BY <1>11, <2>2, <2>3
  <2> QED
    BY <1>0, <1>2, <2>3, <2>5, <2>6, <2>7, <2>8, <2>9 DEF Consistent
<1>14. ASSUME NEW m \in Requests, up' = Append(up, m), RequestOk(m)', nameChanges' \in Nat,
              UNCHANGED <<proxy, nonces, job>>, TypesOnce', down' = down \/ (down # <<>> /\ down' = Tail(down)),
              \A t \in TypeURIs : TypeOk(t)'
       PROVE  Consistent'
  <2>1. RequestsOk'
    BY <1>0, <1>2, <1>14, <1>RequestsStep
  <2>2. ResponsesOk'
    BY <1>0, <1>2, <1>14, <1>ResponsesStep
  <2>3. JobOk'
    BY <1>2, <1>14 DEF JobOk
  <2> QED
    BY <1>0, <1>14, <2>1, <2>2, <2>3 DEF Consistent
<1>15. ASSUME NEW t \in TypeURIs, NEW names \in SUBSET Names, EnvoySubscribes(t, names) PROVE Consistent'
  <2>1. /\ envoy'.types = Append(envoy.types, t) /\ envoy'.names[t] = names /\ envoy'.nonce = envoy.nonce
        /\ \A u \in TypeURIs \ {t} : envoy'.names[u] = envoy.names[u]
    BY <1>15, SubscribesEffect
  <2>2. PICK m : IsRequest(m, envoy', t, 0) /\ up' = Append(up, m)
    BY <1>15, SubscribesEffect
  <2>3. /\ UNCHANGED <<proxy, nonces, job, down, nameChanges>> /\ ~Subscribed(t)
        /\ IsWildcardTypeURI(t) => names = {}
    BY <1>15 DEF EnvoySubscribes, serverVars
  <2>4. m \in Requests /\ RequestOk(m)'
    BY <1>0, <2>1, <2>2, <2>3, SMT DEF IsRequest, RequestOk
  <2>5. PICK n \in Nat : /\ n = Len(envoy.types) /\ DOMAIN envoy.types = 1 .. n
                         /\ DOMAIN envoy'.types = 1 .. (n + 1) /\ envoy'.types[n + 1] = t
                         /\ \A i \in 1 .. n : envoy'.types[i] = envoy.types[i]
    <3>1. envoy.types \in Seq(TypeURIs)
      BY <1>0 DEF Envoys
    <3> QED
      BY <2>1, <3>1, SMT
  <2>6. \A i \in 1 .. (n + 1) : i = n + 1 \/ i \in 1 .. n
    BY SMT
  <2>7. \A i \in 1 .. n : envoy.types[i] # t
    BY <2>3, <2>5 DEF Subscribed
  <2>8. TypesOnce'
    BY <1>2, <2>5, <2>6, <2>7 DEF TypesOnce
  <2>9. ASSUME NEW u \in TypeURIs PROVE TypeOk(u)'
    <3>1. CASE u = t
      <4>1. Subscribed(u)'
        BY <2>5, <3>1, SMT DEF Subscribed
      <4> QED
        BY <1>1, <2>1, <2>3, <3>1, <4>1 DEF TypeOk
    <3>2. CASE u # t
      <4>1. Subscribed(u) => Subscribed(u)'
        BY <2>5, <2>6, SMT DEF Subscribed
      <4> QED
        BY <1>1, <2>1, <2>3, <3>2, <4>1 DEF TypeOk
    <3> QED
      BY <3>1, <3>2
  <2> QED
    BY <1>2, <1>14, <2>2, <2>3, <2>4, <2>8, <2>9
<1>16. ASSUME NEW t \in TypeURIs, NEW names \in SUBSET Names, EnvoyChangesNames(t, names) PROVE Consistent'
  <2>1. /\ envoy'.types = envoy.types /\ envoy'.names[t] = names /\ envoy'.nonce = envoy.nonce
        /\ \A u \in TypeURIs \ {t} : envoy'.names[u] = envoy.names[u]
    BY <1>16, ChangesNamesEffect
  <2>2. PICK m : IsRequest(m, envoy', t, envoy.nonce[t]) /\ up' = Append(up, m)
    BY <1>16, ChangesNamesEffect
  <2>3. /\ UNCHANGED <<proxy, nonces, job, down>> /\ nameChanges' = nameChanges + 1
        /\ Subscribed(t) /\ ~IsWildcardTypeURI(t)
    BY <1>16 DEF EnvoyChangesNames, serverVars
  <2>4. m \in Requests /\ RequestOk(m)'
    BY <1>1, <2>1, <2>2, <2>3 DEF IsRequest, RequestOk, TypeOk
  <2>5. TypesOnce' /\ \A u : Subscribed(u)' = Subscribed(u)
    BY <1>2, <2>1 DEF TypesOnce, Subscribed
  <2>6. \A u \in TypeURIs : TypeOk(u)'
    BY <1>1, <2>1, <2>3, <2>5 DEF TypeOk
  <2>7. nameChanges' \in Nat
    BY <1>2, <2>3, SMT
  <2> QED
    BY <1>14, <2>2, <2>3, <2>4, <2>5, <2>6, <2>7
<1>17. ASSUME NEW r, r = Head(down), down # <<>>, (EnvoyAcks /\ Subscribed(r.type)) \/ EnvoyNacks
       PROVE  Consistent'
  <2>1. /\ r \in Responses /\ r.type \in TypeURIs /\ envoy'.types = envoy.types /\ envoy'.names = envoy.names
        /\ envoy'.nonce[r.type] = r.nonce /\ \A u \in TypeURIs \ {r.type} : envoy'.nonce[u] = envoy.nonce[u]
    BY <1>17, AcksEffect, NacksEffect
  <2>2. PICK m : IsRequest(m, envoy', r.type, r.nonce) /\ up' = Append(up, m)
    BY <1>17, AcksEffect, NacksEffect
  <2>3. UNCHANGED <<proxy, nonces, job, nameChanges>> /\ down' = Tail(down)
    BY <1>17 DEF EnvoyAcks, EnvoyNacks, serverVars
  <2>4. r.nonce <= nonces
    <3>1. down \in Seq(Responses)
      BY DEF TypeInv
    <3>2. 1 \in DOMAIN down /\ r = down[1]
      BY <1>17, <3>1, SMT
    <3> QED
      BY <1>2, <3>2 DEF ResponsesOk, ResponseOk
  <2>5. IsWildcardTypeURI(r.type) => envoy'.names[r.type] = {}
    BY <1>1, <2>1 DEF TypeOk
  <2>6. m \in Requests /\ RequestOk(m)'
    BY <2>1, <2>2, <2>3, <2>4, <2>5 DEF IsRequest, RequestOk
  <2>7. TypesOnce' /\ \A u : Subscribed(u)' = Subscribed(u)
    BY <1>2, <2>1 DEF TypesOnce, Subscribed
  <2>8. \A u \in TypeURIs : TypeOk(u)'
    BY <1>1, <2>1, <2>3, <2>4, <2>7 DEF TypeOk
  <2> QED
    BY <1>2, <1>14, <1>17, <2>2, <2>3, <2>6, <2>7, <2>8
<1>18. CASE EnvoyAcks /\ ~Subscribed(Head(down).type)
  <2>1. UNCHANGED <<proxy, nonces, up, envoy, nameChanges, job>> /\ down # <<>> /\ down' = Tail(down)
    BY <1>18 DEF EnvoyAcks, serverVars
  <2>2. RequestsOk'
    BY <1>0, <1>2, <2>1, <1>RequestsStep
  <2>3. ResponsesOk'
    BY <1>0, <1>2, <2>1, <1>ResponsesStep
  <2>4. TypesOnce'
    BY <1>2, <2>1 DEF TypesOnce
  <2>5. \A t \in TypeURIs : TypeOk(t)'
    BY <1>0, <1>1, <2>1, <1>TypeStep
  <2>6. JobOk'
    BY <1>2, <2>1 DEF JobOk
  <2> QED
    BY <1>0, <1>2, <2>1, <2>2, <2>3, <2>4, <2>5, <2>6 DEF Consistent
<1>19. ASSUME NEW k \in BOOLEAN, Reconnect(k) PROVE Consistent'
  <2>1. /\ proxy' = NewProxy /\ \A u \in TypeURIs : NewProxy.nonce[u] = 0 /\ NewProxy.subscribed[u] = {}
        /\ envoy'.types = envoy.types /\ envoy'.names = envoy.names
        /\ \A u \in TypeURIs : envoy'.nonce[u] \in {0, envoy.nonce[u]}
        /\ \A i \in DOMAIN up' :
              /\ up'[i].type \in TypeURIs
              /\ up'[i].names = envoy.names[up'[i].type]
              /\ up'[i].nonce = envoy'.nonce[up'[i].type]
    BY <1>19, ReconnectEffect
  <2>2. \A u \in TypeURIs : NewProxy.lastSent[u] = {}
    BY DEF NewProxy
  <2>3. job' = NoJob /\ down' = <<>> /\ UNCHANGED <<nonces, nameChanges>>
    BY <1>19 DEF Reconnect
  <2>4. \A u \in TypeURIs : envoy'.nonce[u] <= nonces
    BY <1>0, <1>1, <2>1, SMTT(30) DEF TypeOk
  <2>5. RequestsOk'
    BY <1>1, <2>1, <2>3, <2>4 DEF RequestsOk, RequestOk, TypeOk
  <2>6. ResponsesOk'
    BY <2>3, SMT DEF ResponsesOk
  <2>7. TypesOnce' /\ \A u : Subscribed(u)' = Subscribed(u)
    BY <1>2, <2>1 DEF TypesOnce, Subscribed
  <2>8. \A u \in TypeURIs : TypeOk(u)'
    BY <1>1, <2>1, <2>2, <2>3, <2>4, <2>7 DEF TypeOk
  <2>9. JobOk'
    BY <1>3, <1>4, <2>3
  <2> QED
    BY <1>0, <1>2, <2>3, <2>5, <2>6, <2>7, <2>8, <2>9 DEF Consistent
<1>20. CASE UNCHANGED vars
  BY <1>6, <1>20 DEF vars, serverVars, proxyVars
<1>21. EnvoyAcks \/ EnvoyNacks => Consistent'
  BY <1>17, <1>18 DEF EnvoyAcks, EnvoyNacks
<1> QED
  BY <1>7, <1>8, <1>9, <1>10, <1>12, <1>13, <1>15, <1>16, <1>19, <1>20, <1>21 DEF Next, ServerStep
-----------------------------------------------------------------------------
(* The account.  Type t is owed a response for each one its requests may yet *)
(* get, for names that the server knows and has not sent, unless it is about *)
(* to, and for its first request.                                            *)
Answering(t) == job.types # <<>> /\ ~job.driven /\ Head(job.types) = t
Unsent(t) == IF proxy.lastSent[t] = proxy.subscribed[t] \/ Answering(t) THEN 0 ELSE 1
FirstDue(t) == IF Subscribed(t) THEN 0 ELSE 1
Owed(t, n) ==
  \E f \in [Nat -> Nat] :
    /\ Covers(f, up, proxy.nonce[t], proxy.subscribed[t], envoy.names[t], t)
    /\ f[0] + Unsent(t) + FirstDue(t) <= n

(* Nonces used, responses of the job, and those of pushes to come... *)
Coming(s) == chan[s] + IF s \in unpublished THEN 1 ELSE 0
Pushes ==
  Len(PushOrder) * Coming("mesh") + IF "SDS" \in TypeURIs THEN Coming("cert") ELSE 0
Used == nonces + Len(job.types) + Pushes

(* ...with those owed do not exceed what there is a cause for. *)
Budget ==
  Cardinality(TypeURIs) * (1 + reconnects) + nameChanges
  + Len(PushOrder) * (gen["mesh"] - 1)
  + IF "SDS" \in TypeURIs THEN gen["cert"] - 1 ELSE 0
Accounted(o) ==
  /\ \A t \in TypeURIs : Owed(t, o[t])
  /\ Used + Total(o) <= Budget
CauseInv == Consistent /\ \E o \in [AllTypes -> Nat] : Accounted(o)

(* The numbers of the account are numbers. *)
NumbersOk ==
  /\ Len(PushOrder) \in Nat /\ Len(job.types) \in Nat
  /\ Coming("mesh") \in Nat /\ Coming("cert") \in Nat /\ Pushes \in Nat /\ Used \in Nat
  /\ Cardinality(TypeURIs) \in Nat /\ Budget \in Int

(* So they are in every state. *)
LEMMA Numbers == TypeInv /\ Consistent => NumbersOk
<1> SUFFICES ASSUME TypeInv, Consistent PROVE NumbersOk
  OBVIOUS
<1>1. PushOrder \in Seq(TypeURIs) /\ scope \in Scopes
  BY PushesAll DEF TypeInv
<1>2. Len(PushOrder) \in Nat
  BY <1>1, SMT
<1>3. job.types \in Seq(TypeURIs)
  BY DEF TypeInv, Jobs
<1>4. Len(job.types) \in Nat
  BY <1>3, SMT
<1>5. /\ chan["mesh"] \in Nat /\ chan["cert"] \in Nat /\ gen["mesh"] \in Nat /\ gen["cert"] \in Nat
      /\ nonces \in Nat /\ reconnects \in Nat /\ nameChanges \in Nat
  BY DEF TypeInv, Sources, Consistent
<1>6. Coming("mesh") \in Nat /\ Coming("cert") \in Nat
  BY <1>5, SMT DEF Coming
<1>7. Pushes \in Nat
  BY <1>2, <1>6, SMT DEF Pushes
<1>8. Used \in Nat
  BY <1>4, <1>5, <1>7, SMT DEF Used
<1>9. Cardinality(TypeURIs) \in Nat
  BY DEF Consistent, TypesCounted
<1>10. Budget \in Int
  <2>1. \A c, r, n, l \in Nat : \A x, y \in Int : c * (1 + r) + n + l * x + y \in Int
    BY SMT
  <2>2. gen["mesh"] - 1 \in Int /\ (IF "SDS" \in TypeURIs THEN gen["cert"] - 1 ELSE 0) \in Int
    BY <1>5, SMT
  <2> QED
    BY <1>2, <1>5, <1>9, <2>1, <2>2, ZenonT(30) DEF Budget
<1> QED
  BY <1>2, <1>4, <1>6, <1>7, <1>8, <1>9, <1>10 DEF NumbersOk

(* Before and after a step. *)
LEMMA NumbersStep ==
  ASSUME TypeInv, TypeInv', Consistent, Consistent' PROVE NumbersOk /\ NumbersOk'
BY Numbers, PTL

(* Two of the debts are at most one response each, and stay when nothing     *)
(* changes for the type.                                                     *)
LEMMA Dues ==
  ASSUME NEW t
  PROVE  /\ Unsent(t) \in {0, 1} /\ Unsent(t)' \in {0, 1}
         /\ FirstDue(t) \in {0, 1} /\ FirstDue(t)' \in {0, 1}
         /\ (/\ proxy'.lastSent[t] = proxy.lastSent[t] /\ proxy'.subscribed[t] = proxy.subscribed[t]
             /\ (Answering(t)' <=> Answering(t))) => Unsent(t)' = Unsent(t)
         /\ envoy'.types = envoy.types => FirstDue(t)' = FirstDue(t)
<1>1. ASSUME proxy'.lastSent[t] = proxy.lastSent[t], proxy'.subscribed[t] = proxy.subscribed[t],
             Answering(t)' <=> Answering(t)
      PROVE  Unsent(t)' = Unsent(t)
  BY <1>1 DEF Unsent
<1>2. ASSUME envoy'.types = envoy.types PROVE FirstDue(t)' = FirstDue(t)
  BY <1>2 DEF FirstDue, Subscribed
<1>3. /\ Unsent(t) \in {0, 1} /\ Unsent(t)' \in {0, 1}
      /\ FirstDue(t) \in {0, 1} /\ FirstDue(t)' \in {0, 1}
  BY DEF Unsent, FirstDue
<1> QED
  BY <1>1, <1>2, <1>3

(* What is owed to a type for which nothing happens... *)
LEMMA OwedKept ==
  ASSUME NEW t, NEW n, Owed(t, n), up' = up, envoy' = envoy,
         proxy'.nonce[t] = proxy.nonce[t], proxy'.subscribed[t] = proxy.subscribed[t],
         Unsent(t)' = Unsent(t)
  PROVE  Owed(t, n)'
<1>1. PICK f \in [Nat -> Nat] : /\ Covers(f, up, proxy.nonce[t], proxy.subscribed[t], envoy.names[t], t)
                                /\ f[0] + Unsent(t) + FirstDue(t) <= n
  BY DEF Owed
<1>2. FirstDue(t)' = FirstDue(t)
  BY Dues
<1>3. Covers(f, up', proxy'.nonce[t], proxy'.subscribed[t], envoy'.names[t], t)
  BY <1>1
<1>4. f[0] + Unsent(t)' + FirstDue(t)' <= n
  BY <1>1, <1>2
<1> QED
  BY <1>3, <1>4 DEF Owed

(* ...for which the server ignores a request... *)
LEMMA OwedRest ==
  ASSUME TypeInv, NEW t, NEW n, Owed(t, n), up # <<>>, up' = Tail(up), envoy' = envoy,
         ~Heard(up[1], proxy.nonce[t], t),
         proxy'.nonce[t] = proxy.nonce[t], proxy'.subscribed[t] = proxy.subscribed[t],
         Unsent(t)' = Unsent(t)
  PROVE  Owed(t, n)'
<1>1. PICK f \in [Nat -> Nat] : /\ Covers(f, up, proxy.nonce[t], proxy.subscribed[t], envoy.names[t], t)
                                /\ f[0] + Unsent(t) + FirstDue(t) <= n
  BY DEF Owed
<1>2. FirstDue(t)' = FirstDue(t)
  BY Dues
<1>3. up \in Seq(Requests)
  BY DEF TypeInv
<1>4. PICK g \in [Nat -> Nat] :
        g[0] = f[0] /\ Covers(g, Tail(up), proxy.nonce[t], proxy.subscribed[t], envoy.names[t], t)
  <2>1. OnceRead(f, up, proxy.nonce[t], proxy.subscribed[t], envoy.names[t], t)
    BY <1>1, <1>3, CoversTail
  <2> QED
    BY <2>1 DEF OnceRead
<1>5. Covers(g, up', proxy'.nonce[t], proxy'.subscribed[t], envoy'.names[t], t)
  BY <1>4
<1>6. g[0] + Unsent(t)' + FirstDue(t)' <= n
  BY <1>1, <1>2, <1>4
<1> QED
  BY <1>5, <1>6 DEF Owed

(* ...and for which the proxy sends a request.                               *)
LEMMA OwedMore ==
  ASSUME TypeInv, NEW t, NEW n \in Nat, NEW b \in Nat, NEW d \in Nat, NEW m \in Requests,
         Owed(t, n), up' = Append(up, m), proxy' = proxy, job' = job,
         Adds(m, proxy.nonce[t], envoy.names[t], envoy'.names[t], t, d),
         FirstDue(t)' + d <= FirstDue(t) + b
  PROVE  Owed(t, n + b)'
<1>1. PICK f \in [Nat -> Nat] : /\ Covers(f, up, proxy.nonce[t], proxy.subscribed[t], envoy.names[t], t)
                                /\ f[0] + Unsent(t) + FirstDue(t) <= n
  BY DEF Owed
<1>2. Unsent(t)' = Unsent(t)
  BY Dues DEF Answering
<1>3. up \in Seq(Requests)
  BY DEF TypeInv
<1>4. PICK w : w = envoy'.names[t]
  OBVIOUS
<1> DEFINE g == [i \in Nat |-> IF i <= Len(up) THEN f[i] + d ELSE 0]
<1>5. Covers(g, Append(up, m), proxy.nonce[t], proxy.subscribed[t], w, t)
  BY <1>1, <1>3, <1>4, CoversMore
<1>6. g \in [Nat -> Nat] /\ g[0] = f[0] + d
  <2>1. Len(up) \in Nat /\ 0 <= Len(up)
    BY <1>3, SMT
  <2>2. \A i \in Nat : f[i] + d \in Nat
    <3>1. \A i \in Nat : f[i] \in Nat
      OBVIOUS
    <3>2. \A x, y \in Nat : x + y \in Nat
      BY SMT
    <3> QED
      BY <3>1, <3>2
  <2>3. g \in [Nat -> Nat]
    BY <2>2
  <2>4. g[0] = f[0] + d
    BY <2>1
  <2> QED
    BY <2>3, <2>4
<1> HIDE DEF g
<1>7. Covers(g, up', proxy'.nonce[t], proxy'.subscribed[t], envoy'.names[t], t)
  BY <1>4, <1>5
<1>8. g[0] + Unsent(t)' + FirstDue(t)' <= n + b
  <2>1. f[0] \in Nat /\ Unsent(t) \in Nat /\ FirstDue(t) \in Nat /\ FirstDue(t)' \in Nat
    BY Dues
  <2>2. \A i, u, x, y \in Nat : i + u + x <= n /\ y + d <= x + b => i + d + u + y <= n + b
    BY SMT
  <2> QED
    BY <1>1, <1>2, <1>6, <2>1, <2>2, ZenonT(30)
<1> QED
  BY <1>7, <1>8, <1>6 DEF Owed

(* The account of a step that changes no debt, or that of one type. *)
LEMMA AccountSame ==
  ASSUME TypeInv, TypeInv', Consistent, Consistent', TypeURIs' = TypeURIs,
         NEW o \in [AllTypes -> Nat], Accounted(o), \A t \in TypeURIs : Owed(t, o[t])',
         Used' + Budget <= Used + Budget'
  PROVE  \E p \in [AllTypes -> Nat] : Accounted(p)'
<1>1. Used \in Nat /\ Used' \in Nat /\ Budget \in Int /\ Budget' \in Int
  BY NumbersStep DEF NumbersOk
<1>2. Total(o) \in Nat
  BY SMT DEF Total, AllTypes
<1>3. Used + Total(o) <= Budget
  BY DEF Accounted
<1>4. Used' + Total(o) <= Budget'
  <2>1. \A u, v, s \in Nat : \A b, c \in Int : u + s <= b /\ v + b <= u + c => v + s <= c
    BY SMT
  <2> QED
    BY <1>1, <1>2, <1>3, <2>1
<1>5. Accounted(o)'
  BY <1>4 DEF Accounted
<1> QED
  BY <1>5

(* One type gets or is owed a response. *)
LEMMA AccountStep ==
  ASSUME TypeInv, TypeInv', Consistent, Consistent', TypeURIs' = TypeURIs,
         NEW o \in [AllTypes -> Nat], Accounted(o), NEW t \in TypeURIs, NEW n \in Nat, Owed(t, n)',
         \A u \in TypeURIs \ {t} : Owed(u, o[u])',
         Used' + n + Budget <= Used + o[t] + Budget'
  PROVE  \E p \in [AllTypes -> Nat] : Accounted(p)'
<1>1. Used \in Nat /\ Used' \in Nat /\ Budget \in Int /\ Budget' \in Int
  BY NumbersStep DEF NumbersOk
<1>2. TypeURIs \subseteq AllTypes
  BY TypesKnown DEF TypeInv, AllTypes
<1> DEFINE p == [o EXCEPT ![t] = n]
<1>3. /\ p \in [AllTypes -> Nat] /\ p[t] = n /\ \A u \in AllTypes \ {t} : p[u] = o[u]
      /\ Total(o) \in Nat /\ o[t] \in Nat /\ Total(p) + o[t] = Total(o) + n
  <2>1. /\ p \in [AllTypes -> Nat] /\ p[t] = n /\ \A u \in AllTypes \ {t} : p[u] = o[u]
    BY <1>2
  <2>2. /\ o["CDS"] \in Nat /\ o["EDS"] \in Nat /\ o["LDS"] \in Nat /\ o["RDS"] \in Nat /\ o["SDS"] \in Nat
        /\ o[t] \in Nat
    BY <1>2 DEF AllTypes
  <2>3. Total(o) \in Nat
    BY <2>2, SMT DEF Total
  <2>4. Total(p) + o[t] = Total(o) + n
    <3>1. CASE t = "CDS"
      BY <2>1, <2>2, <3>1, SMT DEF Total, AllTypes
    <3>2. CASE t = "EDS"
      BY <2>1, <2>2, <3>2, SMT DEF Total, AllTypes
    <3>3. CASE t = "LDS"
      BY <2>1, <2>2, <3>3, SMT DEF Total, AllTypes
    <3>4. CASE t = "RDS"
      BY <2>1, <2>2, <3>4, SMT DEF Total, AllTypes
    <3>5. CASE t = "SDS"
      BY <2>1, <2>2, <3>5, SMT DEF Total, AllTypes
    <3> QED
      BY <1>2, <3>1, <3>2, <3>3, <3>4, <3>5 DEF AllTypes
  <2> QED
    BY <2>1, <2>2, <2>3, <2>4
<1> HIDE DEF p
<1>4. Total(p) \in Nat
  BY <1>3, SMT DEF Total, AllTypes
<1>5. Used + Total(o) <= Budget
  BY DEF Accounted
<1>6. Used' + Total(p) <= Budget'
  BY <1>1, <1>3, <1>4, <1>5, SMT
<1>7. \A u \in TypeURIs : Owed(u, p[u])'
  BY <1>2, <1>3
<1>8. Accounted(p)'
  BY <1>6, <1>7 DEF Accounted
<1> QED
  BY <1>3, <1>8

(* HandleRequest: a response is due for a request that is heard, and was     *)
(* accounted for; a request that gets none leaves nothing unsent.            *)
LEMMA RequestAccounted ==
  ASSUME TypeInv, TypeInv', Consistent, Consistent', TypeURIs' = TypeURIs, HandleRequest,
         NEW o \in [AllTypes -> Nat], Accounted(o)
  PROVE  \E p \in [AllTypes -> Nat] : Accounted(p)'
<1>1. PICK r : r = Head(up)
  OBVIOUS
<1>2. PICK t : t = r.type
  OBVIOUS
<1>3. /\ up \in Seq(Requests) /\ up # <<>> /\ r = up[1] /\ up' = Tail(up) /\ job.types = <<>>
      /\ r \in Requests /\ RequestOk(r) /\ t \in TypeURIs
      /\ proxy'.nonce = proxy.nonce /\ proxy'.lastSent = proxy.lastSent
      /\ \A u \in TypeURIs \ {t} : proxy'.subscribed[u] = proxy.subscribed[u]
  BY <1>1, <1>2, HandleEffect
<1>4. envoy' = envoy /\ UNCHANGED <<scope, gen, unpublished, chan, nonces, nameChanges, reconnects>>
  BY DEF HandleRequest, sourceVars, proxyVars
<1>5. Pushes' = Pushes /\ Budget' = Budget
  BY <1>4 DEF Pushes, Coming, Budget, PushOrder, TypeURIs
<1>6. /\ nonces \in Nat /\ Pushes \in Nat /\ Budget \in Int /\ Len(job.types) = 0
      /\ Used = nonces + Pushes
  <2>1. nonces \in Nat /\ Pushes \in Nat /\ Budget \in Int
    BY Numbers DEF NumbersOk, TypeInv
  <2>2. Len(job.types) = 0
    BY <1>3, SMT
  <2> QED
    BY <2>1, <2>2, SMT DEF Used
<1>7. ~Answering(t) /\ \A u : ~Answering(u)
  BY <1>3 DEF Answering
<1>8. \A u \in TypeURIs : Owed(u, o[u]) /\ o[u] \in Nat
  BY TypesKnown DEF Accounted, TypeInv, AllTypes
<1>9. ASSUME NEW u \in TypeURIs \ {t} PROVE Owed(u, o[u])'
  <2>1. ~Heard(up[1], proxy.nonce[u], u)
    BY <1>2, <1>3 DEF Heard
  <2>2. ~Answering(u)'
    <3>1. CASE RespondToRequest(r)
      <4>1. job'.types = <<r.type>>
        BY <1>1, <3>1, HandleEffect
      <4> QED
        BY <1>2, <4>1, SMT DEF Answering
    <3>2. CASE ~RespondToRequest(r)
      <4>1. job' = NoJob
        BY <1>1, <3>2, HandleEffect
      <4> QED
        BY <4>1 DEF Answering, NoJob
    <3> QED
      BY <3>1, <3>2
  <2>3. Unsent(u)' = Unsent(u)
    BY <1>3, <1>7, <2>2, Dues
  <2>4. /\ Owed(u, o[u]) /\ up # <<>> /\ up' = Tail(up) /\ envoy' = envoy
        /\ proxy'.nonce[u] = proxy.nonce[u] /\ proxy'.subscribed[u] = proxy.subscribed[u]
    BY <1>3, <1>4, <1>8
  <2> QED
    BY <2>1, <2>3, <2>4, OwedRest
<1>10. ASSUME ~RespondToRequest(r) PROVE Used' = Used /\ ~Answering(t)'
  <2>1. job' = NoJob
    BY <1>1, <1>10, HandleEffect
  <2>2. Len(job'.types) = 0 /\ job'.types = <<>>
    BY <2>1 DEF NoJob
  <2>3. Used' = nonces + Pushes
    BY <1>4, <1>5, <1>6, <2>2 DEF Used
  <2> QED
    BY <1>6, <2>2, <2>3 DEF Answering
<1>11. CASE ~Heard(r, proxy.nonce[t], t)
  <2>1. ~RespondToRequest(r) /\ proxy'.subscribed[t] = proxy.subscribed[t]
    BY <1>1, <1>2, <1>11, HandleEffect
  <2>2. Unsent(t)' = Unsent(t)
    BY <1>3, <1>7, <1>10, <2>1, Dues
  <2>3. Owed(t, o[t])'
    <3>1. ~Heard(up[1], proxy.nonce[t], t) /\ Owed(t, o[t]) /\ proxy'.nonce[t] = proxy.nonce[t]
      BY <1>3, <1>8, <1>11
    <3> QED
      BY <1>3, <1>4, <2>1, <2>2, <3>1, OwedRest
  <2>4. \A u \in TypeURIs : Owed(u, o[u])'
    BY <1>9, <2>3
  <2>5. Used' + Budget <= Used + Budget'
    BY <1>5, <1>6, <1>10, <2>1, SMT
  <2> QED
    BY <2>4, <2>5, AccountSame
<1>12. CASE Heard(r, proxy.nonce[t], t)
  <2>1. proxy'.subscribed[t] = r.names
    BY <1>1, <1>2, <1>12, HandleEffect
  <2>2. PICK f \in [Nat -> Nat] : /\ Covers(f, up, proxy.nonce[t], proxy.subscribed[t], envoy.names[t], t)
                                  /\ f[0] + Unsent(t) + FirstDue(t) <= o[t]
    BY <1>3, <1>8 DEF Owed
  <2>3. PICK g \in [Nat -> Nat] :
          /\ Covers(g, Tail(up), proxy.nonce[t], r.names, envoy.names[t], t)
          /\ g[0] <= f[0] /\ (Asks(r, proxy.nonce[t]) \/ proxy.subscribed[t] # r.names => g[0] < f[0])
    <3>1. Heard(up[1], proxy.nonce[t], t)
      BY <1>3, <1>12
    <3>2. OnceRead(f, up, proxy.nonce[t], proxy.subscribed[t], envoy.names[t], t)
      BY <1>3, <2>2, CoversTail
    <3> QED
      BY <1>3, <3>1, <3>2 DEF OnceRead
  <2>4. Covers(g, up', proxy'.nonce[t], proxy'.subscribed[t], envoy'.names[t], t)
    BY <1>3, <1>4, <2>1, <2>3
  <2>5. /\ f[0] \in Nat /\ g[0] \in Nat /\ Unsent(t) \in Nat /\ FirstDue(t) \in Nat
        /\ FirstDue(t)' = FirstDue(t) /\ o[t] \in Nat
    <3>1. f[0] \in Nat /\ g[0] \in Nat
      OBVIOUS
    <3>2. Unsent(t) \in Nat /\ FirstDue(t) \in Nat
      BY Dues, SMT
    <3>3. FirstDue(t)' = FirstDue(t)
      BY <1>4, Dues
    <3> QED
      BY <1>3, <1>8, <3>1, <3>2, <3>3
  <2>6. CASE ~RespondToRequest(r)
    <3>1. ~Asks(r, proxy.nonce[t]) /\ (IsWildcardTypeURI(t) \/ r.names = proxy.lastSent[t])
      BY <1>2, <1>12, <2>6 DEF RespondToRequest, Heard, Asks, StaleNonce, NewNames
    <3>2. proxy'.lastSent[t] = proxy'.subscribed[t]
      <4>1. IsWildcardTypeURI(t) => proxy.lastSent[t] = {} /\ r.names = {}
        BY <1>2, <1>3 DEF Consistent, TypeOk, RequestOk
      <4> QED
        BY <1>3, <2>1, <3>1, <4>1
    <3>3. Unsent(t)' = 0
      BY <3>2 DEF Unsent
    <3>4. g[0] + 0 + FirstDue(t) <= o[t]
      BY <2>2, <2>3, <2>5, SMT
    <3>5. Owed(t, o[t])'
      BY <2>4, <2>5, <3>3, <3>4 DEF Owed
    <3>6. \A u \in TypeURIs : Owed(u, o[u])'
      BY <1>9, <3>5
    <3>7. Used' + Budget <= Used + Budget'
      BY <1>5, <1>6, <1>10, <2>6, SMT
    <3> QED
      BY <3>6, <3>7, AccountSame
  <2>7. CASE RespondToRequest(r)
    <3>1. job'.types = <<t>> /\ ~job'.driven /\ Len(job'.types) = 1
      BY <1>1, <1>2, <2>7, HandleEffect
    <3>2. Answering(t)'
      BY <3>1, SMT DEF Answering
    <3>3. Unsent(t)' = 0
      BY <3>2 DEF Unsent
    <3>4. g[0] < f[0] \/ Unsent(t) = 1
      <4>1. CASE Asks(r, proxy.nonce[t]) \/ proxy.subscribed[t] # r.names
        BY <2>3, <4>1
      <4>2. CASE ~Asks(r, proxy.nonce[t]) /\ proxy.subscribed[t] = r.names
        <5>1. r.names # proxy.lastSent[t]
          BY <1>2, <2>7, <4>2 DEF RespondToRequest, Asks, NewNames
        <5> QED
          BY <1>7, <4>2, <5>1 DEF Unsent
      <4> QED
        BY <4>1, <4>2
    <3>5. PICK n \in Nat : n = g[0] + FirstDue(t)
      BY <2>5, SMT
    <3>6. n + 1 <= o[t]
      <4>1. CASE g[0] < f[0]
        BY <2>2, <2>5, <3>5, <4>1, SMT
      <4>2. CASE Unsent(t) = 1
        BY <2>2, <2>3, <2>5, <3>5, <4>2, SMT
      <4> QED
        BY <3>4, <4>1, <4>2
    <3>7. Owed(t, n)'
      <4>1. g[0] + Unsent(t)' + FirstDue(t)' <= n
        BY <2>5, <3>3, <3>5, SMT
      <4> QED
        BY <2>4, <4>1 DEF Owed
    <3>8. Used' = Used + 1
      BY <1>4, <1>5, <1>6, <3>1, SMT DEF Used
    <3>9. Used' + n + Budget <= Used + o[t] + Budget'
      <4>1. Used \in Nat
        BY Numbers DEF NumbersOk
      <4>2. \A u, v, k \in Nat : \A b \in Int : v + 1 <= k => u + 1 + v + b <= u + k + b
        BY SMT
      <4> QED
        BY <1>5, <1>6, <2>5, <3>6, <3>8, <4>1, <4>2
    <3> QED
      BY <1>3, <1>9, <3>7, <3>9, AccountStep
  <2> QED
    BY <2>6, <2>7
<1> QED
  BY <1>11, <1>12

(* The pushes to come, as changes are published and pushed. *)
LEMMA PushSums ==
  ASSUME NEW l \in Nat, NEW x \in Int
  PROVE  l * x \in Int /\ l * (x + 1) = l * x + l /\ l * (x - 1) = l * x - l
BY SMT

(* HandleProxyUpdate and HandleCertRotation: the push was to come. *)
LEMMA PushAccounted ==
  ASSUME TypeInv, TypeInv', Consistent, Consistent', TypeURIs' = TypeURIs,
         HandleProxyUpdate \/ HandleCertRotation, NEW o \in [AllTypes -> Nat], Accounted(o)
  PROVE  \E p \in [AllTypes -> Nat] : Accounted(p)'
<1>1. UNCHANGED <<scope, gen, unpublished, proxy, nonces, up, envoy, nameChanges, reconnects>>
  BY DEF HandleProxyUpdate, HandleCertRotation, proxyVars
<1>2. job = NoJob /\ job.types = <<>> /\ ~job.driven
  BY SMT DEF HandleProxyUpdate, HandleCertRotation, NoJob
<1>3. /\ Len(PushOrder) \in Nat /\ Coming("mesh") \in Nat /\ Coming("cert") \in Nat
      /\ nonces \in Nat /\ Pushes \in Nat /\ Budget \in Int /\ Used \in Nat
  BY Numbers DEF NumbersOk, TypeInv
<1>4. Budget' = Budget /\ PushOrder' = PushOrder
  BY <1>1 DEF Budget, PushOrder, TypeURIs
<1>5. Used = nonces + Pushes
  <2>1. Len(job.types) = 0
    BY <1>2
  <2> QED
    BY <1>3, <2>1, SMT DEF Used
<1>6. chan \in [Sources -> Nat] /\ "mesh" \in Sources /\ "cert" \in Sources
  BY DEF TypeInv, Sources
<1>7. ASSUME job'.types = <<>> \/ job'.driven, Used' <= Used
      PROVE  \E p \in [AllTypes -> Nat] : Accounted(p)'
  <2>1. ASSUME NEW u \in TypeURIs PROVE Owed(u, o[u])'
    <3>1. ~Answering(u) /\ ~Answering(u)'
      BY <1>2, <1>7 DEF Answering
    <3>2. Unsent(u)' = Unsent(u)
      BY <1>1, <3>1, Dues
    <3>3. Owed(u, o[u])
      BY DEF Accounted
    <3> QED
      BY <1>1, <3>2, <3>3, OwedKept
  <2>2. Used' \in Nat
    BY NumbersStep DEF NumbersOk
  <2>3. Used' + Budget <= Used + Budget'
    <3>1. \A u, v \in Nat : \A b \in Int : v <= u => v + b <= u + b
      BY SMT
    <3> QED
      BY <1>3, <1>4, <1>7, <2>2, <3>1
  <2> QED
    BY <2>1, <2>3, AccountSame
<1>8. CASE HandleProxyUpdate
  <2>1. chan'["mesh"] = chan["mesh"] - 1 /\ chan'["cert"] = chan["cert"]
    BY <1>6, <1>8 DEF HandleProxyUpdate
  <2>2. Coming("cert")' = Coming("cert")
    BY <1>1, <2>1 DEF Coming
  <2>3. Coming("mesh")' = Coming("mesh") - 1
    BY <1>1, <1>6, <2>1, SMT DEF Coming
  <2>4. Pushes' = Pushes - Len(PushOrder)
    <3>1. Len(PushOrder) * (Coming("mesh") - 1) = Len(PushOrder) * Coming("mesh") - Len(PushOrder)
      BY <1>3, PushSums, SMT
    <3>2. Len(PushOrder) * Coming("mesh") \in Int
      BY <1>3, PushSums, SMT
    <3> QED
      BY <1>1, <1>3, <1>4, <2>2, <2>3, <3>1, <3>2, SMTT(30) DEF Pushes, TypeURIs
  <2>5. Len(job'.types) \in {0, Len(PushOrder)} /\ (job'.types = <<>> \/ job'.driven)
    <3>1. job' \in {NoJob, [types |-> PushOrder, names |-> {}, driven |-> TRUE, made |-> -1]}
      BY <1>8 DEF HandleProxyUpdate, NoJob
    <3> QED
      BY <3>1, SMT DEF NoJob
  <2>6. Used' <= Used
    <3>1. Used' = nonces + Len(job'.types) + Pushes'
      BY <1>1 DEF Used
    <3> QED
      BY <1>3, <1>5, <2>4, <2>5, <3>1, SMT
  <2> QED
    BY <1>7, <2>5, <2>6
<1>9. CASE HandleCertRotation
  <2>1. chan'["cert"] = chan["cert"] - 1 /\ chan'["mesh"] = chan["mesh"]
    BY <1>6, <1>9 DEF HandleCertRotation
  <2>2. Coming("mesh")' = Coming("mesh")
    BY <1>1, <2>1 DEF Coming
  <2>3. Coming("cert")' = Coming("cert") - 1
    BY <1>1, <1>6, <2>1, SMT DEF Coming
  <2>4. Pushes' = Pushes - IF "SDS" \in TypeURIs THEN 1 ELSE 0
    <3>1. Len(PushOrder) * Coming("mesh") \in Int
      BY <1>3, PushSums, SMT
    <3> QED
      BY <1>1, <1>3, <1>4, <2>2, <2>3, <3>1, SMTT(30) DEF Pushes, TypeURIs
  <2>5. Len(job'.types) = (IF "SDS" \in TypeURIs THEN 1 ELSE 0) /\ (job'.types = <<>> \/ job'.driven)
    <3>1. CASE "SDS" \in TypeURIs
      <4>1. job' = [NoJob EXCEPT !.types = <<"SDS">>, !.driven = TRUE]
        BY <1>9, <3>1 DEF HandleCertRotation
      <4>2. job'.types = <<"SDS">> /\ job'.driven = TRUE
        BY <4>1 DEF NoJob
      <4> QED
        BY <3>1, <4>2
    <3>2. CASE "SDS" \notin TypeURIs
      <4>1. job' = NoJob
        BY <1>9, <3>2 DEF HandleCertRotation
      <4> QED
        BY <3>2, <4>1 DEF NoJob
    <3> QED
      BY <3>1, <3>2
  <2>6. Used' <= Used
    <3>1. Used' = nonces + Len(job'.types) + Pushes'
      BY <1>1 DEF Used
    <3> QED
      BY <1>3, <1>5, <2>4, <2>5, <3>1, SMT
  <2> QED
    BY <1>7, <2>5, <2>6
<1> QED
  BY <1>8, <1>9

(* GenerateResources and GenerateFails: resources that cannot be made were   *)
(* the job's, and are owed again.                                            *)
LEMMA GenerateAccounted ==
  ASSUME TypeInv, TypeInv', Consistent, Consistent', TypeURIs' = TypeURIs,
         GenerateResources \/ GenerateFails, NEW o \in [AllTypes -> Nat], Accounted(o)
  PROVE  \E p \in [AllTypes -> Nat] : Accounted(p)'
<1>1. UNCHANGED <<scope, gen, unpublished, chan, proxy, nonces, up, envoy, nameChanges, reconnects>>
  BY DEF GenerateResources, GenerateFails, sourceVars, proxyVars
<1>2. job.types # <<>> /\ job \in Jobs
  BY DEF GenerateResources, GenerateFails, TypeInv
<1>3. nonces \in Nat /\ Pushes \in Nat /\ Budget \in Int /\ Used \in Nat /\ Len(job.types) \in Nat
  BY Numbers DEF NumbersOk, TypeInv
<1>4. Budget' = Budget /\ Pushes' = Pushes
  BY <1>1 DEF Budget, Pushes, Coming, PushOrder, TypeURIs
<1>5. \A u \in TypeURIs : Owed(u, o[u]) /\ o[u] \in Nat
  BY TypesKnown DEF Accounted, TypeInv, AllTypes
<1>6. CASE GenerateResources
  <2>1. job'.types = job.types /\ job'.driven = job.driven
    BY <1>2, <1>6 DEF GenerateResources, Jobs
  <2>2. ASSUME NEW u \in TypeURIs PROVE Owed(u, o[u])'
    <3>1. Unsent(u)' = Unsent(u)
      BY <1>1, <2>1, Dues DEF Answering
    <3> QED
      BY <1>1, <1>5, <3>1, OwedKept
  <2>3. Used' = Used
    BY <1>1, <1>4, <2>1 DEF Used
  <2>4. Used' + Budget <= Used + Budget'
    BY <1>3, <1>4, <2>3, SMT
  <2> QED
    BY <2>2, <2>4, AccountSame
<1>7. CASE GenerateFails
  <2>1. job' = NextType
    BY <1>7 DEF GenerateFails
  <2>2. /\ Len(job'.types) = Len(job.types) - 1
        /\ job'.types = <<>> \/ job'.driven = job.driven
        /\ Len(job.types) = 1 => job'.types = <<>>
    BY <1>2, <2>1, NextTypeLen
  <2>3. ~job.driven => job'.types = <<>>
    <3>1. job.types \in Seq(TypeURIs)
      BY <1>2 DEF Jobs
    <3>2. Len(job.types) # 0
      BY <1>2, <3>1, SMT
    <3>3. \A n \in Nat : n # 0 /\ n <= 1 => n = 1
      BY SMT
    <3>4. ~job.driven => Len(job.types) <= 1
      BY DEF Consistent, JobOk
    <3> QED
      BY <1>3, <2>2, <3>2, <3>3, <3>4
  <2>4. \A u : ~Answering(u)'
    BY <2>2, <2>3 DEF Answering
  <2>5. PICK t : t = Head(job.types)
    OBVIOUS
  <2>6. t \in TypeURIs
    BY <1>2, <2>5, NextTypeType
  <2>7. ASSUME NEW u \in TypeURIs \ {t} PROVE Owed(u, o[u])'
    <3>1. ~Answering(u)
      BY <2>5 DEF Answering
    <3>2. Unsent(u)' = Unsent(u)
      BY <1>1, <2>4, <3>1, Dues
    <3> QED
      BY <1>1, <1>5, <3>2, OwedKept
  <2>8. PICK n \in Nat : n = o[t] + 1
    BY <1>5, <2>6, SMT
  <2>9. Owed(t, n)'
    <3>1. PICK f \in [Nat -> Nat] : /\ Covers(f, up, proxy.nonce[t], proxy.subscribed[t], envoy.names[t], t)
                                    /\ f[0] + Unsent(t) + FirstDue(t) <= o[t]
      BY <1>5, <2>6 DEF Owed
    <3>2. Covers(f, up', proxy'.nonce[t], proxy'.subscribed[t], envoy'.names[t], t)
      BY <1>1, <3>1
    <3>3. FirstDue(t)' = FirstDue(t)
      BY <1>1, Dues
    <3>4. f[0] \in Nat /\ o[t] \in Nat
      BY <1>5, <2>6
    <3>5. Unsent(t) \in {0, 1} /\ Unsent(t)' \in {0, 1} /\ FirstDue(t) \in {0, 1}
      BY Dues
    <3>6. f[0] + Unsent(t)' + FirstDue(t)' <= n
      BY <2>8, <3>1, <3>3, <3>4, <3>5, SMT
    <3> QED
      BY <3>2, <3>6 DEF Owed
  <2>10. Used' + 1 = Used
    BY <1>1, <1>3, <1>4, <2>2, SMT DEF Used
  <2>11. Used' + n + Budget <= Used + o[t] + Budget'
    <3>1. Used' \in Nat /\ o[t] \in Nat
      BY <1>5, <2>6, NumbersStep DEF NumbersOk
    <3>2. \A u, v, k \in Nat : \A b \in Int : v + 1 = u => v + (k + 1) + b <= u + k + b
      BY SMT
    <3> QED
      BY <1>3, <1>4, <2>8, <2>10, <3>1, <3>2
  <2> QED
    BY <2>6, <2>7, <2>9, <2>11, AccountStep
<1> QED
  BY <1>6, <1>7

(* SendDiscoveryResponse: the job's response is sent with a new nonce, and   *)
(* with all the names subscribed to.                                         *)
LEMMA SendAccounted ==
  ASSUME TypeInv, TypeInv', Consistent, Consistent', TypeURIs' = TypeURIs,
         SendDiscoveryResponse, NEW o \in [AllTypes -> Nat], Accounted(o)
  PROVE  \E p \in [AllTypes -> Nat] : Accounted(p)'
(* A new nonce: of the requests under way, those that ask are heard and no   *)
(* others.                                                                   *)
<1>0. ASSUME NEW q, NEW k, NEW l, l # 0, \A i \in Nat : i # 0 /\ i <= Len(q) => q[i].nonce # l,
             NEW s, NEW e, NEW t, NEW f \in [Nat -> Nat], Covers(f, q, k, s, e, t)
      PROVE  Covers(f, q, l, s, e, t)
  <2> USE <1>0
  <2>1. ASSUME NEW i \in Nat, i # 0, i <= Len(q), Heard(q[i], l, t)
        PROVE  Heard(q[i], k, t) /\ (Asks(q[i], l) => Asks(q[i], k))
    BY <2>1 DEF Heard, Asks
  <2>2. ASSUME NEW i \in Nat, i <= Len(q), Stop(q, l, t, i) PROVE Stop(q, k, t, i)
    BY <2>1, <2>2 DEF Stop
  <2>3. ASSUME NEW i \in Nat, NEW j \in Nat, i < j, j <= Len(q), Stop(q, l, t, i), Heard(q[j], l, t),
               Asks(q[j], l) \/ Told(q, s, i) # q[j].names
        PROVE  f[j] < f[i]
    <3>1. j # 0
      BY <2>3, SMT
    <3>2. Heard(q[j], k, t) /\ (Asks(q[j], l) => Asks(q[j], k))
      BY <2>1, <2>3, <3>1
    <3>3. Stop(q, k, t, i)
      BY <2>1, <2>3, SMT DEF Stop
    <3> QED
      BY <2>3, <3>2, <3>3 DEF Covers
  <2> QED
    BY <2>2, <2>3 DEF Covers
<1>1. /\ UNCHANGED <<scope, gen, unpublished, chan, up, envoy, nameChanges, reconnects>>
      /\ nonces' = nonces + 1 /\ job' = NextType /\ job.made # -1
  BY DEF SendDiscoveryResponse, sourceVars, proxyVars
<1>2. PICK t : t = NowType
  OBVIOUS
<1>3. /\ job.types # <<>> /\ t \in TypeURIs /\ proxy'.nonce[t] = nonces + 1
      /\ proxy'.lastSent[t] = Resources(t, job.names) \cap proxy.subscribed[t]
      /\ \A u \in TypeURIs \ {t} :
           proxy'.nonce[u] = proxy.nonce[u] /\ proxy'.lastSent[u] = proxy.lastSent[u]
      /\ proxy'.subscribed = proxy.subscribed
  BY <1>2, SendEffect
<1>4. nonces \in Nat /\ Pushes \in Nat /\ Budget \in Int /\ Used \in Nat /\ Len(job.types) \in Nat
  BY Numbers DEF NumbersOk, TypeInv
<1>5. Budget' = Budget /\ Pushes' = Pushes
  BY <1>1 DEF Budget, Pushes, Coming, PushOrder, TypeURIs
<1>6. \A u \in TypeURIs : Owed(u, o[u]) /\ o[u] \in Nat
  BY TypesKnown DEF Accounted, TypeInv, AllTypes
<1>7. proxy'.lastSent[t] = proxy.subscribed[t]
  <2>1. job.names = proxy.subscribed[t]
    BY <1>1, <1>2, <1>3 DEF Consistent, JobOk, NowType
  <2>2. t \in AllTypes
    BY <1>3, TypesKnown DEF TypeInv, AllTypes
  <2>3. IsWildcardTypeURI(t) => proxy.subscribed[t] = {}
    BY <1>3 DEF Consistent, TypeOk
  <2>4. Resources(t, job.names) \cap proxy.subscribed[t] = proxy.subscribed[t]
    BY <2>1, <2>2, <2>3 DEF Resources, AllTypes, IsWildcardTypeURI
  <2> QED
    BY <1>3, <2>4
<1>8. job \in Jobs /\ Len(job'.types) = Len(job.types) - 1
  <2>1. job \in Jobs
    BY DEF TypeInv
  <2> QED
    BY <1>1, <1>3, <2>1, NextTypeLen
<1>9. Used' = Used
  <2>1. \A n, l, p \in Nat : (n + 1) + (l - 1) + p = n + l + p
    BY SMT
  <2>2. Used' = (nonces + 1) + (Len(job.types) - 1) + Pushes
    BY <1>1, <1>5, <1>8 DEF Used
  <2> QED
    BY <1>4, <2>1, <2>2, ZenonT(30) DEF Used
<1>10. \A u : ~Answering(u)'
  <2>1. /\ job'.types = <<>> \/ job'.driven = job.driven
        /\ Len(job.types) = 1 => job'.types = <<>>
    BY <1>1, <1>3, <1>8, NextTypeLen
  <2>2. job.types \in Seq(TypeURIs)
    BY <1>8 DEF Jobs
  <2>3. Len(job.types) # 0
    BY <1>3, <2>2, SMT
  <2>4. \A n \in Nat : n # 0 /\ n <= 1 => n = 1
    BY SMT
  <2>5. ~job.driven => Len(job.types) <= 1
    BY DEF Consistent, JobOk
  <2>6. ~job.driven => job'.types = <<>>
    BY <1>4, <2>1, <2>3, <2>4, <2>5
  <2> QED
    BY <2>1, <2>6 DEF Answering
<1>11. ASSUME NEW u \in TypeURIs \ {t} PROVE Owed(u, o[u])'
  <2>1. ~Answering(u)
    BY <1>2 DEF Answering, NowType
  <2>2. Unsent(u)' = Unsent(u)
    BY <1>3, <1>10, <2>1, Dues
  <2> QED
    BY <1>1, <1>3, <1>6, <2>2, OwedKept
<1>12. Owed(t, o[t])'
  <2>1. PICK f \in [Nat -> Nat] : /\ Covers(f, up, proxy.nonce[t], proxy.subscribed[t], envoy.names[t], t)
                                  /\ f[0] + Unsent(t) + FirstDue(t) <= o[t]
    BY <1>3, <1>6 DEF Owed
  <2>2. PICK l \in Nat : l = nonces + 1
    BY <1>4, SMT
  <2>3. \A i \in Nat : i # 0 /\ i <= Len(up) => up[i].nonce # l
    <3>1. up \in Seq(Requests)
      BY DEF TypeInv
    <3>2. ASSUME NEW i \in Nat, i # 0, i <= Len(up) PROVE up[i].nonce <= nonces /\ up[i].nonce \in Nat
      <4>1. i \in DOMAIN up
        BY <3>1, <3>2, SMT
      <4>2. up[i] \in Requests
        BY <3>1, <4>1, SMT
      <4>3. up[i].nonce \in Nat
        BY <4>2 DEF Requests
      <4> QED
        BY <4>1, <4>3 DEF Consistent, RequestsOk, RequestOk
    <3>3. \A x \in Nat : x <= nonces => x # l
      BY <1>4, <2>2, SMT
    <3> QED
      BY <3>2, <3>3
  <2>4. l # 0
    BY <1>4, <2>2, SMT
  <2>5. Covers(f, up, l, proxy.subscribed[t], envoy.names[t], t)
    BY <2>1, <2>3, <2>4, <1>0
  <2>6. Covers(f, up', proxy'.nonce[t], proxy'.subscribed[t], envoy'.names[t], t)
    BY <1>1, <1>3, <2>2, <2>5
  <2>7. Unsent(t)' = 0
    BY <1>3, <1>7 DEF Unsent
  <2>8. FirstDue(t)' = FirstDue(t)
    BY <1>1, Dues
  <2>9. f[0] + Unsent(t)' + FirstDue(t)' <= o[t]
    <3>1. f[0] \in Nat /\ o[t] \in Nat
      BY <1>3, <1>6
    <3>2. Unsent(t) \in {0, 1} /\ FirstDue(t) \in {0, 1}
      BY Dues
    <3> QED
      BY <2>1, <2>7, <2>8, <3>1, <3>2, SMTT(30)
  <2> QED
    BY <2>6, <2>9 DEF Owed
<1>13. \A u \in TypeURIs : Owed(u, o[u])'
  BY <1>11, <1>12
<1>14. Used' + Budget <= Used + Budget'
  BY <1>4, <1>5, <1>9, SMT
<1> QED
  BY <1>13, <1>14, AccountSame

(* A change of the mesh or the certificate is the cause of the push it       *)
(* announces; publishing it leaves the account as it is.                     *)
LEMMA ChangeAccounted ==
  ASSUME TypeInv, TypeInv', Consistent, Consistent', TypeURIs' = TypeURIs, NEW s \in Sources,
         Change(s) \/ Publish(s), NEW o \in [AllTypes -> Nat], Accounted(o)
  PROVE  \E p \in [AllTypes -> Nat] : Accounted(p)'
<1>1. UNCHANGED <<scope, proxy, nonces, job, up, envoy, nameChanges, reconnects>>
  BY DEF Change, Publish, serverVars, proxyVars
<1>2. ASSUME NEW u \in TypeURIs PROVE Owed(u, o[u])'
  <2>1. Unsent(u)' = Unsent(u)
    BY <1>1, Dues DEF Answering
  <2>2. Owed(u, o[u])
    BY DEF Accounted
  <2> QED
    BY <1>1, <2>1, <2>2, OwedKept
<1>3. /\ Len(PushOrder) \in Nat /\ Coming("mesh") \in Nat /\ Coming("cert") \in Nat
      /\ nonces \in Nat /\ Pushes \in Nat /\ Budget \in Int /\ Used \in Nat /\ Len(job.types) \in Nat
      /\ Cardinality(TypeURIs) \in Nat /\ nameChanges \in Nat /\ reconnects \in Nat
  BY Numbers DEF NumbersOk, TypeInv, Consistent
<1>4. PushOrder' = PushOrder
  BY <1>1 DEF PushOrder, TypeURIs
<1>5. /\ chan \in [Sources -> Nat] /\ gen \in [Sources -> Nat] /\ Sources = {"mesh", "cert"}
      /\ chan["mesh"] \in Nat /\ chan["cert"] \in Nat /\ gen["mesh"] \in Nat /\ gen["cert"] \in Nat
  BY DEF TypeInv, Sources
<1>6. PICK l \in Nat : l = Len(PushOrder)
  BY <1>3
<1>7. PICK c \in Nat : c = IF "SDS" \in TypeURIs THEN 1 ELSE 0
  OBVIOUS
<1>8. ASSUME Pushes' \in {Pushes, Pushes + l}, Budget' = Budget + l
      PROVE  Used' + Budget <= Used + Budget'
  <2>1. Used' = nonces + Len(job.types) + Pushes'
    BY <1>1 DEF Used
  <2>2. \A n, j, p \in Nat : \A b \in Int :
          /\ (n + j + p) + b <= (n + j + p) + (b + l)
          /\ (n + j + (p + l)) + b <= (n + j + p) + (b + l)
    BY SMT
  <2> QED
    BY <1>3, <1>8, <2>1, <2>2 DEF Used
<1>9. ASSUME Pushes' \in {Pushes, Pushes + c}, Budget' = Budget + c
      PROVE  Used' + Budget <= Used + Budget'
  <2>1. Used' = nonces + Len(job.types) + Pushes'
    BY <1>1 DEF Used
  <2>2. \A n, j, p \in Nat : \A b \in Int :
          /\ (n + j + p) + b <= (n + j + p) + (b + c)
          /\ (n + j + (p + c)) + b <= (n + j + p) + (b + c)
    BY SMT
  <2> QED
    BY <1>3, <1>9, <2>1, <2>2 DEF Used
<1>10. PICK a \in Int : a = Cardinality(TypeURIs) * (1 + reconnects) + nameChanges
  BY <1>3, SMT
<1>11. CASE Change(s) /\ s = "mesh"
  <2>1. /\ gen'["mesh"] = gen["mesh"] + 1 /\ gen'["cert"] = gen["cert"]
        /\ chan' = chan /\ unpublished' = unpublished \cup {"mesh"}
    BY <1>5, <1>11 DEF Change
  <2>2. Coming("cert")' = Coming("cert")
    BY <2>1 DEF Coming
  <2>3. Coming("mesh")' \in {Coming("mesh"), Coming("mesh") + 1}
    BY <1>5, <2>1, SMT DEF Coming
  <2>4. Pushes' \in {Pushes, Pushes + l}
    <3>1. l * (Coming("mesh") + 1) = l * Coming("mesh") + l /\ l * Coming("mesh") \in Int
      BY <1>3, PushSums, SMT
    <3> QED
      BY <1>1, <1>3, <1>4, <1>6, <2>2, <2>3, <3>1, SMTT(30) DEF Pushes, TypeURIs
  <2>5. Budget' = Budget + l
    <3>1. PICK x \in Int : x = gen["mesh"] - 1 /\ gen'["mesh"] - 1 = x + 1
      BY <1>5, <2>1, SMT
    <3>2. l * (x + 1) = l * x + l /\ l * x \in Int
      BY PushSums
    <3>3. PICK z \in Int : z = IF "SDS" \in TypeURIs THEN gen["cert"] - 1 ELSE 0
      BY <1>5, SMT
    <3>4. Budget = a + l * x + z
      BY <1>6, <1>10, <3>1, <3>3 DEF Budget
    <3>5. Budget' = a + l * (x + 1) + z
      BY <1>1, <1>4, <1>6, <1>10, <2>1, <3>1, <3>3 DEF Budget, TypeURIs
    <3> QED
      BY <3>2, <3>4, <3>5, SMT
  <2> QED
    BY <1>2, <1>8, <2>4, <2>5, AccountSame
<1>12. CASE Change(s) /\ s = "cert"
  <2>1. /\ gen'["cert"] = gen["cert"] + 1 /\ gen'["mesh"] = gen["mesh"]
        /\ chan' = chan /\ unpublished' = unpublished \cup {"cert"}
    BY <1>5, <1>12 DEF Change
  <2>2. Coming("mesh")' = Coming("mesh")
    BY <2>1 DEF Coming
  <2>3. Coming("cert")' \in {Coming("cert"), Coming("cert") + 1}
    BY <1>5, <2>1, SMT DEF Coming
  <2>4. Pushes' \in {Pushes, Pushes + c}
    <3>1. l * Coming("mesh") \in Int
      BY <1>3, PushSums, SMT
    <3> QED
      BY <1>1, <1>3, <1>4, <1>6, <1>7, <2>2, <2>3, <3>1, SMTT(30) DEF Pushes, TypeURIs
  <2>5. Budget' = Budget + c
    <3>1. PICK x \in Int : x = l * (gen["mesh"] - 1)
      BY <1>5, PushSums, SMT
    <3>2. PICK z \in Int : z = IF "SDS" \in TypeURIs THEN gen["cert"] - 1 ELSE 0
      BY <1>5, SMT
    <3>3. PICK y \in Int : y = IF "SDS" \in TypeURIs THEN gen'["cert"] - 1 ELSE 0
      BY <1>5, <2>1, SMT
    <3>4. y = z + c
      BY <1>5, <1>7, <2>1, <3>2, <3>3, SMT
    <3>5. Budget = a + x + z
      BY <1>6, <1>10, <3>1, <3>2 DEF Budget
    <3>6. Budget' = a + x + y
      BY <1>1, <1>4, <1>6, <1>10, <2>1, <3>1, <3>3 DEF Budget, TypeURIs
    <3> QED
      BY <3>4, <3>5, <3>6, SMT
  <2> QED
    BY <1>2, <1>9, <2>4, <2>5, AccountSame
<1>13. CASE Publish(s)
  <2>1. /\ s \in unpublished /\ unpublished' = unpublished \ {s} /\ gen' = gen
        /\ chan'[s] = chan[s] + 1 /\ \A u \in Sources \ {s} : chan'[u] = chan[u]
    BY <1>5, <1>13 DEF Publish
  <2>2. \A u \in Sources : Coming(u)' = Coming(u)
    BY <1>5, <2>1, SMT DEF Coming
  <2>3. Pushes' = Pushes /\ Budget' = Budget
    BY <1>1, <1>4, <1>5, <2>1, <2>2 DEF Pushes, Budget, TypeURIs
  <2>4. Used' = Used
    BY <1>1, <2>3 DEF Used
  <2>5. Used' + Budget <= Used + Budget'
    BY <1>3, <2>3, <2>4, SMT
  <2> QED
    BY <1>2, <2>5, AccountSame
<1> QED
  BY <1>5, <1>11, <1>12, <1>13

(* A type that the request is not of, or that a repeated answer is of, is    *)
(* owed what it was.                                                         *)
LEMMA OwedSame ==
  ASSUME TypeInv, NEW t, NEW n \in Nat, NEW m \in Requests, Owed(t, n),
         up' = Append(up, m), proxy' = proxy, job' = job,
         envoy'.names[t] = envoy.names[t], FirstDue(t)' = FirstDue(t),
         m.type = t => m.names = envoy.names[t] /\ ~Asks(m, proxy.nonce[t])
  PROVE  Owed(t, n)'
<1>1. Adds(m, proxy.nonce[t], envoy.names[t], envoy'.names[t], t, 0)
  BY DEF Adds, Heard
<1>2. FirstDue(t)' + 0 <= FirstDue(t) + 0
  BY Dues, SMT
<1>3. Owed(t, n + 0)'
  BY <1>1, <1>2, OwedMore
<1>4. n + 0 = n
  BY SMT
<1> QED
  BY <1>3, <1>4

(* The first request of a type is one of the causes there are from the       *)
(* start.                                                                    *)
LEMMA SubscribesAccounted ==
  ASSUME TypeInv, TypeInv', Consistent, Consistent', TypeURIs' = TypeURIs, NEW t \in TypeURIs,
         NEW names \in SUBSET Names, EnvoySubscribes(t, names), NEW o \in [AllTypes -> Nat], Accounted(o)
  PROVE  \E p \in [AllTypes -> Nat] : Accounted(p)'
<1>1. /\ UNCHANGED <<scope, gen, chan, unpublished, proxy, nonces, job, nameChanges, reconnects>>
      /\ ~Subscribed(t)
  BY DEF EnvoySubscribes, serverVars, sourceVars
<1>2. /\ envoy'.types = Append(envoy.types, t) /\ envoy.types \in Seq(TypeURIs)
      /\ \A u \in TypeURIs \ {t} : envoy'.names[u] = envoy.names[u]
  BY SubscribesEffect DEF TypeInv, Envoys
<1>3. PICK m : IsRequest(m, envoy', t, 0) /\ up' = Append(up, m)
  BY SubscribesEffect
<1>4. m \in Requests /\ m.type = t /\ m.names = envoy'.names[t]
  BY <1>3 DEF IsRequest
<1>5. \A u \in TypeURIs : o[u] \in Nat /\ Owed(u, o[u])
  BY TypesKnown DEF Accounted, TypeInv, AllTypes
<1>6. Subscribed(t)' /\ \A u : u # t => (Subscribed(u)' <=> Subscribed(u))
  <2>1. /\ \A i \in DOMAIN envoy.types : i \in DOMAIN envoy'.types /\ envoy'.types[i] = envoy.types[i]
        /\ \A i \in DOMAIN envoy'.types :
             envoy'.types[i] = t \/ (i \in DOMAIN envoy.types /\ envoy'.types[i] = envoy.types[i])
        /\ \E i \in DOMAIN envoy'.types : envoy'.types[i] = t
    BY <1>2, SMTT(30)
  <2> QED
    BY <2>1 DEF Subscribed
<1>7. Owed(t, o[t])'
  <2>1. Adds(m, proxy.nonce[t], envoy.names[t], envoy'.names[t], t, 1)
    BY <1>4, SMT DEF Adds
  <2>2. FirstDue(t)' + 1 <= FirstDue(t) + 0
    BY <1>1, <1>6, SMT DEF FirstDue
  <2>3. Owed(t, o[t] + 0)'
    <3>1. 0 \in Nat /\ 1 \in Nat /\ o[t] \in Nat /\ Owed(t, o[t])
      BY <1>5
    <3> QED
      BY <1>1, <1>3, <1>4, <2>1, <2>2, <3>1, OwedMore
  <2>4. o[t] + 0 = o[t]
    BY <1>5, SMT
  <2> QED
    BY <2>3, <2>4
<1>8. ASSUME NEW u \in TypeURIs, u # t PROVE Owed(u, o[u])'
  <2>1. FirstDue(u)' = FirstDue(u)
    BY <1>6, <1>8 DEF FirstDue
  <2> QED
    BY <1>1, <1>2, <1>3, <1>4, <1>5, <1>8, <2>1, OwedSame
<1>9. Used' = Used /\ Budget' = Budget
  BY <1>1 DEF Used, Budget, Pushes, Coming, PushOrder, TypeURIs
<1>10. Used' + Budget <= Used + Budget'
  BY <1>9, NumbersStep, SMT DEF NumbersOk
<1> QED
  BY <1>7, <1>8, <1>10, AccountSame

(* A change of the names is a cause of one more response. *)
LEMMA NamesAccounted ==
  ASSUME TypeInv, TypeInv', Consistent, Consistent', TypeURIs' = TypeURIs, NEW t \in TypeURIs,
         NEW names \in SUBSET Names, EnvoyChangesNames(t, names), NEW o \in [AllTypes -> Nat], Accounted(o)
  PROVE  \E p \in [AllTypes -> Nat] : Accounted(p)'
<1>1. /\ UNCHANGED <<scope, gen, chan, unpublished, proxy, nonces, job, reconnects>>
      /\ nameChanges' = nameChanges + 1
  BY DEF EnvoyChangesNames, serverVars, sourceVars
<1>2. envoy'.types = envoy.types /\ \A u \in TypeURIs \ {t} : envoy'.names[u] = envoy.names[u]
  BY ChangesNamesEffect
<1>3. PICK m : IsRequest(m, envoy', t, envoy.nonce[t]) /\ up' = Append(up, m)
  BY ChangesNamesEffect
<1>4. m \in Requests /\ m.type = t /\ m.names = envoy'.names[t]
  BY <1>3 DEF IsRequest
<1>5. \A u \in TypeURIs : o[u] \in Nat /\ Owed(u, o[u])
  BY TypesKnown DEF Accounted, TypeInv, AllTypes
<1>6. \A u \in TypeURIs : FirstDue(u)' = FirstDue(u) /\ FirstDue(u) \in {0, 1}
  BY <1>2, Dues
<1>7. Owed(t, o[t] + 1)' /\ o[t] + 1 \in Nat
  <2>1. Adds(m, proxy.nonce[t], envoy.names[t], envoy'.names[t], t, 1)
    BY <1>4, SMT DEF Adds
  <2>2. FirstDue(t)' + 1 <= FirstDue(t) + 1
    BY <1>6, SMT
  <2>3. o[t] \in Nat /\ o[t] + 1 \in Nat /\ 1 \in Nat /\ Owed(t, o[t])
    BY <1>5, SMT
  <2>4. Owed(t, o[t] + 1)'
    BY <1>1, <1>3, <1>4, <2>1, <2>2, <2>3, OwedMore
  <2> QED
    BY <2>3, <2>4
<1>8. ASSUME NEW u \in TypeURIs \ {t} PROVE Owed(u, o[u])'
  BY <1>1, <1>2, <1>3, <1>4, <1>5, <1>6, <1>8, OwedSame
<1>9. Used \in Nat /\ Budget \in Int
  BY NumbersStep DEF NumbersOk
<1>10. Used' = Used
  BY <1>1 DEF Used, Pushes, Coming, PushOrder, TypeURIs
<1>11. Budget' = Budget + 1
  <2>1. PICK a \in Int : a = Cardinality(TypeURIs) * (1 + reconnects)
    BY Numbers, SMTT(30) DEF NumbersOk, TypeInv
  <2>2. PICK x \in Int : x = Len(PushOrder) * (gen["mesh"] - 1)
    BY Numbers, PushSums, SMTT(30) DEF NumbersOk, TypeInv, Sources
  <2>3. PICK y \in Int : y = IF "SDS" \in TypeURIs THEN gen["cert"] - 1 ELSE 0
    BY SMTT(30) DEF TypeInv, Sources
  <2>4. Budget = a + nameChanges + x + y
    BY <2>1, <2>2, <2>3 DEF Budget
  <2>5. Budget' = a + (nameChanges + 1) + x + y
    BY <1>1, <2>1, <2>2, <2>3 DEF Budget, PushOrder, TypeURIs
  <2>6. nameChanges \in Nat
    BY DEF Consistent
  <2> QED
    BY <2>4, <2>5, <2>6, SMT
<1>12. Used' + (o[t] + 1) + Budget <= Used + o[t] + Budget'
  <2>1. \A u, n \in Nat : \A b \in Int : u + (n + 1) + b <= u + n + (b + 1)
    BY SMT
  <2> QED
    BY <1>5, <1>9, <1>10, <1>11, <2>1
<1> QED
  BY <1>7, <1>8, <1>12, AccountStep

(* An answer repeats what the server knows, or will hear before it. *)
LEMMA AnswerAccounted ==
  ASSUME TypeInv, TypeInv', Consistent, Consistent', TypeURIs' = TypeURIs, EnvoyAcks \/ EnvoyNacks,
         NEW o \in [AllTypes -> Nat], Accounted(o)
  PROVE  \E p \in [AllTypes -> Nat] : Accounted(p)'
<1>1. /\ UNCHANGED <<scope, gen, chan, unpublished, proxy, nonces, job, nameChanges, reconnects>>
      /\ down # <<>>
  BY DEF EnvoyAcks, EnvoyNacks, serverVars, sourceVars
<1>2. \A u \in TypeURIs : o[u] \in Nat /\ Owed(u, o[u])
  BY TypesKnown DEF Accounted, TypeInv, AllTypes
<1>3. Used' = Used /\ Budget' = Budget
  BY <1>1 DEF Used, Budget, Pushes, Coming, PushOrder, TypeURIs
<1>4. Used' + Budget <= Used + Budget'
  BY <1>3, NumbersStep, SMTT(30) DEF NumbersOk
<1>5. ASSUME NEW r, r = Head(down), (EnvoyAcks /\ Subscribed(r.type)) \/ EnvoyNacks, NEW u \in TypeURIs
      PROVE  Owed(u, o[u])'
  <2>1. r.type \in TypeURIs /\ envoy'.types = envoy.types /\ envoy'.names = envoy.names
    BY <1>5, AcksEffect, NacksEffect
  <2>2. PICK m : IsRequest(m, envoy', r.type, r.nonce) /\ up' = Append(up, m)
    BY <1>5, AcksEffect, NacksEffect
  <2>3. m \in Requests /\ m.type = r.type /\ m.nonce = r.nonce /\ m.names = envoy'.names[r.type]
    BY <2>2 DEF IsRequest
  <2>4. r.nonce # 0 /\ proxy.nonce[r.type] # 0
    <3>1. down \in Seq(Responses)
      BY DEF TypeInv
    <3>2. 1 \in DOMAIN down /\ r = down[1]
      BY <1>1, <1>5, <3>1, SMT
    <3> QED
      BY <3>2 DEF Consistent, ResponsesOk, ResponseOk
  <2>5. m.type = u => m.names = envoy.names[u] /\ ~Asks(m, proxy.nonce[u])
    BY <2>1, <2>3, <2>4 DEF Asks
  <2>6. FirstDue(u)' = FirstDue(u)
    BY <2>1, Dues
  <2> QED
    BY <1>1, <1>2, <2>1, <2>2, <2>3, <2>5, <2>6, OwedSame
<1>6. ASSUME EnvoyAcks, ~Subscribed(Head(down).type), NEW u \in TypeURIs PROVE Owed(u, o[u])'
  <2>1. UNCHANGED <<up, envoy>>
    BY <1>6 DEF EnvoyAcks
  <2>2. Unsent(u)' = Unsent(u)
    BY <1>1, Dues DEF Answering
  <2> QED
    BY <1>1, <1>2, <2>1, <2>2, OwedKept
<1>7. \A u \in TypeURIs : Owed(u, o[u])'
  BY <1>5, <1>6
<1> QED
  BY <1>4, <1>7, AccountSame

(* A reconnect is a cause of one response of each type, whatever was still   *)
(* to come on the old stream.                                                *)
LEMMA ReconnectAccounted ==
  ASSUME TypeInv, TypeInv', Consistent, Consistent', TypeURIs' = TypeURIs, NEW k \in BOOLEAN, Reconnect(k),
         NEW o \in [AllTypes -> Nat], Accounted(o)
  PROVE  \E p \in [AllTypes -> Nat] : Accounted(p)'
(* On a new stream every type is owed one response, that to its request or   *)
(* to its first one.                                                         *)
<1>0. ASSUME TypeInv, Consistent, NEW t \in TypeURIs
      PROVE  Owed(t, 1)'
  <2> USE <1>0
  <2>1. /\ proxy'.nonce[t] = 0 /\ proxy'.subscribed[t] = {}
        /\ envoy'.types = envoy.types /\ envoy'.names = envoy.names
        /\ up' \in Seq(Requests) /\ DOMAIN up' = DOMAIN envoy.types
        /\ \A i \in DOMAIN up' : up'[i].type = envoy.types[i] /\ up'[i].names = envoy.names[up'[i].type]
    BY ReconnectEffect
  <2>2. proxy'.lastSent[t] = {}
    <3>1. proxy' = NewProxy
      BY DEF Reconnect
    <3> QED
      BY <3>1 DEF NewProxy
  <2>3. Unsent(t)' = 0
    BY <2>1, <2>2 DEF Unsent
  <2>4. \A i \in Nat : i # 0 /\ i <= Len(up') <=> i \in DOMAIN up'
    BY <2>1, SMTT(30)
  <2>5. \A i \in Nat : i # 0 /\ i <= Len(up') /\ up'[i].type = t => up'[i].names = envoy.names[t]
    BY <2>1, <2>4
  <2>6. \A i, j \in Nat : (/\ i # 0 /\ i <= Len(up') /\ up'[i].type = t
                           /\ j # 0 /\ j <= Len(up') /\ up'[j].type = t) => i = j
    <3>1. ASSUME NEW i \in Nat, i # 0, i <= Len(up'), up'[i].type = t
          PROVE  i \in DOMAIN envoy.types /\ envoy.types[i] = t
      BY <2>1, <2>4, <3>1
    <3> QED
      BY <3>1 DEF Consistent, TypesOnce
  <2>7. CASE Subscribed(t)
    <3>1. PICK f \in [Nat -> Nat] : f[0] = 1 /\ Covers(f, up', 0, {}, envoy.names[t], t)
      BY <2>1, <2>5, <2>6, CoversAnew
    <3>2. FirstDue(t)' = 0
      BY <2>1, <2>7 DEF FirstDue, Subscribed
    <3>3. f[0] + Unsent(t)' + FirstDue(t)' <= 1
      BY <2>3, <3>1, <3>2, SMT
    <3> QED
      BY <2>1, <3>1, <3>3 DEF Owed
  <2>8. CASE ~Subscribed(t)
    <3>1. envoy.names[t] = {}
      BY <2>8 DEF Consistent, TypeOk
    <3>2. \A i \in Nat : i # 0 /\ i <= Len(up') => up'[i].type # t
      BY <2>1, <2>4, <2>8, SMT DEF Subscribed
    <3>3. PICK f \in [Nat -> Nat] : f[0] = 0 /\ Covers(f, up', 0, {}, envoy.names[t], t)
      BY <2>1, <2>5, <2>6, <3>1, <3>2, CoversAnew
    <3>4. FirstDue(t)' = 1
      BY <2>1, <2>8 DEF FirstDue, Subscribed
    <3>5. f[0] + Unsent(t)' + FirstDue(t)' <= 1
      BY <2>3, <3>3, <3>4, SMT
    <3> QED
      BY <2>1, <3>3, <3>5 DEF Owed
  <2> QED
    BY <2>7, <2>8
<1>1. /\ UNCHANGED <<scope, gen, unpublished, nonces, nameChanges>>
      /\ reconnects' = reconnects + 1 /\ job'.types = <<>> /\ chan' = [s \in Sources |-> 0]
  BY DEF Reconnect, NoJob
<1>2. /\ Len(PushOrder) \in Nat /\ Coming("mesh") \in Nat /\ Coming("cert") \in Nat
      /\ nonces \in Nat /\ Pushes \in Nat /\ Budget \in Int /\ Used \in Nat /\ Len(job.types) \in Nat
      /\ Cardinality(TypeURIs) \in Nat /\ nameChanges \in Nat /\ reconnects \in Nat
      /\ gen["mesh"] \in Nat /\ gen["cert"] \in Nat /\ chan["mesh"] \in Nat /\ chan["cert"] \in Nat
  BY Numbers DEF NumbersOk, TypeInv, Consistent, Sources
<1>3. PushOrder' = PushOrder
  BY <1>1 DEF PushOrder, TypeURIs
<1>4. PICK p \in [AllTypes -> Nat] : \A t \in AllTypes : p[t] = IF t \in TypeURIs THEN 1 ELSE 0
  <2> DEFINE f == [t \in AllTypes |-> IF t \in TypeURIs THEN 1 ELSE 0]
  <2>1. f \in [AllTypes -> Nat] /\ \A t \in AllTypes : f[t] = IF t \in TypeURIs THEN 1 ELSE 0
    OBVIOUS
  <2> QED
    BY <2>1
<1>5. Total(p) = Cardinality(TypeURIs)
  BY <1>4 DEF Consistent, TypesCounted
<1>6. \A t \in TypeURIs : Owed(t, p[t])'
  <2>1. \A t \in TypeURIs : p[t] = 1
    BY <1>4, TypesKnown DEF TypeInv, AllTypes
  <2> QED
    BY <2>1, <1>0
<1>7. Pushes' \in Nat /\ Pushes' <= Pushes
  <2>1. /\ Coming("mesh")' \in Nat /\ Coming("mesh")' <= Coming("mesh")
        /\ Coming("cert")' \in Nat /\ Coming("cert")' <= Coming("cert")
    BY <1>1, <1>2, SMTT(30) DEF Coming, Sources
  <2>2. PICK l \in Nat : l = Len(PushOrder)
    BY <1>2
  <2>3. \A x, y \in Nat : x <= y => l * x <= l * y /\ l * x \in Nat /\ l * y \in Nat
    BY SMT
  <2>4. PICK x \in Nat : x = l * Coming("mesh")
    BY <1>2, <2>3, SMT
  <2>5. PICK y \in Nat : y = l * Coming("mesh")' /\ y <= x
    BY <1>2, <2>1, <2>3, <2>4
  <2>6. PICK z \in Nat : z = IF "SDS" \in TypeURIs THEN Coming("cert") ELSE 0
    BY <1>2
  <2>7. PICK w \in Nat : w = (IF "SDS" \in TypeURIs THEN Coming("cert")' ELSE 0) /\ w <= z
    BY <1>2, <2>1, <2>6, SMTT(30)
  <2>8. Pushes = x + z
    BY <2>2, <2>4, <2>6 DEF Pushes
  <2>9. Pushes' = y + w
    BY <1>1, <1>3, <2>2, <2>5, <2>7 DEF Pushes, TypeURIs
  <2> QED
    BY <2>5, <2>7, <2>8, <2>9, SMT
<1>8. Used' \in Nat /\ Used' <= Used
  <2>1. Used' = nonces + 0 + Pushes'
    BY <1>1 DEF Used
  <2>2. Used = nonces + Len(job.types) + Pushes
    BY DEF Used
  <2>3. \A n, l, x, y \in Nat : y <= x => n + 0 + y \in Nat /\ n + 0 + y <= n + l + x
    BY SMT
  <2> QED
    BY <1>2, <1>7, <2>1, <2>2, <2>3
<1>9. Budget' = Budget + Cardinality(TypeURIs)
  <2>1. PICK c \in Nat : c = Cardinality(TypeURIs)
    BY <1>2
  <2>2. PICK x \in Int : x = Len(PushOrder) * (gen["mesh"] - 1)
    BY <1>2, PushSums, SMT
  <2>3. PICK y \in Int : y = IF "SDS" \in TypeURIs THEN gen["cert"] - 1 ELSE 0
    BY <1>2, SMT
  <2>4. c * (1 + reconnects + 1) = c * (1 + reconnects) + c /\ c * (1 + reconnects) \in Int
    BY <1>2, PushSums, SMT
  <2>5. Budget = c * (1 + reconnects) + nameChanges + x + y
    BY <2>1, <2>2, <2>3 DEF Budget
  <2>6. 1 + (reconnects + 1) = 1 + reconnects + 1
    BY <1>2, SMT
  <2>7. Budget' = c * (1 + reconnects + 1) + nameChanges + x + y
    BY <1>1, <1>3, <2>1, <2>2, <2>3, <2>6 DEF Budget, TypeURIs
  <2>8. \A a, b \in Int : b = a + c => b + nameChanges + x + y = a + nameChanges + x + y + c
    BY <1>2, SMT
  <2>9. c * (1 + reconnects + 1) \in Int
    BY <2>4, SMT
  <2> QED
    BY <2>1, <2>4, <2>5, <2>7, <2>8, <2>9
<1>10. Used + Total(o) <= Budget /\ Total(o) \in Nat
  BY SMT DEF Accounted, Total, AllTypes
<1>11. Used' + Total(p) <= Budget'
  <2>1. \A u, v, n, c \in Nat : \A b \in Int : u + n <= b /\ v <= u => v + c <= b + c
    BY SMT
  <2> QED
    BY <1>2, <1>5, <1>8, <1>9, <1>10, <2>1
<1>12. Accounted(p)'
  BY <1>1, <1>6, <1>11 DEF Accounted, Total, TypeURIs
<1> QED
  BY <1>12

(* Every step keeps the account. *)
LEMMA CauseStep ==
  ASSUME TypeInv, TypeInv', CauseInv, [Next]_vars PROVE CauseInv'
<1>1. Consistent /\ Consistent' /\ TypeURIs' = TypeURIs
  BY ConsistentStep, SameScope DEF CauseInv
<1>2. PICK o \in [AllTypes -> Nat] : Accounted(o)
  BY DEF CauseInv
<1>3. ASSUME NEW s \in Sources, Change(s) \/ Publish(s) PROVE \E p \in [AllTypes -> Nat] : Accounted(p)'
  BY <1>1, <1>2, <1>3, ChangeAccounted
<1>4. ServerStep \/ GenerateFails => \E p \in [AllTypes -> Nat] : Accounted(p)'
  BY <1>1, <1>2, RequestAccounted, PushAccounted, GenerateAccounted, SendAccounted DEF ServerStep
<1>5. ASSUME NEW t \in TypeURIs, NEW names \in SUBSET Names,
             EnvoySubscribes(t, names) \/ EnvoyChangesNames(t, names)
      PROVE  \E p \in [AllTypes -> Nat] : Accounted(p)'
  BY <1>1, <1>2, <1>5, SubscribesAccounted, NamesAccounted
<1>6. EnvoyAcks \/ EnvoyNacks => \E p \in [AllTypes -> Nat] : Accounted(p)'
  BY <1>1, <1>2, AnswerAccounted
<1>7. ASSUME NEW k \in BOOLEAN, Reconnect(k) PROVE \E p \in [AllTypes -> Nat] : Accounted(p)'
  BY <1>1, <1>2, <1>7, ReconnectAccounted
<1>8. ASSUME UNCHANGED vars PROVE \E p \in [AllTypes -> Nat] : Accounted(p)'
  <2>1. UNCHANGED <<scope, gen, chan, unpublished, proxy, nonces, job, up, envoy, nameChanges, reconnects>>
    BY <1>8 DEF vars, serverVars, proxyVars, sourceVars
  <2>2. ASSUME NEW u \in TypeURIs PROVE Owed(u, o[u])'
    <3>1. Unsent(u)' = Unsent(u)
      BY <2>1, Dues DEF Answering
    <3>2. Owed(u, o[u])
      BY <1>2 DEF Accounted
    <3> QED
      BY <2>1, <3>1, <3>2, OwedKept
  <2>3. Used' = Used /\ Budget' = Budget
    BY <2>1 DEF Used, Budget, Pushes, Coming, PushOrder, TypeURIs
  <2>4. Used' + Budget <= Used + Budget'
    BY <1>1, <2>3, NumbersStep, SMTT(30) DEF NumbersOk
  <2> QED
    BY <1>1, <1>2, <2>2, <2>4, AccountSame
<1>9. \E p \in [AllTypes -> Nat] : Accounted(p)'
  BY <1>3, <1>4, <1>5, <1>6, <1>7, <1>8 DEF Next
<1> QED
  BY <1>1, <1>9 DEF CauseInv

(* At the start every type is owed its first response. *)
LEMMA CauseInit == Init /\ TypesCounted => CauseInv
<1> SUFFICES ASSUME Init, TypesCounted PROVE CauseInv
  OBVIOUS
<1>1. /\ scope \in Scopes /\ gen = [s \in Sources |-> 1] /\ chan = [s \in Sources |-> 0]
      /\ unpublished = {} /\ proxy = NewProxy /\ nonces = 0 /\ job = NoJob /\ up = <<>> /\ down = <<>>
      /\ nameChanges = 0 /\ reconnects = 0
  BY DEF Init
<1>2. /\ envoy.types = <<>>
      /\ \A t \in TypeURIs : envoy.names[t] = {} /\ envoy.nonce[t] = 0
  BY DEF Init
<1>3. \A t \in TypeURIs :
        NewProxy.nonce[t] = 0 /\ NewProxy.lastSent[t] = {} /\ NewProxy.subscribed[t] = {}
  BY DEF NewProxy
<1>4. job.types = <<>> /\ ~job.driven
  BY <1>1 DEF NoJob
<1>5. \A t \in TypeURIs : ~Subscribed(t)
  BY <1>2, SMT DEF Subscribed
<1>6. PICK o \in [AllTypes -> Nat] : \A t \in AllTypes : o[t] = IF t \in TypeURIs THEN 1 ELSE 0
  <2> DEFINE f == [t \in AllTypes |-> IF t \in TypeURIs THEN 1 ELSE 0]
  <2>1. f \in [AllTypes -> Nat] /\ \A t \in AllTypes : f[t] = IF t \in TypeURIs THEN 1 ELSE 0
    OBVIOUS
  <2> QED
    BY <2>1
<1>7. Total(o) = Cardinality(TypeURIs) /\ Cardinality(TypeURIs) \in Nat
  BY <1>6 DEF TypesCounted
<1>8. Consistent
  <2>1. RequestsOk /\ ResponsesOk /\ TypesOnce
    BY <1>1, <1>2, SMTT(30) DEF RequestsOk, ResponsesOk, TypesOnce
  <2>2. JobOk
    BY <1>4, SMT DEF JobOk
  <2>3. \A t \in TypeURIs : TypeOk(t)
    BY <1>1, <1>2, <1>3, SMTT(30) DEF TypeOk
  <2> QED
    BY <1>1, <2>1, <2>2, <2>3 DEF Consistent
<1>9. ASSUME NEW t \in TypeURIs PROVE Owed(t, o[t])
  <2>1. o[t] = 1
    BY <1>1, <1>6, TypesKnown DEF AllTypes
  <2>2. up \in Seq(Requests) /\ \A i \in Nat : ~(i # 0 /\ i <= Len(up))
    BY <1>1, SMT
  <2>3. PICK f \in [Nat -> Nat] : f[0] = 0 /\ Covers(f, up, 0, {}, {}, t)
    BY <2>2, CoversAnew
  <2>4. Unsent(t) = 0 /\ FirstDue(t) = 1
    BY <1>1, <1>3, <1>5 DEF Unsent, FirstDue
  <2>5. f[0] + Unsent(t) + FirstDue(t) <= o[t]
    BY <2>1, <2>3, <2>4, SMT
  <2>6. Covers(f, up, proxy.nonce[t], proxy.subscribed[t], envoy.names[t], t)
    BY <1>1, <1>2, <1>3, <2>3
  <2> QED
    BY <2>5, <2>6 DEF Owed
<1>10. Used = 0
  <2>1. Coming("mesh") = 0 /\ Coming("cert") = 0
    BY <1>1, SMT DEF Coming, Sources
  <2>2. Len(PushOrder) \in Nat
    BY <1>1, PushesAll, SMT
  <2>3. Pushes = 0
    BY <2>1, <2>2, SMT DEF Pushes
  <2> QED
    BY <1>1, <1>4, <2>3, SMT DEF Used
<1>11. Budget = Cardinality(TypeURIs)
  <2>1. gen["mesh"] - 1 = 0 /\ gen["cert"] - 1 = 0
    BY <1>1, SMT DEF Sources
  <2>2. Len(PushOrder) \in Nat
    BY <1>1, PushesAll, SMT
  <2>3. \A l, c \in Nat : c * (1 + 0) + 0 + l * 0 + 0 = c
    BY SMT
  <2> QED
    BY <1>1, <1>7, <2>1, <2>2, <2>3 DEF Budget
<1>12. Used + Total(o) <= Budget
  BY <1>7, <1>10, <1>11, SMT
<1>13. Accounted(o)
  BY <1>9, <1>12 DEF Accounted
<1> QED
  BY <1>8, <1>13 DEF CauseInv

(* The library's facts on finite sets. *)
FS == INSTANCE FiniteSetTheorems

(* At one response per type, the total is the number of types.               *)
LEMMA TypesAreCounted ==
  ASSUME scope \in Scopes PROVE TypesCounted
<1>SameSize. \A S : (FS!IsFiniteSet(S) <=> IsFiniteSet(S)) /\ FS!Cardinality(S) = Cardinality(S)
  <2>1. \A S : FS!IsFiniteSet(S) <=> IsFiniteSet(S)
    BY DEF FS!IsFiniteSet, IsFiniteSet
  <2>2. \A S : FS!Cardinality(S) = Cardinality(S)
    BY DEF FS!Cardinality, Cardinality
  <2> QED
    BY <2>1, <2>2
<1>OneMore. ASSUME NEW S, NEW T, IsFiniteSet(T), NEW t, t \notin T
            PROVE  /\ IsFiniteSet(T \cup ({t} \cap S))
                   /\ Cardinality(T \cup ({t} \cap S)) = Cardinality(T) + IF t \in S THEN 1 ELSE 0
  <2> USE <1>OneMore
  <2>1. CASE t \in S
    <3>1. T \cup ({t} \cap S) = T \cup {t}
      BY <2>1
    <3> QED
      BY <2>1, <3>1, FS!FS_AddElement, <1>SameSize
  <2>2. CASE t \notin S
    <3>1. T \cup ({t} \cap S) = T
      BY <2>2
    <3>2. Cardinality(T) \in Nat
      BY FS!FS_CardinalityType, <1>SameSize
    <3>3. Cardinality(T) + (IF t \in S THEN 1 ELSE 0) = Cardinality(T)
      BY <2>2, <3>2, SMT
    <3> QED
      BY <3>1, <3>3
  <2> QED
    BY <2>1, <2>2
<1> DEFINE S == TypeURIs
           Z == {}
           A == Z \cup ({"CDS"} \cap S)
           B == A \cup ({"EDS"} \cap S)
           C == B \cup ({"LDS"} \cap S)
           D == C \cup ({"RDS"} \cap S)
           E == D \cup ({"SDS"} \cap S)
<1>1. E = S
  BY TypesKnown
<1>2. IsFiniteSet(A) /\ Cardinality(A) = IF "CDS" \in S THEN 1 ELSE 0
  <2>1. IsFiniteSet(Z) /\ Cardinality(Z) = 0 /\ "CDS" \notin Z
    BY FS!FS_EmptySet, <1>SameSize
  <2> HIDE DEF S, Z
  <2>2. IsFiniteSet(A) /\ Cardinality(A) = Cardinality(Z) + IF "CDS" \in S THEN 1 ELSE 0
    BY <2>1, <1>OneMore, SMT
  <2> QED
    BY <2>1, <2>2, SMT
<1>3. "EDS" \notin A /\ "LDS" \notin B /\ "RDS" \notin C /\ "SDS" \notin D
  OBVIOUS
<1> HIDE DEF S, A
<1>4. IsFiniteSet(B) /\ Cardinality(B) = Cardinality(A) + IF "EDS" \in S THEN 1 ELSE 0
  BY <1>2, <1>3, <1>OneMore
<1> HIDE DEF B
<1>5. IsFiniteSet(C) /\ Cardinality(C) = Cardinality(B) + IF "LDS" \in S THEN 1 ELSE 0
  BY <1>3, <1>4, <1>OneMore
<1> HIDE DEF C
<1>6. IsFiniteSet(D) /\ Cardinality(D) = Cardinality(C) + IF "RDS" \in S THEN 1 ELSE 0
  BY <1>3, <1>5, <1>OneMore
<1> HIDE DEF D
<1>7. IsFiniteSet(E) /\ Cardinality(E) = Cardinality(D) + IF "SDS" \in S THEN 1 ELSE 0
  BY <1>3, <1>6, <1>OneMore, SMTT(30)
<1> HIDE DEF E
<1>8. ASSUME NEW o \in [AllTypes -> Nat], \A t \in AllTypes : o[t] = IF t \in S THEN 1 ELSE 0
      PROVE  Total(o) = Cardinality(E)
  <2>1. /\ o["CDS"] = IF "CDS" \in S THEN 1 ELSE 0
        /\ o["EDS"] = IF "EDS" \in S THEN 1 ELSE 0
        /\ o["LDS"] = IF "LDS" \in S THEN 1 ELSE 0
        /\ o["RDS"] = IF "RDS" \in S THEN 1 ELSE 0
        /\ o["SDS"] = IF "SDS" \in S THEN 1 ELSE 0
    BY <1>8 DEF AllTypes
  <2> QED
    BY <1>2, <1>4, <1>5, <1>6, <1>7, <2>1 DEF Total
<1>9. Cardinality(E) \in Nat
  BY <1>7, FS!FS_CardinalityType, <1>SameSize
<1> QED
  BY <1>1, <1>8, <1>9 DEF S, TypesCounted

(* The server never sends more responses than there are causes for them: a   *)
(* first response of every type on each stream, one for every change of the  *)
(* names asked for, the types of a push for every change of the mesh and one *)
(* for every new certificate.                                                *)
THEOREM EveryResponseIsCaused == Spec => []ResponsesAreCaused
<1>1. Init => CauseInv
  BY CauseInit, TypesAreCounted DEF Init
<1>2. TypeInv /\ TypeInv' /\ CauseInv /\ [Next]_vars => CauseInv'
  BY CauseStep
<1>3. TypeInv /\ CauseInv => ResponsesAreCaused
  <2> SUFFICES ASSUME TypeInv, CauseInv PROVE ResponsesAreCaused
    OBVIOUS
  <2>1. PICK o \in [AllTypes -> Nat] : Used + Total(o) <= Budget
    BY DEF CauseInv, Accounted
  <2>2. Total(o) \in Nat
    BY SMT DEF Total, AllTypes
  <2>3. nonces \in Nat /\ Len(job.types) \in Nat /\ Pushes \in Nat /\ Used \in Nat /\ Budget \in Int
    BY Numbers DEF NumbersOk, CauseInv, TypeInv
  <2>4. \A n, l, p, t \in Nat : \A b \in Int : n + l + p + t <= b => n <= b
    BY SMT
  <2>5. nonces <= Budget
    BY <2>1, <2>2, <2>3, <2>4 DEF Used
  <2> QED
    BY <2>5 DEF ResponsesAreCaused, Budget
<1> QED
  BY <1>1, <1>2, <1>3, TypeInvariant, PTL DEF Spec
=============================================================================
