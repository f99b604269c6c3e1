----------------------------- MODULE ADSStream -----------------------------
(***************************************************************************)
(* One Envoy proxy on its aggregated discovery stream                      *)
(* (pkg/sidecar/providers/envoy/ads/stream.go and response.go), with the   *)
(* proxy as environment: it subscribes to resource types, changes the      *)
(* resources it asks for, accepts (ACK) or rejects (NACK) responses and    *)
(* reconnects.                                                             *)
(*                                                                         *)
(* The contents of a resource is the generation of the mesh or of the      *)
(* certificate it was made from.  Versions count responses of a type and   *)
(* nonces, clock readings in the code, count responses of all types; 0 is  *)
(* the empty string.                                                       *)
(***************************************************************************)
EXTENDS Integers, Sequences, FiniteSets

CONSTANTS
  Names,            \* resource names the proxy may ask for
  Existing,         \* names the catalog has resources for
  Scopes,           \* bound: of one behaviour, the resource types in use and how often
                    \*   the proxy rejects a response and connects again and a
                    \*   resource cannot be made, [types, nacks, reconnects, failures]
  MaxGeneration,    \* bounds: changes of the mesh, of the certificate
  MaxNameChanges

ASSUME ADSConstants ==
  /\ Existing \subseteq Names
  /\ \A c \in Scopes :
       /\ c.types \subseteq {"CDS", "EDS", "LDS", "RDS", "SDS"}
       /\ c.nacks \in Nat /\ c.reconnects \in Nat /\ c.failures \in Nat
  /\ MaxGeneration \in Nat /\ MaxNameChanges \in Nat

VARIABLES
  scope,       \* one of Scopes
  gen,         \* source -> its current generation
  unpublished, \* sources whose change the broker has still to publish
  chan,        \* source -> messages in the stream's subscription channel
  proxy,       \* envoy.Proxy: what the server remembers of the stream
  nonces,      \* nonces used so far
  job,         \* the job the stream waits for
  failed,      \* types whose resources could not be generated last time
  up, down,    \* requests to and responses from the server
  envoy,       \* the proxy's side
  rejected,    \* types whose last response the proxy rejected
  nameChanges, nacks, reconnects, failures   \* bounded event counts

serverVars == <<proxy, nonces, job, failed>>
sourceVars == <<gen, unpublished, chan>>
proxyVars == <<envoy, rejected, nameChanges, nacks, reconnects>>
vars == <<scope, sourceVars, serverVars, up, down, proxyVars, failures>>

TypeURIs == scope.types
Sources == {"mesh", "cert"}
Source(t) == IF t = "SDS" THEN "cert" ELSE "mesh"

IsWildcardTypeURI(t) == t \in {"CDS", "LDS"}
All == "*"     \* what the proxy wants of a wildcard type

NoJob == [types |-> <<>>, names |-> {}, driven |-> FALSE, made |-> -1]

NewProxy ==
  [sent |-> [t \in TypeURIs |-> 0], applied |-> [t \in TypeURIs |-> 0],
   nonce |-> [t \in TypeURIs |-> 0], lastSent |-> [t \in TypeURIs |-> {}],
   subscribed |-> [t \in TypeURIs |-> {}]]

Request(e, t, nonce, err) ==
  [type |-> t, version |-> e.version[t], nonce |-> nonce, names |-> e.names[t],
   err |-> err]
-----------------------------------------------------------------------------
Init ==
  /\ scope \in Scopes
  /\ gen = [s \in Sources |-> 1] /\ unpublished = {} /\ chan = [s \in Sources |-> 0]
  /\ proxy = NewProxy /\ nonces = 0 /\ job = NoJob /\ failed = {}
  /\ up = <<>> /\ down = <<>>
  /\ envoy = [types |-> <<>>, names |-> [t \in TypeURIs |-> {}],
              version |-> [t \in TypeURIs |-> 0], nonce |-> [t \in TypeURIs |-> 0],
              has |-> [t \in TypeURIs |-> [n \in Names \cup {All} |-> 0]]]
  /\ rejected = {}
  /\ nameChanges = 0 /\ nacks = 0 /\ reconnects = 0 /\ failures = 0

(* The mesh or the certificate changes; the broker publishes it some time    *)
(* later, one message for all changes it has batched.                        *)
Change(s) ==
  /\ gen[s] < MaxGeneration
  /\ gen' = [gen EXCEPT ![s] = @ + 1]
  /\ unpublished' = unpublished \cup {s}
  /\ UNCHANGED <<scope, chan, serverVars, up, down, proxyVars, failures>>

Publish(s) ==
  /\ s \in unpublished
  /\ unpublished' = unpublished \ {s}
  /\ chan' = [chan EXCEPT ![s] = @ + 1]
  /\ UNCHANGED <<scope, gen, serverVars, up, down, proxyVars, failures>>
-----------------------------------------------------------------------------
(* Is the request an answer to an earlier response? *)
StaleNonce(r) == r.nonce # proxy.nonce[r.type]

(* A proxy that comes from another server tells its version; this one goes   *)
(* on from there.                                                            *)
AdoptVersion(r) == [proxy EXCEPT !.sent[r.type] = r.version, !.applied[r.type] = r.version]

(* The version of an ACK is the one applied. *)
Acked(r) == [proxy EXCEPT !.applied[r.type] = r.version]

Subscribe(p, r) == [p EXCEPT !.subscribed[r.type] = r.names]

(* respondToRequest: what it leaves in the proxy... *)
AfterRequest(r) ==
  IF r.err THEN proxy
  ELSE IF r.nonce = 0 THEN Subscribe(proxy, r)
  ELSE IF proxy.nonce[r.type] = 0 THEN Subscribe(AdoptVersion(r), r)
  ELSE IF StaleNonce(r) THEN proxy
  ELSE IF IsWildcardTypeURI(r.type) THEN Acked(r) ELSE Subscribe(Acked(r), r)

(* ...and its decision.  The resources asked for now are not the ones sent:  *)
(* mutant, never looked at.                                                  *)
SameNames(r) == FALSE
NewNames(r) == r.names # proxy.lastSent[r.type]

RespondToRequest(r) ==
  /\ ~r.err
  /\ \/ r.nonce = 0
     \/ proxy.nonce[r.type] = 0
     \/ ~StaleNonce(r) /\ ~IsWildcardTypeURI(r.type) /\ NewNames(r)

HandleRequest ==
  LET r == Head(up)
  IN /\ job = NoJob
     /\ up # <<>>
     /\ up' = Tail(up)
     /\ proxy' = AfterRequest(r)
     /\ job' = IF RespondToRequest(r)
               THEN [NoJob EXCEPT !.types = <<r.type>>, !.names = r.names]
               ELSE NoJob
     /\ UNCHANGED <<scope, sourceVars, nonces, failed, down, proxyVars, failures>>

(* shouldPushUpdate: one of the wildcard types has been answered. *)
ShouldPushUpdate ==
  \E t \in TypeURIs : IsWildcardTypeURI(t) /\ proxy.nonce[t] # 0

PushOrder ==
  LET used(t) == IF t \in TypeURIs THEN <<t>> ELSE <<>>
  IN used("CDS") \o used("EDS") \o used("LDS") \o used("RDS")

HandleProxyUpdate ==
  /\ job = NoJob
  /\ chan["mesh"] > 0
  /\ chan' = [chan EXCEPT !["mesh"] = @ - 1]
  /\ job' = IF ShouldPushUpdate THEN [NoJob EXCEPT !.types = PushOrder, !.driven = TRUE]
            ELSE NoJob
  /\ UNCHANGED <<scope, gen, unpublished, proxy, nonces, failed, up, down, proxyVars, failures>>

(* The rotated certificate is this proxy's; others are ignored. *)
HandleCertRotation ==
  /\ job = NoJob
  /\ chan["cert"] > 0
  /\ chan' = [chan EXCEPT !["cert"] = @ - 1]
  /\ job' = IF "SDS" \in TypeURIs THEN [NoJob EXCEPT !.types = <<"SDS">>, !.driven = TRUE]
            ELSE NoJob
  /\ UNCHANGED <<scope, gen, unpublished, proxy, nonces, failed, up, down, proxyVars, failures>>
-----------------------------------------------------------------------------
(* The names of the resources a vertical makes for the names asked for.      *)
(* Those the catalog has nothing for get empty resources.  Mutant: they do   *)
(* not.                                                                      *)
ResourcesThatExist(t, names) ==
  IF IsWildcardTypeURI(t) THEN {All} ELSE names \cap Existing
Resources(t, names) ==
  CASE IsWildcardTypeURI(t) -> {All}
    [] t = "EDS" -> IF names = {} THEN Existing ELSE names
    [] t = "RDS" -> Existing \cup names
    [] t = "SDS" -> names

(* sendResponse: the vertical reads the mesh or the certificate... *)
GenerateResources ==
  LET t == Head(job.types)
  IN /\ job.types # <<>>
     /\ job.made = -1
     /\ job' = [job EXCEPT !.made = gen[Source(t)],
                           !.names = IF job.driven THEN proxy.subscribed[t] ELSE @]
     /\ UNCHANGED <<scope, sourceVars, proxy, nonces, failed, up, down, proxyVars, failures>>

(* The next type is the job's next one, or the job is over and the stream    *)
(* goes on.  Mutant: the job does not close its done channel.                *)
NextTypeNotDone ==
  IF Len(job.types) = 1 THEN [NoJob EXCEPT !.driven = TRUE]
  ELSE [job EXCEPT !.types = Tail(@), !.made = -1]
NextType ==
  IF Len(job.types) = 1 THEN NoJob
  ELSE [job EXCEPT !.types = Tail(@), !.made = -1]

GenerateFails ==
  /\ job.types # <<>>
  /\ job.made = -1
  /\ failures < scope.failures
  /\ failures' = failures + 1
  /\ failed' = failed \cup {Head(job.types)}
  /\ job' = NextType
  /\ UNCHANGED <<scope, sourceVars, proxy, nonces, up, down, proxyVars>>

(* What counts as sent: resources that were subscribed to, none of a         *)
(* wildcard type.                                                            *)
TrackSubscribed(t, made) == made \cap proxy.subscribed[t]

(* SendDiscoveryResponse: a new version and nonce, the response, and the     *)
(* record of what was sent.                                                  *)
SendDiscoveryResponse ==
  LET t == Head(job.types)
      made == Resources(t, job.names)
  IN /\ job.made # -1
     /\ nonces' = nonces + 1
     /\ proxy' = [proxy EXCEPT !.sent[t] = @ + 1, !.nonce[t] = nonces',
                               !.lastSent[t] = TrackSubscribed(t, made)]
     /\ down' = Append(down, [type |-> t, version |-> proxy'.sent[t], nonce |-> nonces',
                              names |-> made, gen |-> job.made])
     /\ failed' = failed \ {t}
     /\ job' = NextType
     /\ UNCHANGED <<scope, sourceVars, up, proxyVars, failures>>
-----------------------------------------------------------------------------
Subscribed(t) == \E i \in DOMAIN envoy.types : envoy.types[i] = t

(* The proxy starts to ask for a type: listeners and clusters first, the     *)
(* others once it has some.                                                  *)
EnvoySubscribes(t, names) ==
  /\ ~Subscribed(t)
  /\ IF IsWildcardTypeURI(t) THEN names = {}
     ELSE /\ names # {}
          /\ \E w \in TypeURIs : IsWildcardTypeURI(w) /\ envoy.has[w][All] # 0
  /\ envoy' = [envoy EXCEPT !.types = Append(@, t), !.names[t] = names]
  /\ up' = Append(up, Request(envoy', t, 0, FALSE))
  /\ UNCHANGED <<scope, sourceVars, serverVars, down, rejected, nameChanges, nacks,
                 reconnects, failures>>

(* It asks for other resources of a type. *)
EnvoyChangesNames(t, names) ==
  /\ Subscribed(t) /\ ~IsWildcardTypeURI(t)
  /\ names \notin {{}, envoy.names[t]}
  /\ nameChanges < MaxNameChanges
  /\ nameChanges' = nameChanges + 1
  /\ envoy' = [envoy EXCEPT !.names[t] = names]
  /\ up' = Append(up, Request(envoy', t, envoy.nonce[t], FALSE))
  /\ UNCHANGED <<scope, sourceVars, serverVars, down, rejected, nacks, reconnects, failures>>

(* It accepts a response, or ignores one of a type it has not asked for. *)
EnvoyAcks ==
  LET r == Head(down) t == r.type
  IN /\ down # <<>>
     /\ down' = Tail(down)
     /\ IF Subscribed(t)
        THEN /\ envoy' = [envoy EXCEPT
                  !.version[t] = r.version, !.nonce[t] = r.nonce,
                  !.has[t] = [n \in Names \cup {All} |-> IF n \in r.names THEN r.gen ELSE @[n]]]
             /\ up' = Append(up, Request(envoy', t, r.nonce, FALSE))
             /\ rejected' = rejected \ {t}
        ELSE UNCHANGED <<envoy, up, rejected>>
     /\ UNCHANGED <<scope, sourceVars, serverVars, nameChanges, nacks, reconnects, failures>>

EnvoyNacks ==
  LET r == Head(down) t == r.type
  IN /\ down # <<>>
     /\ Subscribed(t)
     /\ nacks < scope.nacks
     /\ nacks' = nacks + 1
     /\ down' = Tail(down)
     /\ envoy' = [envoy EXCEPT !.nonce[t] = r.nonce]
     /\ up' = Append(up, Request(envoy', t, r.nonce, TRUE))
     /\ rejected' = rejected \cup {t}
     /\ UNCHANGED <<scope, sourceVars, serverVars, nameChanges, reconnects, failures>>

(* The connection breaks.  The proxy opens another stream, the server makes  *)
(* a new Proxy and subscribes again.  The proxy asks again for every type,   *)
(* with or without the nonces of the old stream.                             *)
Reconnect(keepsNonces) ==
  LET nonce == IF keepsNonces THEN envoy.nonce ELSE [t \in TypeURIs |-> 0]
      ask(t) == Request(envoy, t, nonce[t], FALSE)
  IN /\ reconnects < scope.reconnects
     /\ reconnects' = reconnects + 1
     /\ proxy' = NewProxy /\ job' = NoJob /\ failed' = {}
     /\ chan' = [s \in Sources |-> 0]
     /\ down' = <<>>
     /\ up' = [i \in DOMAIN envoy.types |-> ask(envoy.types[i])]
     /\ envoy' = [envoy EXCEPT !.nonce = nonce]
     /\ rejected' = {}
     /\ UNCHANGED <<scope, gen, unpublished, nonces, nameChanges, nacks, failures>>

ServerStep ==
  \/ HandleRequest \/ HandleProxyUpdate \/ HandleCertRotation
  \/ GenerateResources \/ SendDiscoveryResponse

Next ==
  \/ \E s \in Sources : Change(s) \/ Publish(s)
  \/ ServerStep \/ GenerateFails
  \/ \E t \in TypeURIs, names \in SUBSET Names :
       EnvoySubscribes(t, names) \/ EnvoyChangesNames(t, names)
  \/ EnvoyAcks \/ EnvoyNacks
  \/ \E k \in BOOLEAN : Reconnect(k)

Spec == Init /\ [][Next]_vars

(* The server serves its stream, the broker publishes and the proxy reads. *)
FairSpec ==
  /\ Spec
  /\ WF_vars(ServerStep) /\ WF_vars(EnvoyAcks)
  /\ \A s \in Sources : WF_vars(Publish(s))
-----------------------------------------------------------------------------
(* Nothing is under way between the broker, the server and the proxy. *)
Quiet ==
  /\ unpublished = {} /\ \A s \in Sources : chan[s] = 0
  /\ job = NoJob /\ up = <<>> /\ down = <<>>

Wanted(t) == IF IsWildcardTypeURI(t) THEN {All} ELSE envoy.names[t]

(* When nothing is under way, the proxy has the current contents of every    *)
(* resource it wants, and server and proxy agree on what it subscribes to    *)
(* and on the version it runs, whatever updates, ACKs, requests for other    *)
(* resources and reconnections crossed each other, unless the resources      *)
(* could not be made or the proxy rejected them (respondToRequest,           *)
(* sendResponse).                                                            *)
QuietIsCurrent ==
  Quiet => \A t \in TypeURIs \ (failed \cup rejected) :
             Subscribed(t) =>
             /\ \A n \in Wanted(t) : envoy.has[t][n] = gen[Source(t)]
             /\ proxy.subscribed[t] = envoy.names[t]
             /\ proxy.applied[t] = envoy.version[t]

(* Responses and ACKs do not go round in circles: once mesh, certificate and *)
(* proxy stop changing, the stream falls silent.                             *)
StreamFallsSilent == []<>Quiet

(* Every response has a cause of its own: the first request of a type on a   *)
(* stream, a request for other names, or a published change.  A response     *)
(* that does not satisfy its request is not sent again for every ACK         *)
(* (respondToRequest and the empty resources of the generators).             *)
ResponsesAreCaused ==
  nonces <= Cardinality(TypeURIs) * (1 + reconnects) + nameChanges
            + Len(PushOrder) * (gen["mesh"] - 1)
            + IF "SDS" \in TypeURIs THEN gen["cert"] - 1 ELSE 0
=============================================================================
