-------------------------- MODULE CertManagerProofs --------------------------
(***************************************************************************)
(* What holds of the certificate manager for any number of keys, clients,  *)
(* issuers and events.                                                     *)
(***************************************************************************)
EXTENDS CertManager, TLAPS

(* Nobody calls before NewManager returns, and a call past the lock in       *)
(* issueCertificate holds two issuers.                                       *)
CallsAreReady ==
  /\ \A k \in Keys : flight[k].pc # "none" => manager = "ready"
  /\ \A k \in Keys : flight[k].pc = "sign" =>
       flight[k].signing \in Issuers /\ flight[k].validating \in Issuers

TypeInv == TypeOK /\ CallsAreReady

(* A call in flight stays one when its fields are assigned. *)
LEMMA FlightReads ==
  ASSUME NEW f \in Flights, NEW s \in Issuers, NEW v \in Issuers
  PROVE  [f EXCEPT !.pc = "sign", !.signing = s, !.validating = v] \in Flights
<1>1. \A g \in Flights : [g EXCEPT !.pc = "sign"] \in Flights BY DEF Flights
<1>2. \A g \in Flights : [g EXCEPT !.signing = s] \in Flights BY DEF Flights
<1>3. \A g \in Flights : [g EXCEPT !.validating = v] \in Flights BY DEF Flights
<1>4. [f EXCEPT !.pc = "sign", !.signing = s, !.validating = v] =
        [[[f EXCEPT !.pc = "sign"] EXCEPT !.signing = s] EXCEPT !.validating = v]
  OBVIOUS
<1> QED BY <1>1, <1>2, <1>3, <1>4

(* A call that stores its certificate is a call. *)
LEMMA FlightStores ==
  ASSUME NEW f \in Flights, NEW pc \in {"pub", "return"}, NEW c \in Certs
  PROVE  [f EXCEPT !.pc = pc, !.new = c] \in Flights
<1>1. \A g \in Flights : [g EXCEPT !.pc = pc] \in Flights BY DEF Flights
<1>2. \A g \in Flights : [g EXCEPT !.new = c] \in Flights BY DEF Flights
<1>3. [f EXCEPT !.pc = pc, !.new = c] = [[f EXCEPT !.pc = pc] EXCEPT !.new = c]
  OBVIOUS
<1> QED BY <1>1, <1>2, <1>3

(* A call that goes on without one is a call. *)
LEMMA FlightMoves ==
  ASSUME NEW f \in Flights, NEW pc \in {"read", "return"}
  PROVE  [f EXCEPT !.pc = pc] \in Flights
BY DEF Flights

(* What SignAndStore stores is a certificate. *)
LEMMA NewCertType ==
  ASSUME TypeInv, NEW k \in Keys, flight[k].pc = "sign"
  PROVE  NewCert(flight[k]) \in Certs
<1>1. issued + 1 \in Nat /\ now + Validity \in Nat
  BY CertConstants DEF TypeInv, TypeOK
<1>2. flight[k].signing \in Issuers /\ flight[k].validating \in Issuers
  BY DEF TypeInv, CallsAreReady
<1> QED BY <1>1, <1>2 DEF NewCert, Certs

(* group.Do and its return keep the types of the calls. *)
LEMMA DoType ==
  ASSUME TypeInv, NEW p \in Callers, NEW k \in Keys, NEW op \in Ops, Do(p, k, op)
  PROVE  /\ flight' \in [Keys -> Flights]
         /\ caller' \in [Callers -> [key : Keys \cup {"none"}, op : Ops]]
         /\ \A j \in Keys : flight'[j] = flight[j] \/ flight'[j].pc = "load"
         /\ manager = "ready"
<1>1. Flight(op, "load") \in Flights /\ Flight(op, "load").pc = "load"
  BY DEF Flight, Flights, Ops
<1> QED BY <1>1 DEF TypeInv, TypeOK, Do

(* A call that returns ends, and answers all its callers. *)
LEMMA ReturnType ==
  ASSUME TypeInv, NEW k \in Keys, NEW err \in {"nil", "error"},
         NEW cert \in Certs \cup {NoCert}, Return(k, err, cert)
  PROVE  /\ flight' \in [Keys -> Flights]
         /\ caller' \in [Callers -> [key : Keys \cup {"none"}, op : Ops]]
         /\ returned' \in [Callers -> [key : Keys \cup {"none"}, op : Ops,
                                       err : {"nil", "error"}, cert : Certs \cup {NoCert}]]
         /\ \A j \in Keys : flight'[j] = flight[j] \/ flight'[j].pc = "none"
<1>1. NoFlight \in Flights /\ NoFlight.pc = "none"
  BY DEF NoFlight, Flight, Flights, Ops
<1>2. Idle \in [key : Keys \cup {"none"}, op : Ops]
  BY DEF Idle, Ops
<1> QED BY <1>1, <1>2 DEF TypeInv, TypeOK, Return

(* Type correctness: with CallsAreReady, which has issuers for every call. *)
LEMMA TypeInvariant == Spec => []TypeInv
<1>1. Init => TypeInv
  <2> SUFFICES ASSUME Init PROVE TypeInv OBVIOUS
  <2>1. NoFlight \in Flights /\ NoFlight.pc = "none"
    BY DEF NoFlight, Flight, Flights, Ops
  <2>2. Idle \in [key : Keys \cup {"none"}, op : Ops]
    BY DEF Idle, Ops
  <2>3. NoResult \in [key : Keys \cup {"none"}, op : Ops, err : {"nil", "error"},
                      cert : Certs \cup {NoCert}]
    BY DEF NoResult, Ops
  <2> QED BY <2>1, <2>2, <2>3, CertConstants DEF Init, TypeInv, TypeOK, CallsAreReady
<1>2. TypeInv /\ [Next]_vars => TypeInv'
  <2> SUFFICES ASSUME TypeInv, [Next]_vars PROVE TypeInv' OBVIOUS
  <2>1. ASSUME NEW id \in Issuers, NEW state \in MRCStates, HandleMRCEvent(id, state)
        PROVE  TypeInv'
    BY <2>1, CertConstants
    DEF HandleMRCEvent, Initialized, TypeInv, TypeOK, CallsAreReady, loopVars
  <2>2. CASE StartTimesOut
    BY <2>2 DEF StartTimesOut, TypeInv, TypeOK, CallsAreReady, loopVars
  <2>3. ASSUME NEW p \in Clients, NEW k \in Keys, NEW op \in ClientOps, Call(p, k, op)
        PROVE  TypeInv'
    <3>1. p \in Callers /\ op \in Ops BY CertConstants DEF Callers, Ops
    <3> QED BY SMTT(30), <2>3, <3>1, DoType
        DEF Call, TypeInv, TypeOK, CallsAreReady, loopVars, issuerVars
  <2>4. ASSUME NEW k \in Keys, LoadCache(k) PROVE TypeInv'
    <3>1. CASE flight[k].op = "get"
      BY <2>4, <3>1, ReturnType
      DEF LoadCache, TypeInv, TypeOK, CallsAreReady, loopVars, issuerVars
    <3>2. CASE flight[k].op # "get"
      <4>1. flight' \in [Keys -> Flights]
        BY <2>4, <3>2 DEF LoadCache, TypeInv, TypeOK, Flights
      <4>2. /\ \A j \in Keys \ {k} : flight'[j] = flight[j]
            /\ flight'[k].old = cache[k]
            /\ flight'[k].pc = IF cache[k] = NoCert THEN "read" ELSE "check"
        BY <2>4, <3>2 DEF LoadCache, TypeInv, TypeOK, Flights
      <4> QED BY SMTT(30), <2>4, <3>2, <4>1, <4>2
          DEF LoadCache, TypeInv, TypeOK, CallsAreReady, loopVars, issuerVars
    <3> QED BY <3>1, <3>2
  <2>5. ASSUME NEW k \in Keys, CheckRotate(k) PROVE TypeInv'
    <3>1. CASE flight' = Step(k, "read") /\ UNCHANGED <<caller, returned>>
      <4>1. flight[k] \in Flights BY DEF TypeInv, TypeOK
      <4>2. [flight[k] EXCEPT !.pc = "read"] \in Flights BY <4>1, FlightMoves
      <4>3. flight' = [flight EXCEPT ![k] = [flight[k] EXCEPT !.pc = "read"]]
        BY <3>1 DEF Step, TypeInv, TypeOK
      <4>4. flight' \in [Keys -> Flights] BY <4>2, <4>3 DEF TypeInv, TypeOK
      <4>5. /\ \A j \in Keys \ {k} : flight'[j] = flight[j]
            /\ flight'[k].pc = "read"
        BY <4>1, <4>3 DEF TypeInv, TypeOK, Flights
      <4> QED BY <2>5, <3>1, <4>4, <4>5
          DEF CheckRotate, TypeInv, TypeOK, CallsAreReady, loopVars, issuerVars
    <3>2. CASE Return(k, "nil", flight[k].old)
      <4>1. flight[k].old \in Certs \cup {NoCert}
        BY DEF TypeInv, TypeOK, Flights
      <4> QED BY <2>5, <3>2, <4>1, ReturnType
          DEF CheckRotate, TypeInv, TypeOK, CallsAreReady, loopVars, issuerVars
    <3> QED BY <2>5, <3>1, <3>2 DEF CheckRotate
  <2>6. ASSUME NEW k \in Keys, ReadIssuers(k) PROVE TypeInv'
    <3>1. signingIssuer \in Issuers /\ validatingIssuer \in Issuers
      BY <2>6 DEF ReadIssuers, TypeInv, TypeOK, CallsAreReady
    <3>2. flight' \in [Keys -> Flights]
      <4> DEFINE f == [flight[k] EXCEPT !.pc = "sign", !.signing = signingIssuer,
                                        !.validating = validatingIssuer]
      <4>1. f \in Flights BY <3>1, FlightReads DEF TypeInv, TypeOK
      <4>2. flight' = [flight EXCEPT ![k] = f]
        BY <2>6 DEF ReadIssuers, TypeInv, TypeOK
      <4> QED BY <4>1, <4>2 DEF TypeInv, TypeOK
    <3>3. /\ \A j \in Keys \ {k} : flight'[j] = flight[j]
          /\ flight'[k].signing = signingIssuer /\ flight'[k].validating = validatingIssuer
          /\ flight'[k].pc = "sign"
      BY <2>6 DEF ReadIssuers, TypeInv, TypeOK, Flights
    <3> QED BY <2>6, <3>1, <3>2, <3>3
        DEF ReadIssuers, TypeInv, TypeOK, CallsAreReady, loopVars, issuerVars
  <2>7. ASSUME NEW k \in Keys, SignAndStore(k) PROVE TypeInv'
    <3>1. NewCert(flight[k]) \in Certs
      BY <2>7, NewCertType DEF SignAndStore
    <3>2. flight' \in [Keys -> Flights]
      <4> DEFINE f == [flight[k] EXCEPT
                         !.pc = IF Announces(flight[k]) THEN "pub" ELSE "return",
                         !.new = NewCert(flight[k])]
      <4>1. f \in Flights BY <3>1, FlightStores DEF TypeInv, TypeOK
      <4>2. flight' = [flight EXCEPT ![k] = f]
        BY <2>7 DEF SignAndStore, TypeInv, TypeOK
      <4> QED BY <4>1, <4>2 DEF TypeInv, TypeOK
    <3>3. /\ \A j \in Keys \ {k} : flight'[j] = flight[j]
          /\ flight'[k].old = flight[k].old
          /\ flight'[k].pc = IF flight[k].old # NoCert THEN "pub" ELSE "return"
      BY <2>7 DEF SignAndStore, Announces, TypeInv, TypeOK, Flights
    <3> QED BY <2>7, <3>1, <3>2, <3>3
        DEF SignAndStore, TypeInv, TypeOK, CallsAreReady, loopVars, issuerVars
  <2>8. ASSUME NEW k \in Keys, PublishRotation(k) \/ ReturnCertificate(k) PROVE TypeInv'
    <3>1. CASE PublishRotation(k)
      <4>1. flight' \in [Keys -> Flights]
        <5>1. flight[k] \in Flights BY DEF TypeInv, TypeOK
        <5>2. [flight[k] EXCEPT !.pc = "return"] \in Flights BY <5>1, FlightMoves
        <5>3. flight' = [flight EXCEPT ![k] = [flight[k] EXCEPT !.pc = "return"]]
          BY <3>1 DEF PublishRotation, Step, TypeInv, TypeOK
        <5> QED BY <5>2, <5>3 DEF TypeInv, TypeOK
      <4>2. /\ \A j \in Keys \ {k} : flight'[j] = flight[j]
            /\ flight'[k].pc = "return"
        BY <3>1 DEF PublishRotation, Step, TypeInv, TypeOK, Flights
      <4>3. flight[k].old \in Certs
        BY <3>1 DEF PublishRotation, TypeInv, TypeOK, Flights
      <4> QED BY <3>1, <4>1, <4>2, <4>3
          DEF PublishRotation, TypeInv, TypeOK, CallsAreReady, loopVars, issuerVars
    <3>2. CASE ReturnCertificate(k)
      <4>1. flight[k].new \in Certs \cup {NoCert}
        BY DEF TypeInv, TypeOK, Flights
      <4> QED BY <3>2, <4>1, ReturnType
          DEF ReturnCertificate, TypeInv, TypeOK, CallsAreReady, loopVars, issuerVars
    <3> QED BY <2>8, <3>1, <3>2
  <2>9. ASSUME NEW k \in Keys, SignFails(k) PROVE TypeInv'
    BY SMTT(30), <2>9, ReturnType
    DEF SignFails, TypeInv, TypeOK, CallsAreReady, loopVars, issuerVars
  <2>10. ASSUME NEW k \in Keys, ReleaseCertificate(k) PROVE TypeInv'
    BY <2>10
    DEF ReleaseCertificate, TypeInv, TypeOK, CallsAreReady, loopVars, issuerVars
  <2>11. ASSUME NEW k \in Keys, RotateNext(k) PROVE TypeInv'
    <3>1. Rotator \in Callers /\ "issue" \in Ops BY DEF Callers, Ops
    <3> QED BY <2>11, <3>1, DoType
        DEF RotateNext, TypeInv, TypeOK, CallsAreReady, issuerVars
  <2>12. CASE StartCheck
    BY <2>12, CertConstants
    DEF StartCheck, TypeInv, TypeOK, CallsAreReady, issuerVars
  <2>13. CASE Tick
    BY <2>13, CertConstants
    DEF Tick, TypeInv, TypeOK, CallsAreReady, issuerVars
  <2>14. CASE UNCHANGED vars
    BY <2>14 DEF vars, TypeInv, TypeOK, CallsAreReady, issuerVars, loopVars
  <2> QED BY <2>1, <2>2, <2>3, <2>4, <2>5, <2>6, <2>7, <2>8, <2>9, <2>10, <2>11, <2>12,
             <2>13, <2>14 DEF Next, FlightStep
<1> QED BY <1>1, <1>2, PTL DEF Spec

(* Every variable keeps its type, and whenever a certificate is made both    *)
(* issuers are set: issueCertificate never dereferences a nil issuer         *)
(* (handleMRCEvent, start and NewManager order).                             *)
THEOREM CertTypeCorrect == Spec => []TypeOK
<1>1. TypeInv => TypeOK BY DEF TypeInv
<1> QED BY <1>1, TypeInvariant, PTL
-----------------------------------------------------------------------------
(* The certificates in the cache and the one being returned carry the trust  *)
(* of their labels.                                                          *)
LEMMA TrustStep == TrustMatchesIssuers /\ TypeInv /\ [Next]_vars => TrustMatchesIssuers'
<1> SUFFICES ASSUME TrustMatchesIssuers, TypeInv, [Next]_vars PROVE TrustMatchesIssuers'
  OBVIOUS
<1>1. ASSUME NEW k \in Keys, SignAndStore(k) PROVE TrustMatchesIssuers'
  <2>1. cache' = [cache EXCEPT ![k] = NewCert(flight[k])] /\ cache \in [Keys -> Certs \cup {NoCert}]
    BY <1>1 DEF SignAndStore, TypeInv, TypeOK
  <2>2. NewCert(flight[k]).trusted = {NewCert(flight[k]).signing, NewCert(flight[k]).validating}
    BY DEF NewCert
  <2> QED BY <2>1, <2>2 DEF TrustMatchesIssuers
<1>2. ASSUME NEW k \in Keys, ReleaseCertificate(k) PROVE TrustMatchesIssuers'
  BY <1>2 DEF ReleaseCertificate, TrustMatchesIssuers, TypeInv, TypeOK
<1>3. CASE UNCHANGED cache
  BY <1>3 DEF TrustMatchesIssuers
<1>4. \/ \E k \in Keys : SignAndStore(k) \/ ReleaseCertificate(k)
      \/ UNCHANGED cache
  BY DEF Next, FlightStep, HandleMRCEvent, StartTimesOut, Call, LoadCache, CheckRotate,
         ReadIssuers, PublishRotation, ReturnCertificate, SignFails, RotateNext,
         StartCheck, Tick, vars
<1> QED BY <1>1, <1>2, <1>3, <1>4

(* A root certificate rotation that changes the issuers while a certificate  *)
(* is being signed never leaves one in the cache whose trust context differs *)
(* from the issuers it is labelled with (issueCertificate reads both issuers *)
(* at once and uses only those).                                             *)
THEOREM TrustAlwaysMatches == Spec => []TrustMatchesIssuers
<1>1. Init => TrustMatchesIssuers BY DEF Init, TrustMatchesIssuers
<1> QED BY <1>1, TrustStep, TypeInvariant, PTL DEF Spec
-----------------------------------------------------------------------------
(* What a call in flight knows of the cache entry of its key.  Nobody else   *)
(* stores one, so that until it stores its own the entry is the one it       *)
(* loaded, or has been released since; and its own stays until a release.    *)
FlightOwnsEntry(k) ==
  /\ flight[k].pc \in {"check", "read", "sign"} =>
       /\ cache[k] \in {flight[k].old, NoCert}
       /\ flight[k].old \in {cache[k], NoCert} \cup released
  /\ flight[k].pc \in {"pub", "return"} =>
       flight[k].new \in {cache[k]} \cup released

(* HoldersAreTold for one client. *)
Told(p) ==
  \/ returned[p].cert = NoCert
  \/ cache[returned[p].key] = returned[p].cert
  \/ returned[p].cert \in announced \cup released
  \/ /\ flight[returned[p].key].old = returned[p].cert
     /\ flight[returned[p].key].pc = "pub"

KeyKnown(p) == returned[p].cert # NoCert => returned[p].key \in Keys

HolderInv ==
  /\ \A k \in Keys : FlightOwnsEntry(k)
  /\ \A p \in Clients : KeyKnown(p) /\ Told(p)

(* A step of the call in flight for k that neither returns nor touches the   *)
(* cache keeps the invariant if the call still knows its entry.              *)
LEMMA FlightStepTold ==
  ASSUME HolderInv, NEW k \in Keys, flight[k].pc # "pub",
         \A j \in Keys \ {k} : flight'[j] = flight[j],
         FlightOwnsEntry(k)', UNCHANGED <<cache, returned, announced, released>>
  PROVE  HolderInv'
<1>1. ASSUME NEW j \in Keys PROVE FlightOwnsEntry(j)'
  BY <1>1 DEF HolderInv, FlightOwnsEntry
<1>2. ASSUME NEW p \in Clients PROVE KeyKnown(p)' /\ Told(p)'
  BY DEF HolderInv, KeyKnown, Told
<1> QED BY <1>1, <1>2 DEF HolderInv

(* A return tells every caller, if the result is cached or released. *)
LEMMA ReturnTold ==
  ASSUME TypeInv, HolderInv, NEW k \in Keys, NEW err,
         NEW cert \in {NoCert, cache[k]} \cup released, flight[k].pc # "pub",
         Return(k, err, cert), UNCHANGED <<cache, announced, released>>
  PROVE  HolderInv'
<1>1. /\ flight'[k].pc = "none"
      /\ \A j \in Keys \ {k} : flight'[j] = flight[j]
  BY DEF Return, NoFlight, Flight, TypeInv, TypeOK
<1>2. ASSUME NEW j \in Keys PROVE FlightOwnsEntry(j)'
  BY <1>1 DEF HolderInv, FlightOwnsEntry
<1>3. ASSUME NEW p \in Clients PROVE KeyKnown(p)' /\ Told(p)'
  <2>1. p \in Callers BY DEF Callers
  <2>2. CASE p \in Joined(k)
    BY <2>1, <2>2 DEF Return, KeyKnown, Told
  <2>3. CASE p \notin Joined(k)
    <3>1. returned'[p] = returned[p] BY <2>1, <2>3 DEF Return
    <3> QED BY <1>1, <3>1 DEF HolderInv, KeyKnown, Told
  <2> QED BY <2>2, <2>3
<1> QED BY <1>2, <1>3 DEF HolderInv

(* Joining or starting a call replaces no certificate. *)
LEMMA DoTold ==
  ASSUME TypeInv, HolderInv, NEW p, NEW k \in Keys, NEW op, Do(p, k, op),
         UNCHANGED <<cache, returned, announced, released>>
  PROVE  HolderInv'
<1>1. CASE InFlight(k)
  BY <1>1 DEF Do, HolderInv, FlightOwnsEntry, KeyKnown, Told
<1>2. CASE ~InFlight(k)
  <2>1. flight'[k].pc = "load" /\ \A j \in Keys \ {k} : flight'[j] = flight[j]
    BY <1>2 DEF Do, Flight, TypeInv, TypeOK
  <2>2. FlightOwnsEntry(k)' BY <2>1 DEF FlightOwnsEntry
  <2> QED BY <1>2, <2>1, <2>2, FlightStepTold DEF InFlight
<1> QED BY <1>1, <1>2

(* A certificate that is replaced is the one that the call will announce. *)
LEMMA StoreTold ==
  ASSUME TypeInv, HolderInv, NEW k \in Keys, SignAndStore(k)
  PROVE  HolderInv'
<1> DEFINE cert == NewCert(flight[k])
<1>1. /\ cache'[k] = cert
      /\ \A j \in Keys \ {k} : cache'[j] = cache[j] /\ flight'[j] = flight[j]
      /\ flight'[k].new = cert
      /\ flight'[k].old = flight[k].old
      /\ flight'[k].pc = IF flight[k].old # NoCert THEN "pub" ELSE "return"
      /\ UNCHANGED <<returned, announced, released>>
  BY DEF SignAndStore, Announces, TypeInv, TypeOK, Flights
<1>2. ASSUME NEW j \in Keys PROVE FlightOwnsEntry(j)'
  BY <1>1, <1>2 DEF HolderInv, FlightOwnsEntry
<1>3. ASSUME NEW p \in Clients PROVE KeyKnown(p)' /\ Told(p)'
  <2>1. KeyKnown(p) /\ Told(p) /\ FlightOwnsEntry(k) BY DEF HolderInv
  <2>2. flight[k].pc = "sign" BY DEF SignAndStore
  <2>3. CASE returned[p].key = k
    BY <1>1, <2>1, <2>2, <2>3 DEF KeyKnown, Told, FlightOwnsEntry
  <2>4. CASE returned[p].key # k
    BY <1>1, <2>1, <2>4 DEF KeyKnown, Told
  <2> QED BY <2>3, <2>4
<1> QED BY <1>2, <1>3 DEF HolderInv

(* Every step keeps the invariant on holders. *)
LEMMA HolderStep == TypeInv /\ HolderInv /\ [Next]_vars => HolderInv'
<1> SUFFICES ASSUME TypeInv, HolderInv, [Next]_vars PROVE HolderInv' OBVIOUS
<1>1. CASE UNCHANGED <<cache, flight, returned, announced, released>>
  BY <1>1 DEF HolderInv, FlightOwnsEntry, KeyKnown, Told
<1>2. ASSUME NEW p \in Clients, NEW k \in Keys, NEW op \in ClientOps, Call(p, k, op)
      PROVE  HolderInv'
  BY <1>2, DoTold DEF Call
<1>3. ASSUME NEW k \in Keys, RotateNext(k) PROVE HolderInv'
  BY <1>3, DoTold DEF RotateNext
<1>4. ASSUME NEW k \in Keys, LoadCache(k) PROVE HolderInv'
  <2>1. CASE flight[k].op = "get"
    BY <1>4, <2>1, ReturnTold DEF LoadCache
  <2>2. CASE flight[k].op # "get"
    <3>1. /\ \A j \in Keys \ {k} : flight'[j] = flight[j]
          /\ flight'[k].old = cache[k]
          /\ flight'[k].pc = IF cache[k] = NoCert THEN "read" ELSE "check"
          /\ cache' = cache
      BY <1>4, <2>2 DEF LoadCache, TypeInv, TypeOK, Flights
    <3>2. FlightOwnsEntry(k)' BY <3>1 DEF FlightOwnsEntry
    <3> QED BY <1>4, <2>2, <3>1, <3>2, FlightStepTold DEF LoadCache
  <2> QED BY <2>1, <2>2
<1>5. ASSUME NEW k \in Keys, CheckRotate(k) PROVE HolderInv'
  <2>1. FlightOwnsEntry(k) BY DEF HolderInv
  <2>2. CASE flight' = Step(k, "read") /\ UNCHANGED <<caller, returned>>
    <3>1. /\ \A j \in Keys \ {k} : flight'[j] = flight[j]
          /\ flight'[k].old = flight[k].old
          /\ flight'[k].pc = "read"
          /\ cache' = cache /\ released' = released /\ flight[k].pc = "check"
      BY <1>5, <2>2 DEF CheckRotate, Step, TypeInv, TypeOK, Flights
    <3>2. FlightOwnsEntry(k)' BY <2>1, <3>1 DEF FlightOwnsEntry
    <3> QED BY <1>5, <2>2, <3>1, <3>2, FlightStepTold DEF CheckRotate
  <2>3. CASE Return(k, "nil", flight[k].old)
    <3>1. flight[k].pc = "check" /\ UNCHANGED <<cache, announced, released>>
      BY <1>5 DEF CheckRotate
    <3>2. flight[k].old \in {NoCert, cache[k]} \cup released
      BY <2>1, <3>1 DEF FlightOwnsEntry
    <3> QED BY <2>3, <3>1, <3>2, ReturnTold
  <2> QED BY <1>5, <2>2, <2>3 DEF CheckRotate
<1>6. ASSUME NEW k \in Keys, ReadIssuers(k) PROVE HolderInv'
  <2>1. /\ \A j \in Keys \ {k} : flight'[j] = flight[j]
        /\ flight'[k].old = flight[k].old
        /\ flight'[k].pc = "sign" /\ flight[k].pc = "read"
        /\ UNCHANGED <<cache, returned, announced, released>>
    BY <1>6 DEF ReadIssuers, TypeInv, TypeOK, Flights
  <2>2. FlightOwnsEntry(k)' BY <2>1 DEF HolderInv, FlightOwnsEntry
  <2> QED BY <2>1, <2>2, FlightStepTold
<1>7. ASSUME NEW k \in Keys, SignFails(k) PROVE HolderInv'
  BY <1>7, ReturnTold DEF SignFails
<1>8. ASSUME NEW k \in Keys, PublishRotation(k) PROVE HolderInv'
  <2>1. /\ \A j \in Keys \ {k} : flight'[j] = flight[j]
        /\ flight'[k].new = flight[k].new
        /\ flight'[k].pc = "return" /\ flight[k].pc = "pub"
        /\ announced' = announced \cup {flight[k].old}
        /\ UNCHANGED <<cache, returned, released>>
    BY <1>8 DEF PublishRotation, Step, TypeInv, TypeOK, Flights
  <2>2. ASSUME NEW j \in Keys PROVE FlightOwnsEntry(j)'
    BY <2>1 DEF HolderInv, FlightOwnsEntry
  <2>3. ASSUME NEW p \in Clients PROVE KeyKnown(p)' /\ Told(p)'
    BY <2>1 DEF HolderInv, KeyKnown, Told
  <2> QED BY <2>2, <2>3 DEF HolderInv
<1>9. ASSUME NEW k \in Keys, ReturnCertificate(k) PROVE HolderInv'
  <2>1. flight[k].new \in {NoCert, cache[k]} \cup released
    BY <1>9 DEF ReturnCertificate, HolderInv, FlightOwnsEntry
  <2> QED BY <1>9, <2>1, ReturnTold DEF ReturnCertificate
<1>10. ASSUME NEW k \in Keys, ReleaseCertificate(k) PROVE HolderInv'
  <2>1. /\ \A j \in Keys \ {k} : cache'[j] = cache[j]
        /\ cache'[k] = NoCert
        /\ released' = released \cup ({cache[k]} \ {NoCert})
        /\ UNCHANGED <<flight, returned, announced>>
    BY <1>10 DEF ReleaseCertificate, TypeInv, TypeOK
  <2>2. ASSUME NEW j \in Keys PROVE FlightOwnsEntry(j)'
    BY <2>1 DEF HolderInv, FlightOwnsEntry
  <2>3. ASSUME NEW p \in Clients PROVE KeyKnown(p)' /\ Told(p)'
    BY <2>1 DEF HolderInv, KeyKnown, Told
  <2> QED BY <2>2, <2>3 DEF HolderInv
<1>11. \/ UNCHANGED <<cache, flight, returned, announced, released>>
       \/ \E p \in Clients, k \in Keys, op \in ClientOps : Call(p, k, op)
       \/ \E k \in Keys : FlightStep(k) \/ SignFails(k) \/ ReleaseCertificate(k) \/ RotateNext(k)
  BY SMTT(30) DEF Next, HandleMRCEvent, StartTimesOut, StartCheck, Tick, vars
<1> QED BY <1>1, <1>2, <1>3, <1>4, <1>5, <1>6, <1>7, <1>8, <1>9, <1>10, <1>11, StoreTold
    DEF FlightStep

(* The invariant on holders holds throughout. *)
LEMMA HolderInvariant == Spec => []HolderInv
<1>1. Init => HolderInv
  BY DEF Init, HolderInv, FlightOwnsEntry, KeyKnown, Told, NoFlight, Flight, NoResult,
         Callers
<1> QED BY <1>1, HolderStep, TypeInvariant, PTL DEF Spec

(* No client keeps a replaced certificate untold: what IssueCertificate or   *)
(* GetCertificate returned is still cached, or was announced as rotated, is  *)
(* about to be, or was released, however calls for a key, releases and the   *)
(* rotation loop interleave.                                                 *)
THEOREM HoldersAlwaysTold == Spec => []HoldersAreTold
<1>1. HolderInv => HoldersAreTold
  BY DEF HolderInv, Told, HoldersAreTold, InFlight
<1> QED BY <1>1, HolderInvariant, PTL
-----------------------------------------------------------------------------
(* Certificates are renewed early enough for two rounds of the rotation loop *)
(* and one more for every failure of an issuer, they live as long as that,   *)
(* and no call of GetCertificate is there for a rotation to join.            *)
InTime ==
  /\ CheckInterval > 0
  /\ RenewBefore >= (MaxFailures + 2) * CheckInterval - 1
  /\ Validity >= (MaxFailures + 2) * CheckInterval
  /\ ClientOps \subseteq {"issue"}

(* How long the failures still to come can put off a renewal. *)
Slack == (MaxFailures - failures) * CheckInterval

LastCheck == now - sinceCheck

(* A certificate expires after the next two rounds of the rotation loop have *)
(* started, or after the next one has and this round has still to renew it,  *)
(* with the slack for failures in both cases.                                *)
Lasts(c) == c.exp >= LastCheck + 2 * CheckInterval + Slack

RenewalAhead(k) ==
  \/ k \in rotTodo
  \/ /\ caller[Rotator] # Idle /\ caller[Rotator].key = k
     /\ flight[k].pc \in {"load", "check", "read", "sign"}

Due(k) ==
  /\ cache[k].exp >= LastCheck + CheckInterval + Slack
  /\ sinceCheck < CheckInterval
  /\ RenewalAhead(k)

RenewedFor(k) ==
  /\ cache[k] # NoCert => Lasts(cache[k]) \/ Due(k)
  /\ cache[k] # NoCert /\ flight[k].pc \in {"pub", "return"} =>
       cache[k].exp >= now + 2 * CheckInterval + Slack
  /\ flight[k].pc # "none" => flight[k].op = "issue"

ExpiryInv ==
  /\ failures \in 0..MaxFailures
  /\ \A k \in Keys : RenewedFor(k)

(* Margin and validity cover two rounds and the failures that may still      *)
(* come.                                                                     *)
LEMMA SlackFacts ==
  ASSUME InTime, failures \in 0..MaxFailures
  PROVE  /\ Slack \in Nat
         /\ RenewBefore >= 2 * CheckInterval + Slack - 1
         /\ Validity >= 2 * CheckInterval + Slack
<1>1. \A f, g, i \in Nat : g <= f => (f - g) * i \in Nat /\ (f + 2) * i >= 2 * i + (f - g) * i
  <2> SUFFICES ASSUME NEW f \in Nat, NEW g \in Nat, NEW i \in Nat, g <= f
               PROVE  (f - g) * i \in Nat /\ (f + 2) * i >= 2 * i + (f - g) * i
    OBVIOUS
  <2>1. (f - g) * i = f * i - g * i /\ (f + 2) * i = f * i + 2 * i
    OBVIOUS
  <2>2. f - g \in Nat /\ g * i \in Nat
    OBVIOUS
  <2>3. (f - g) * i \in Nat
    BY <2>2
  <2> QED
    BY <2>1, <2>2, <2>3
<1>2. MaxFailures \in Nat /\ failures \in Nat /\ failures <= MaxFailures /\ CheckInterval \in Nat
  BY CertConstants
<1>3. Slack \in Nat /\ (MaxFailures + 2) * CheckInterval >= 2 * CheckInterval + Slack
  BY <1>1, <1>2 DEF Slack
<1>4. (MaxFailures + 2) * CheckInterval \in Nat
  BY <1>2
<1> QED
  BY <1>2, <1>3, <1>4, CertConstants DEF InTime

(* A failure uses up a round's slack. *)
LEMMA FailureSlack ==
  ASSUME failures \in 0..MaxFailures, failures' = failures + 1
  PROVE  Slack' = Slack - CheckInterval
<1>1. \A f, g, i \in Nat : (f - (g + 1)) * i = (f - g) * i - i
  OBVIOUS
<1> QED
  BY <1>1, CertConstants DEF Slack

(* The times are numbers, and the last check is past. *)
LEMMA TimeType ==
  ASSUME TypeInv
  PROVE  /\ now \in Nat /\ sinceCheck \in Nat /\ sinceCheck <= CheckInterval
         /\ CheckInterval \in Nat /\ LastCheck \in Int /\ LastCheck <= now
         /\ \A k \in Keys : cache[k] # NoCert => cache[k] \in Certs /\ cache[k].exp \in Nat
BY CertConstants DEF TypeInv, TypeOK, LastCheck, Certs

(* A key whose entry and call in flight a step leaves alone. *)
LEMMA KeyKeeps ==
  ASSUME NEW j \in Keys, RenewedFor(j), cache'[j] = cache[j], flight'[j] = flight[j],
         RenewalAhead(j) => RenewalAhead(j)', UNCHANGED <<now, sinceCheck, failures>>
  PROVE  RenewedFor(j)'
BY DEF RenewedFor, Lasts, Due, LastCheck, Slack

(* A step of the call in flight for k that leaves the cache alone. *)
LEMMA FlightKeeps ==
  ASSUME ExpiryInv, NEW k \in Keys, \A j \in Keys \ {k} : flight'[j] = flight[j],
         flight[k].pc \in {"load", "check", "read", "sign"} =>
           flight'[k].pc \in {"load", "check", "read", "sign"},
         flight'[k].pc \in {"pub", "return"} => flight[k].pc \in {"pub", "return"},
         flight'[k].pc # "none" => flight'[k].op = "issue",
         UNCHANGED <<cache, caller, rotTodo, now, sinceCheck, failures>>
  PROVE  ExpiryInv'
<1>1. ASSUME NEW j \in Keys, j # k PROVE RenewedFor(j)'
  <2>1. RenewalAhead(j) => RenewalAhead(j)'
    BY <1>1 DEF RenewalAhead
  <2> QED
    BY <1>1, <2>1, KeyKeeps DEF ExpiryInv
<1>2. RenewedFor(k)'
  <2>1. RenewalAhead(k) => RenewalAhead(k)'
    BY DEF RenewalAhead
  <2> QED
    BY <2>1 DEF ExpiryInv, RenewedFor, Lasts, Due, LastCheck, Slack
<1> QED
  BY <1>1, <1>2 DEF ExpiryInv

(* A call that returns and leaves an entry that lasts. *)
LEMMA ReturnKeeps ==
  ASSUME TypeInv, ExpiryInv, NEW k \in Keys, NEW err, NEW cert, Return(k, err, cert),
         cache[k] # NoCert => Lasts(cache[k]),
         UNCHANGED <<cache, rotTodo, now, sinceCheck, failures>>
  PROVE  ExpiryInv'
<1>1. flight'[k].pc = "none" /\ \A j \in Keys \ {k} : flight'[j] = flight[j]
  BY SMTT(30) DEF Return, NoFlight, Flight, TypeInv, TypeOK
<1>2. ASSUME NEW j \in Keys, j # k PROVE RenewedFor(j)'
  <2>1. Rotator \in Callers
    BY DEF Callers
  <2>2. caller[Rotator].key = j => caller'[Rotator] = caller[Rotator]
    BY <1>2, <2>1 DEF Return, Joined
  <2>3. RenewalAhead(j) => RenewalAhead(j)'
    BY <1>1, <1>2, <2>2, SMTT(30) DEF RenewalAhead
  <2> QED
    BY <1>1, <1>2, <2>3, KeyKeeps, SMTT(30) DEF ExpiryInv
<1>3. RenewedFor(k)'
  BY <1>1 DEF RenewedFor, Lasts, LastCheck, Slack
<1> QED
  BY <1>2, <1>3 DEF ExpiryInv

(* group.Do for an issuing call, of a client or of the rotation loop. *)
LEMMA DoKeeps ==
  ASSUME TypeInv, InTime, ExpiryInv, NEW p \in Callers, NEW k \in Keys, Do(p, k, "issue"),
         rotTodo' = IF p = Rotator THEN rotTodo \ {k} ELSE rotTodo,
         UNCHANGED <<cache, now, sinceCheck, failures>>
  PROVE  ExpiryInv'
<1>1. /\ \A j \in Keys \ {k} : flight'[j] = flight[j]
      /\ \/ flight[k].pc = "none" /\ flight'[k].pc = "load" /\ flight'[k].op = "issue"
         \/ flight[k].pc # "none" /\ flight'[k] = flight[k]
  BY DEF Do, InFlight, Flight, TypeInv, TypeOK
<1>2. /\ p # Rotator => caller'[Rotator] = caller[Rotator]
      /\ p = Rotator => caller[Rotator] = Idle /\ caller'[Rotator] = [key |-> k, op |-> "issue"]
  BY DEF Do, Callers, TypeInv, TypeOK
<1>3. [key |-> k, op |-> "issue"] # Idle
  BY DEF Idle
<1>4. ASSUME NEW j \in Keys, j # k PROVE RenewedFor(j)'
  <2>1. RenewalAhead(j) => RenewalAhead(j)'
    BY <1>1, <1>2, <1>4 DEF RenewalAhead
  <2> QED
    BY <1>1, <1>4, <2>1, KeyKeeps DEF ExpiryInv
<1>5. RenewedFor(k)'
  <2>1. RenewedFor(k) /\ flight[k] \in Flights
    BY DEF ExpiryInv, TypeInv, TypeOK
  <2>2. CASE flight[k].pc \in {"pub", "return"}
    <3>1. cache[k] # NoCert => Lasts(cache[k])
      BY <2>1, <2>2, TimeType, SlackFacts, SMTT(30) DEF RenewedFor, Lasts, ExpiryInv
    <3> QED
      BY <1>1, <2>1, <2>2, <3>1 DEF RenewedFor, Lasts, LastCheck, Slack
  <2>3. CASE flight[k].pc \notin {"pub", "return"}
    <3>1. flight'[k].pc \in {"load", "check", "read", "sign"} /\ flight'[k].op = "issue"
      BY <1>1, <2>1, <2>3, SMTT(30) DEF Flights, RenewedFor
    <3>2. RenewalAhead(k) => RenewalAhead(k)'
      BY <1>2, <1>3, <3>1, SMTT(30) DEF RenewalAhead
    <3> QED
      BY <2>1, <3>1, <3>2 DEF RenewedFor, Lasts, Due, LastCheck, Slack
  <2> QED
    BY <2>2, <2>3
<1> QED
  BY <1>4, <1>5 DEF ExpiryInv

(* A new certificate lasts. *)
LEMMA StoreKeeps ==
  ASSUME TypeInv, InTime, ExpiryInv, NEW k \in Keys, SignAndStore(k)
  PROVE  ExpiryInv'
<1>1. /\ cache'[k] = NewCert(flight[k]) /\ flight'[k].op = flight[k].op
      /\ \A j \in Keys \ {k} : cache'[j] = cache[j] /\ flight'[j] = flight[j]
      /\ flight[k].pc = "sign" /\ UNCHANGED <<caller, rotTodo, now, sinceCheck, failures>>
  BY DEF SignAndStore, TypeInv, TypeOK, Flights, loopVars
<1>2. ASSUME NEW j \in Keys, j # k PROVE RenewedFor(j)'
  <2>1. RenewalAhead(j) => RenewalAhead(j)'
    BY <1>1, <1>2, SMTT(30) DEF RenewalAhead
  <2> QED
    BY <1>1, <1>2, <2>1, KeyKeeps, SMTT(30) DEF ExpiryInv
<1>3. cache'[k].exp = now + Validity /\ now' = now /\ Slack' = Slack /\ LastCheck' = LastCheck
  BY <1>1, SMTT(30) DEF NewCert, Slack, LastCheck
<1>4. Slack \in Nat /\ Validity >= 2 * CheckInterval + Slack /\ Validity \in Nat
  BY SlackFacts, CertConstants DEF ExpiryInv
<1>5. cache'[k].exp >= now + 2 * CheckInterval + Slack /\ Lasts(cache[k])'
  BY <1>3, <1>4, TimeType DEF Lasts
<1>6. RenewedFor(k)'
  BY <1>1, <1>3, <1>5 DEF RenewedFor, ExpiryInv
<1> QED
  BY <1>1, <1>2, <1>6, SMTT(30) DEF ExpiryInv

(* A failure leaves a certificate that lasts with less slack. *)
LEMMA FailureKeeps ==
  ASSUME TypeInv, InTime, ExpiryInv, NEW k \in Keys, SignFails(k)
  PROVE  ExpiryInv'
<1>1. /\ failures' \in 0..MaxFailures /\ failures' = failures + 1
      /\ UNCHANGED <<cache, rotTodo, now, sinceCheck>> /\ flight[k].pc = "sign"
  BY CertConstants, SMTT(30) DEF SignFails, ExpiryInv, loopVars
<1>2. Slack' = Slack - CheckInterval /\ Slack \in Nat /\ Slack' \in Int
  BY <1>1, FailureSlack, SlackFacts, TimeType DEF ExpiryInv
<1>3. flight'[k].pc = "none" /\ \A j \in Keys \ {k} : flight'[j] = flight[j]
  BY SMTT(30) DEF SignFails, Return, NoFlight, Flight, TypeInv, TypeOK
<1>4. LastCheck' = LastCheck
  BY <1>1 DEF LastCheck
<1>5. ASSUME NEW j \in Keys, j # k PROVE RenewedFor(j)'
  <2>1. Rotator \in Callers
    BY DEF Callers
  <2>2. caller[Rotator].key = j => caller'[Rotator] = caller[Rotator]
    BY <1>5, <2>1 DEF SignFails, Return, Joined
  <2>3. RenewalAhead(j) => RenewalAhead(j)'
    BY <1>1, <1>3, <1>5, <2>2 DEF RenewalAhead
  <2>4. RenewedFor(j) /\ cache'[j] = cache[j] /\ flight'[j] = flight[j]
    BY <1>1, <1>3, <1>5 DEF ExpiryInv
  <2> QED
    BY <1>1, <1>2, <1>4, <2>3, <2>4, TimeType, SMTT(30) DEF RenewedFor, Lasts, Due
<1>6. RenewedFor(k)'
  <2>1. cache[k] # NoCert => cache[k].exp >= LastCheck + CheckInterval + Slack
    BY <1>2, TimeType DEF ExpiryInv, RenewedFor, Lasts, Due
  <2> QED
    BY <1>1, <1>2, <1>3, <1>4, <2>1, TimeType DEF RenewedFor, Lasts
<1> QED
  BY <1>1, <1>5, <1>6 DEF ExpiryInv

(* The rotation loop starts in time for the certificates that last. *)
LEMMA CheckKeeps ==
  ASSUME TypeInv, InTime, ExpiryInv, StartCheck
  PROVE  ExpiryInv'
<1>1. /\ sinceCheck = CheckInterval /\ sinceCheck' = 0
      /\ rotTodo' = {k \in Keys : cache[k] # NoCert}
      /\ UNCHANGED <<cache, flight, caller, now, failures>>
  BY DEF StartCheck
<1>2. LastCheck' = LastCheck + CheckInterval /\ Slack' = Slack /\ Slack \in Nat
  BY <1>1, TimeType, SlackFacts DEF LastCheck, Slack, ExpiryInv
<1>3. ASSUME NEW k \in Keys PROVE RenewedFor(k)'
  <2>1. RenewedFor(k)
    BY DEF ExpiryInv
  <2>2. cache[k] # NoCert => cache[k].exp >= LastCheck + 2 * CheckInterval + Slack
    BY <1>1, <2>1, TimeType DEF RenewedFor, Lasts, Due
  <2>3. cache[k] # NoCert => Due(k)'
    BY <1>1, <1>2, <2>2, TimeType DEF Due, RenewalAhead, InTime
  <2> QED
    BY <1>1, <1>2, <2>1, <2>3 DEF RenewedFor
<1> QED
  BY <1>1, <1>3 DEF ExpiryInv

(* Time does not bring the next round before this one is over. *)
LEMMA TickKeeps ==
  ASSUME TypeInv, InTime, ExpiryInv, Tick
  PROVE  ExpiryInv'
<1>1. /\ now' = now + 1 /\ sinceCheck' = sinceCheck + 1 /\ sinceCheck < CheckInterval
      /\ UNCHANGED <<cache, flight, caller, rotTodo, failures>>
  BY DEF Tick
<1>2. LastCheck' = LastCheck /\ Slack' = Slack
  BY <1>1, TimeType DEF LastCheck, Slack
<1>3. ASSUME NEW k \in Keys PROVE RenewedFor(k)'
  <2>1. RenewedFor(k) /\ flight[k].pc \in {"none", "sign"}
    BY SMTT(30) DEF ExpiryInv, Tick
  <2>2. RenewalAhead(k) => sinceCheck + 1 # CheckInterval /\ RenewalAhead(k)'
    BY <1>1, SMTT(30) DEF Tick, RenewalAhead
  <2>3. sinceCheck + 1 # CheckInterval => sinceCheck' < CheckInterval
    BY <1>1, TimeType
  <2> QED
    BY <1>1, <1>2, <2>1, <2>2, <2>3 DEF RenewedFor, Lasts, Due
<1> QED
  BY <1>1, <1>3 DEF ExpiryInv

(* Every step keeps the invariant on expiry. *)
LEMMA ExpiryStep ==
  ASSUME InTime, TypeInv, HolderInv, ExpiryInv, [Next]_vars
  PROVE  ExpiryInv'
<1>1. CASE UNCHANGED <<cache, flight, caller, rotTodo, now, sinceCheck, failures>>
  BY <1>1 DEF ExpiryInv, RenewedFor, RenewalAhead, Lasts, Due, LastCheck, Slack
<1>2. ASSUME NEW p \in Clients, NEW k \in Keys, NEW op \in ClientOps, Call(p, k, op)
      PROVE  ExpiryInv'
  <2>1. p \in Callers /\ p # Rotator /\ op = "issue"
    BY CertConstants DEF Callers, InTime
  <2>2. Do(p, k, "issue") /\ UNCHANGED <<cache, rotTodo, now, sinceCheck, failures>>
    BY <1>2, <2>1 DEF Call, loopVars
  <2> QED
    BY <2>1, <2>2, DoKeeps
<1>3. ASSUME NEW k \in Keys, RotateNext(k) PROVE ExpiryInv'
  <2>1. Rotator \in Callers
    BY DEF Callers
  <2> QED
    BY <1>3, <2>1, DoKeeps DEF RotateNext
<1>4. ASSUME NEW k \in Keys, LoadCache(k) PROVE ExpiryInv'
  <2>1. flight[k].op = "issue"
    BY <1>4 DEF LoadCache, ExpiryInv, RenewedFor
  <2>2. /\ \A j \in Keys \ {k} : flight'[j] = flight[j]
        /\ flight'[k].pc \in {"read", "check"} /\ flight'[k].op = "issue"
        /\ UNCHANGED <<cache, caller, rotTodo, now, sinceCheck, failures>>
    BY <1>4, <2>1 DEF LoadCache, TypeInv, TypeOK, Flights, loopVars
  <2> QED
    BY <2>2, FlightKeeps
<1>5. ASSUME NEW k \in Keys, CheckRotate(k) PROVE ExpiryInv'
  <2>1. flight[k].pc = "check" /\ UNCHANGED <<cache, rotTodo, now, sinceCheck, failures>>
    BY <1>5 DEF CheckRotate, loopVars
  <2>2. CASE flight' = Step(k, "read") /\ UNCHANGED caller
    <3>1. /\ \A j \in Keys \ {k} : flight'[j] = flight[j]
          /\ flight'[k].pc = "read" /\ flight'[k].op = flight[k].op
      BY <2>2 DEF Step, TypeInv, TypeOK, Flights
    <3>2. flight[k].op = "issue"
      BY <2>1 DEF ExpiryInv, RenewedFor
    <3> QED
      BY <2>1, <2>2, <3>1, <3>2, FlightKeeps
  <2>3. CASE /\ Return(k, "nil", flight[k].old)
             /\ \E noise \in 0..Noise : ~Expiring(flight[k].old, noise)
    <3>1. flight[k].old \in Certs /\ flight[k].old.exp \in Nat
      BY <2>1 DEF TypeInv, TypeOK, Flights, Certs
    <3>2. flight[k].old.exp - now > RenewBefore
      BY <2>3, <3>1, TimeType, CertConstants, SMTT(30) DEF Expiring
    <3>3. Lasts(flight[k].old)
      BY <3>1, <3>2, TimeType, SlackFacts, CertConstants DEF Lasts, ExpiryInv
    <3>4. cache[k] # NoCert => cache[k] = flight[k].old
      BY <2>1 DEF HolderInv, FlightOwnsEntry
    <3> QED
      BY <2>1, <2>3, <3>3, <3>4, ReturnKeeps, SMTT(30)
  <2> QED
    BY <1>5, <2>2, <2>3, SMTT(30) DEF CheckRotate
<1>6. ASSUME NEW k \in Keys, ReadIssuers(k) \/ PublishRotation(k) PROVE ExpiryInv'
  <2>1. /\ \A j \in Keys \ {k} : flight'[j] = flight[j]
        /\ \/ flight[k].pc = "read" /\ flight'[k].pc = "sign"
           \/ flight[k].pc = "pub" /\ flight'[k].pc = "return"
        /\ flight'[k].op = flight[k].op
    BY <1>6 DEF ReadIssuers, PublishRotation, Step, TypeInv, TypeOK, Flights
  <2>2. flight[k].op = "issue"
    BY <2>1 DEF ExpiryInv, RenewedFor
  <2>3. UNCHANGED <<cache, caller, rotTodo, now, sinceCheck, failures>>
    BY <1>6 DEF ReadIssuers, PublishRotation, loopVars
  <2> QED
    BY <2>1, <2>2, <2>3, FlightKeeps, SMTT(30)
<1>7. ASSUME NEW k \in Keys, ReturnCertificate(k) PROVE ExpiryInv'
  <2>1. /\ flight[k].pc = "return" /\ Return(k, "nil", flight[k].new)
        /\ UNCHANGED <<cache, rotTodo, now, sinceCheck, failures>>
    BY <1>7 DEF ReturnCertificate, loopVars
  <2>2. cache[k] # NoCert => Lasts(cache[k])
    BY <2>1, TimeType, SlackFacts, SMTT(30) DEF ExpiryInv, RenewedFor, Lasts
  <2> QED
    BY <2>1, <2>2, ReturnKeeps, SMTT(30)
<1>8. ASSUME NEW k \in Keys, ReleaseCertificate(k) PROVE ExpiryInv'
  <2>1. /\ cache'[k] = NoCert /\ \A j \in Keys \ {k} : cache'[j] = cache[j]
        /\ UNCHANGED <<flight, caller, rotTodo, now, sinceCheck, failures>>
    BY <1>8 DEF ReleaseCertificate, TypeInv, TypeOK, loopVars
  <2> QED
    BY <2>1, SMTT(30) DEF ExpiryInv, RenewedFor, RenewalAhead, Lasts, Due, LastCheck, Slack
<1>9. \/ UNCHANGED <<cache, flight, caller, rotTodo, now, sinceCheck, failures>>
      \/ \E p \in Clients, k \in Keys, op \in ClientOps : Call(p, k, op)
      \/ \E k \in Keys : FlightStep(k) \/ SignFails(k) \/ ReleaseCertificate(k) \/ RotateNext(k)
      \/ StartCheck \/ Tick
  BY SMTT(30) DEF Next, HandleMRCEvent, StartTimesOut, vars, loopVars
<1> QED
  BY <1>1, <1>2, <1>3, <1>4, <1>5, <1>6, <1>7, <1>8, <1>9, StoreKeeps, FailureKeeps, CheckKeeps,
     TickKeeps DEF FlightStep

(* The rotation loop renews every certificate before it expires, for any     *)
(* keys, clients and releases and however its calls join theirs in flight,   *)
(* if RenewBeforeCertExpires covers two intervals of the ticker and one more *)
(* for every failure of an issuer (checkAndRotate, ShouldRotate).            *)
THEOREM CachedCertsNeverExpire ==
  ASSUME InTime
  PROVE  Spec => []NoCachedCertExpired
<1>1. Init => ExpiryInv
  BY CertConstants DEF Init, ExpiryInv, RenewedFor, NoFlight, Flight
<1>2. TypeInv /\ HolderInv /\ ExpiryInv /\ [Next]_vars => ExpiryInv'
  BY ExpiryStep
<1>3. TypeInv /\ ExpiryInv => NoCachedCertExpired
  <2> SUFFICES ASSUME TypeInv, ExpiryInv, NEW k \in Keys, cache[k] # NoCert
               PROVE  now < cache[k].exp
    BY DEF NoCachedCertExpired
  <2>1. RenewedFor(k) /\ Slack \in Nat /\ CheckInterval > 0
    BY SlackFacts DEF ExpiryInv, InTime
  <2>2. now <= LastCheck + CheckInterval /\ (sinceCheck < CheckInterval => now < LastCheck + CheckInterval)
    BY TimeType DEF LastCheck
  <2> QED
    BY <2>1, <2>2, TimeType DEF RenewedFor, Lasts, Due
<1> QED
  BY <1>1, <1>2, <1>3, TypeInvariant, HolderInvariant, PTL DEF Spec
=============================================================================
