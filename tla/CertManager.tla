----------------------------- MODULE CertManager -----------------------------
(***************************************************************************)
(* The certificate manager (pkg/certificate/manager.go): a cache of issued *)
(* certificates, a signing and a validating issuer that change while a     *)
(* root certificate is rotated, and a loop that rotates certificates.      *)
(*                                                                         *)
(* GetCertificate and IssueCertificate run under one singleflight group: a *)
(* call that finds another one in flight for its key waits and returns     *)
(* that one's result, whichever of the two functions it is running.        *)
(*                                                                         *)
(* A certificate is a record [sn, signing, validating, trusted, exp]:      *)
(* names, keys and PEM are left out, an issuer stands for its CA.  Time    *)
(* passes in ticks; a CheckInterval of 0 turns the clock off and lets the  *)
(* rotation loop run at any moment.                                        *)
(***************************************************************************)
EXTENDS Integers, FiniteSets

CONSTANTS
  Keys,            \* cache keys (certificate prefixes)
  Clients,         \* goroutines that ask for certificates
  ClientOps,       \* what they call: "issue" or "get"
  Rotator,         \* the rotation loop's goroutine
  Issuers,         \* MeshRootCertificate names
  NoIssuer, NoCert,
  Validity,        \* validity of a certificate, in ticks
  RenewBefore,     \* RenewBeforeCertExpires, in ticks
  Noise,           \* the largest noise ShouldRotate adds, in ticks
  CheckInterval,   \* interval of the rotation ticker, in ticks
  MaxTime, MaxMRCEvents, MaxReleases, MaxFailures   \* bounds

ASSUME CertConstants ==
  /\ Rotator \notin Clients
  /\ ClientOps \subseteq {"issue", "get"}
  /\ NoIssuer \notin Issuers
  /\ Validity \in Nat /\ RenewBefore \in Nat /\ Noise \in Nat
  /\ CheckInterval \in Nat /\ MaxTime \in Nat
  /\ MaxMRCEvents \in Nat /\ MaxReleases \in Nat /\ MaxFailures \in Nat

Callers == Clients \cup {Rotator}

VARIABLES
  manager,              \* NewManager is "starting", "ready" or "timedout"
  signingIssuer, validatingIssuer,
  cache,                \* key -> certificate or NoCert
  flight,               \* key -> the singleflight call in progress
  caller,               \* caller -> the key it is calling for, or Idle
  returned,             \* caller -> what its last call returned
  rotTodo,              \* keys the rotation loop has still to go through
  sinceCheck,           \* ticks since the rotation loop last started
  now,
  issued,               \* number of certificates issued, their serial numbers
  announced,            \* history: certificates announced as rotated
  released,             \* history: certificates deleted by ReleaseCertificate
  mrcEvents, releases, failures   \* bounded event counts

issuerVars == <<manager, signingIssuer, validatingIssuer, mrcEvents>>
loopVars == <<rotTodo, sinceCheck, now>>
vars == <<issuerVars, cache, flight, caller, returned, loopVars, issued, announced,
          released, releases, failures>>

Idle == [key |-> "none", op |-> "none"]
NoResult == [key |-> "none", op |-> "none", err |-> "nil", cert |-> NoCert]

Flight(op, pc) == [op |-> op, pc |-> pc, old |-> NoCert, signing |-> NoIssuer,
                   validating |-> NoIssuer, new |-> NoCert]
NoFlight == Flight("none", "none")
InFlight(k) == flight[k].pc # "none"
-----------------------------------------------------------------------------
Init ==
  /\ manager = "starting"
  /\ signingIssuer = NoIssuer /\ validatingIssuer = NoIssuer
  /\ cache = [k \in Keys |-> NoCert]
  /\ flight = [k \in Keys |-> NoFlight]
  /\ caller = [p \in Callers |-> Idle]
  /\ returned = [p \in Callers |-> NoResult]
  /\ rotTodo = {} /\ sinceCheck = CheckInterval /\ now = 0
  /\ issued = 0 /\ announced = {} /\ released = {}
  /\ mrcEvents = 0 /\ releases = 0 /\ failures = 0

(* The manager can be used. *)
Initialized(signing, validating) == signing # NoIssuer /\ validating # NoIssuer

(* handleMRCEvent, then the check in start that both issuers are set.  An    *)
(* update, an MRC in error state and an MRC for which no issuer can be made  *)
(* change nothing.                                                           *)
HandleMRCEvent(id, state) ==
  /\ mrcEvents < MaxMRCEvents
  /\ mrcEvents' = mrcEvents + 1
  /\ signingIssuer' = IF state \in {"active", "issuing"} THEN id ELSE signingIssuer
  /\ validatingIssuer' = IF state \in {"active", "validating"} THEN id ELSE validatingIssuer
  /\ manager' = IF manager = "starting" /\ Initialized(signingIssuer', validatingIssuer')
                THEN "ready" ELSE manager
  /\ UNCHANGED <<cache, flight, caller, returned, loopVars, issued, announced,
                 released, releases, failures>>

(* start gives up after ten seconds and NewManager returns no manager. *)
StartTimesOut ==
  /\ manager = "starting"
  /\ manager' = "timedout"
  /\ UNCHANGED <<signingIssuer, validatingIssuer, mrcEvents, cache, flight, caller,
                 returned, loopVars, issued, announced, released, releases, failures>>
-----------------------------------------------------------------------------
(* group.Do(k, ...): run the function, or wait for the call in flight. *)
Do(p, k, op) ==
  /\ manager = "ready"
  /\ caller[p] = Idle
  /\ caller' = [caller EXCEPT ![p] = [key |-> k, op |-> op]]
  /\ flight' = IF InFlight(k) THEN flight ELSE [flight EXCEPT ![k] = Flight(op, "load")]

(* Who waits for the call in flight. *)
Joined(k) == {p \in Callers : caller[p].key = k}

(* The function in flight for k is over: everyone calling for k returns. *)
Return(k, err, cert) ==
  /\ flight' = [flight EXCEPT ![k] = NoFlight]
  /\ caller' = [p \in Callers |-> IF p \in Joined(k) THEN Idle ELSE caller[p]]
  /\ returned' = [p \in Callers |->
       IF p \in Joined(k)
       THEN [key |-> k, op |-> caller[p].op, err |-> err, cert |-> cert]
       ELSE returned[p]]

Step(k, pc) == [flight EXCEPT ![k].pc = pc]

(* A client calls IssueCertificate or GetCertificate. *)
Call(p, k, op) ==
  /\ Do(p, k, op)
  /\ UNCHANGED <<issuerVars, cache, returned, loopVars, issued, announced, released,
                 releases, failures>>

(* getFromCache: all of GetCertificate's function, the start of the other. *)
LoadCache(k) ==
  /\ flight[k].pc = "load"
  /\ IF flight[k].op = "get"
     THEN Return(k, "nil", cache[k])
     ELSE /\ flight' = [flight EXCEPT ![k].old = cache[k],
                                      ![k].pc = IF cache[k] = NoCert THEN "read" ELSE "check"]
          /\ UNCHANGED <<caller, returned>>
  /\ UNCHANGED <<issuerVars, cache, loopVars, issued, announced, released, releases,
                 failures>>

(* The two reasons to rotate.  Mutants: the expiry or the issuers forgotten. *)
SigningIssuerChanged(c) == c.signing # signingIssuer
IssuersChanged(c) ==
  c.signing # signingIssuer \/ c.validating # validatingIssuer
ExpiringLate(c, noise) == c.exp - now < noise
Expiring(c, noise) == c.exp - now <= RenewBefore + noise

(* ShouldRotate, and the early return of issueCertificate when it is false. *)
CheckRotate(k) ==
  /\ flight[k].pc = "check"
  /\ \E noise \in 0..Noise :
       IF Expiring(flight[k].old, noise) \/ IssuersChanged(flight[k].old)
       THEN /\ flight' = Step(k, "read")
            /\ UNCHANGED <<caller, returned>>
       ELSE Return(k, "nil", flight[k].old)
  /\ UNCHANGED <<issuerVars, cache, loopVars, issued, announced, released, releases,
                 failures>>

(* The issuers are read under the lock... *)
ReadIssuers(k) ==
  /\ flight[k].pc = "read"
  /\ flight' = [flight EXCEPT ![k].pc = "sign", ![k].signing = signingIssuer,
                              ![k].validating = validatingIssuer]
  /\ UNCHANGED <<issuerVars, cache, caller, returned, loopVars, issued, announced,
                 released, releases, failures>>

(* ...and used without it.  newMergedWithRoot adds the validating CA.        *)
(* Mutant: the validating issuer is read again after the certificate is made. *)
NewCertRereads(f) ==
  [sn |-> issued + 1, signing |-> f.signing, validating |-> validatingIssuer,
   trusted |-> {f.signing, f.validating}, exp |-> now + Validity]
NewCert(f) ==
  [sn |-> issued + 1, signing |-> f.signing, validating |-> f.validating,
   trusted |-> {f.signing, f.validating}, exp |-> now + Validity]

(* The certificate replaces the cached one; a rotation is announced.         *)
(* Mutant: only rotations due to expiry are.                                 *)
AnnouncesExpiry(f) == IF f.old = NoCert THEN FALSE ELSE f.old.exp - now <= RenewBefore
Announces(f) == f.old # NoCert

SignAndStore(k) ==
  LET cert == NewCert(flight[k])
  IN /\ flight[k].pc = "sign"
     /\ issued' = issued + 1
     /\ cache' = [cache EXCEPT ![k] = cert]
     /\ flight' = [flight EXCEPT ![k].pc = IF Announces(flight[k]) THEN "pub" ELSE "return",
                                 ![k].new = cert]
     /\ UNCHANGED <<issuerVars, caller, returned, loopVars, announced, released,
                    releases, failures>>

SignFails(k) ==
  /\ flight[k].pc = "sign"
  /\ failures < MaxFailures
  /\ failures' = failures + 1
  /\ Return(k, "error", NoCert)
  /\ UNCHANGED <<issuerVars, cache, loopVars, issued, announced, released, releases>>

PublishRotation(k) ==
  /\ flight[k].pc = "pub"
  /\ announced' = announced \cup {flight[k].old}
  /\ flight' = Step(k, "return")
  /\ UNCHANGED <<issuerVars, cache, caller, returned, loopVars, issued, released,
                 releases, failures>>

ReturnCertificate(k) ==
  /\ flight[k].pc = "return"
  /\ Return(k, "nil", flight[k].new)
  /\ UNCHANGED <<issuerVars, cache, loopVars, issued, announced, released, releases,
                 failures>>

ReleaseCertificate(k) ==
  /\ manager = "ready"
  /\ releases < MaxReleases
  /\ releases' = releases + 1
  /\ cache' = [cache EXCEPT ![k] = NoCert]
  /\ released' = released \cup ({cache[k]} \ {NoCert})
  /\ UNCHANGED <<issuerVars, flight, caller, returned, loopVars, issued, announced,
                 failures>>
-----------------------------------------------------------------------------
(* checkAndRotate takes a snapshot of the cache's keys and issues a          *)
(* certificate for each of them, one after the other.                        *)
StartCheck ==
  /\ manager = "ready"
  /\ caller[Rotator] = Idle
  /\ rotTodo = {}
  /\ sinceCheck = CheckInterval
  /\ sinceCheck' = 0
  /\ rotTodo' = {k \in Keys : cache[k] # NoCert}
  /\ UNCHANGED <<issuerVars, cache, flight, caller, returned, now, issued, announced,
                 released, releases, failures>>

RotateNext(k) ==
  /\ k \in rotTodo
  /\ rotTodo' = rotTodo \ {k}
  /\ Do(Rotator, k, "issue")
  /\ UNCHANGED <<issuerVars, cache, returned, sinceCheck, now, issued, announced,
                 released, releases, failures>>

(* Only the issuer takes time, and a round of the loop, issuing included, is *)
(* over before the ticker fires again.                                       *)
Tick ==
  /\ manager = "ready"
  /\ \A k \in Keys : flight[k].pc \in {"none", "sign"}
  /\ now < MaxTime
  /\ sinceCheck < CheckInterval
  /\ sinceCheck + 1 = CheckInterval => rotTodo = {} /\ caller[Rotator] = Idle
  /\ now' = now + 1
  /\ sinceCheck' = sinceCheck + 1
  /\ UNCHANGED <<issuerVars, cache, flight, caller, returned, rotTodo, issued,
                 announced, released, releases, failures>>

FlightStep(k) ==
  \/ LoadCache(k) \/ CheckRotate(k) \/ ReadIssuers(k) \/ SignAndStore(k)
  \/ PublishRotation(k) \/ ReturnCertificate(k)

MRCStates == {"active", "issuing", "validating", "ignored"}

Next ==
  \/ \E id \in Issuers, state \in MRCStates : HandleMRCEvent(id, state)
  \/ StartTimesOut
  \/ \E p \in Clients, k \in Keys, op \in ClientOps : Call(p, k, op)
  \/ \E k \in Keys : FlightStep(k) \/ SignFails(k) \/ ReleaseCertificate(k) \/ RotateNext(k)
  \/ StartCheck \/ Tick

Spec == Init /\ [][Next]_vars

(* A function in flight runs to its end and the rotation loop goes on.       *)
(* Clients, MRC events and failures are up to the environment.               *)
FairSpec ==
  /\ Spec
  /\ \A k \in Keys : WF_vars(FlightStep(k)) /\ WF_vars(RotateNext(k))
  /\ WF_vars(StartCheck)
-----------------------------------------------------------------------------
Certs == [sn : Nat, signing : Issuers, validating : Issuers,
          trusted : SUBSET Issuers, exp : Nat]
Ops == {"issue", "get", "none"}
Flights == [op : Ops, pc : {"none", "load", "check", "read", "sign", "pub", "return"},
            old : Certs \cup {NoCert}, signing : Issuers \cup {NoIssuer},
            validating : Issuers \cup {NoIssuer}, new : Certs \cup {NoCert}]

(* Every variable has its Go type; issuers are set once the manager is ready *)
(* and an issuing call past the lock holds both of them.                     *)
TypeOK ==
  /\ manager \in {"starting", "ready", "timedout"}
  /\ signingIssuer \in Issuers \cup {NoIssuer}
  /\ validatingIssuer \in Issuers \cup {NoIssuer}
  /\ manager = "ready" => signingIssuer # NoIssuer /\ validatingIssuer # NoIssuer
  /\ cache \in [Keys -> Certs \cup {NoCert}]
  /\ flight \in [Keys -> Flights]
  /\ \A k \in Keys : flight[k].pc \in {"check", "pub"} => flight[k].old # NoCert
  /\ caller \in [Callers -> [key : Keys \cup {"none"}, op : Ops]]
  /\ returned \in [Callers -> [key : Keys \cup {"none"}, op : Ops, err : {"nil", "error"},
                              cert : Certs \cup {NoCert}]]
  /\ rotTodo \subseteq Keys /\ sinceCheck \in 0..CheckInterval /\ now \in 0..MaxTime
  /\ issued \in Nat /\ announced \subseteq Certs /\ released \subseteq Certs

(* Whatever the issuers do while a certificate is being made, its trust      *)
(* context holds the CAs of the two issuers it is labelled with, on which    *)
(* ShouldRotate relies later.                                                *)
TrustMatchesIssuers ==
  \A k \in Keys : cache[k] # NoCert =>
    cache[k].trusted = {cache[k].signing, cache[k].validating}

(* A certificate that issueCertificate or getFromCache handed to a client is *)
(* still the cached one, or its rotation has been announced or is about to   *)
(* be, or it was released: no client keeps a replaced certificate untold.    *)
HoldersAreTold ==
  \A p \in Clients :
    LET c == returned[p].cert k == returned[p].key
    IN c # NoCert =>
         \/ cache[k] = c
         \/ c \in announced \cup released
         \/ InFlight(k) /\ flight[k].old = c /\ flight[k].pc = "pub"

(* A cached certificate never expires: the rotation loop renews it in time   *)
(* (RenewBeforeCertExpires against the interval of the ticker).              *)
NoCachedCertExpired ==
  \A k \in Keys : cache[k] # NoCert => now < cache[k].exp

(* Once the root certificates stop changing, every cached certificate comes  *)
(* to be one of the current issuers and stays so, provided clients stop      *)
(* calling GetCertificate: a rotation that joins such a call in flight is    *)
(* lost, and clients that keep calling can put it off for ever.              *)
ConvergesToIssuers ==
  <>[](\A p \in Clients : caller[p].op # "get") =>
    <>[](\A k \in Keys : cache[k] # NoCert =>
           cache[k].signing = signingIssuer /\ cache[k].validating = validatingIssuer)

(* IssueCertificate "returns a newly issued certificate from the given       *)
(* client or an existing valid certificate from the local cache": a call     *)
(* that returns no error returns a certificate.                              *)
IssueReturnsCertificate ==
  \A p \in Callers :
    returned[p].op = "issue" /\ returned[p].err = "nil" => returned[p].cert # NoCert
=============================================================================
