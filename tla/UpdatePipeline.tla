--------------------------- MODULE UpdatePipeline ---------------------------
(***************************************************************************)
(* What the broker promises to whoever reports a change that concerns the  *)
(* proxies: the request stays in the pipeline until a publication to the   *)
(* proxies answers it.  Any number of requests may share a publication.    *)
(***************************************************************************)
EXTENDS Naturals

CONSTANT Updates      \* the messages that result in a proxy update
VARIABLES
  requests,           \* the updates not yet answered
  published           \* the number of publications so far

Init == requests = {} /\ published = 0

Request(m) ==
  /\ requests' = requests \cup {m}
  /\ UNCHANGED published

Publish(answered) ==
  /\ requests' = requests \ answered
  /\ published' = published + 1

Next ==
  \/ \E m \in Updates : Request(m)
  \/ \E answered \in SUBSET requests : Publish(answered)

Spec == Init /\ [][Next]_<<requests, published>>
=============================================================================
