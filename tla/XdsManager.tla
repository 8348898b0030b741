---------------------------- MODULE XdsManager ----------------------------
(***************************************************************************)
(* The xDS manager (internal/controlplane/xdsmgr) and the envoy process it *)
(* keeps supplied with clusters and listeners over an incremental stream.  *)
(*                                                                         *)
(* The version of a resource is the hash of its contents, so it stands for *)
(* the contents; 0 is no resource.  The nonce is redrawn by every Update,  *)
(* here it counts them.  Envoy subscribes to all resources of a type and   *)
(* names none, so the lists of subscribed names are empty.                 *)
(***************************************************************************)
EXTENDS Integers, Sequences, FiniteSets

CONSTANTS
  Types,       \* clusters and listeners
  Names,       \* the names of resources
  Versions,    \* the versions a resource can have
  MayRevert,   \* whether a resource may go, or become what it was, before
               \* envoy has answered for it
  MaxUpdates,  \* bound on configuration changes
  MaxNacks,    \* bound on responses envoy rejects
  MaxBreaks,   \* bound on broken streams
  Cap          \* responses the stream buffers; envoy buffers its requests

ASSUME TypesAssumption == "none" \notin Types
ASSUME VersionsAssumption == Versions \subseteq Nat \ {0}
ASSUME RevertAssumption == MayRevert \in BOOLEAN
ASSUME CapAssumption == Cap \in Nat \ {0}
ASSUME BoundsAssumption == MaxUpdates \in Nat /\ MaxNacks \in Nat /\ MaxBreaks \in Nat

VARIABLES
  resources,  \* mgr.resources
  nonce,      \* mgr.nonce
  signalling, \* whether Update has yet to call Broadcast
  changed,    \* whether the stream's signal channel holds a token
  known,      \* the types with a streamState
  client,     \* clientResourceVersions of each
  work,       \* the types goroutine 2 still computes a response for
  out,        \* the response it waits to hand to goroutine 3
  down,       \* responses on their way to envoy
  up,         \* requests on their way to the manager
  asked,      \* the types envoy has subscribed to on this stream
  envoy,      \* the resources envoy runs with
  nacks, breaks

serverVars == <<resources, nonce, signalling, changed, known, client, work, out>>
envoyVars == <<asked, envoy, nacks, breaks>>
vars == <<serverVars, down, up, envoyVars>>

Table == [Names -> Versions \union {0}]
NoTable == [n \in Names |-> 0]
NoResponse == [type |-> "none", nonce |-> 0, set |-> NoTable, removed |-> {}]
Request(t, n, ok, initial) == [type |-> t, nonce |-> n, ok |-> ok, initial |-> initial]

Init ==
  /\ resources \in [Types -> Table]
  /\ \A t \in Types : resources[t] # NoTable /\ \A n \in Names : resources[t][n] <= 1
  /\ nonce = 1
  /\ signalling = FALSE
  /\ changed = FALSE
  /\ known = {}
  /\ client = [t \in Types |-> NoTable]
  /\ work = {}
  /\ out = NoResponse
  /\ down = <<>>
  /\ up = <<>>
  /\ asked = {}
  /\ envoy = [t \in Types |-> NoTable]
  /\ nacks = 0 /\ breaks = 0

---------------------------------------------------------------------------
(* Manager.Update *)

\* versions are numbered as they come up, so this one has not been seen before
Fresh == nonce + 1

\* the response for type t, or what it leads to, is still under way
UnderWay(t) ==
  \/ signalling \/ changed \/ t \in work \/ out.type = t
  \/ \E i \in DOMAIN down : down[i].type = t
  \/ \E i \in DOMAIN up : up[i].type = t

\* envoy has answered for the resources of the type
Settled(t) == t \in known /\ ~ UnderWay(t)

\* new resources under a new nonce; the builders leave no type without any
Update(r) ==
  /\ nonce <= MaxUpdates
  /\ ~ signalling
  /\ \A t \in Types : r[t] # NoTable /\ \A n \in Names : r[t][n] <= Fresh
  /\ \/ MayRevert
     \/ \A t \in Types, n \in Names : r[t][n] \in {resources[t][n], Fresh} \/ Settled(t)
  /\ resources' = r
  /\ nonce' = nonce + 1
  /\ signalling' = TRUE
  /\ UNCHANGED <<changed, known, client, work, out, down, up, envoyVars>>

\* mutant: the streams are not told
BroadcastNothing ==
  /\ signalling
  /\ signalling' = FALSE
  /\ UNCHANGED <<resources, nonce, changed, known, client, work, out, down, up, envoyVars>>

\* after the lock is released the streams are told
Broadcast ==
  /\ signalling
  /\ signalling' = FALSE
  /\ changed' = TRUE
  /\ UNCHANGED <<resources, nonce, known, client, work, out, down, up, envoyVars>>

---------------------------------------------------------------------------
(* DeltaAggregatedResources *)

\* getDeltaResponse: what envoy lacks and what it has to drop
Delta(t) ==
  [type |-> t, nonce |-> nonce,
   set |-> [n \in Names |-> IF resources[t][n] = client[t][n] THEN 0 ELSE resources[t][n]],
   removed |-> {n \in Names : client[t][n] # 0 /\ resources[t][n] = 0}]

\* mutant: a rejected response is taken for an accepted one
HandleDeltaRequestNack ==
  LET req == Head(up) IN
  /\ work = {} /\ out = NoResponse
  /\ up # <<>>
  /\ up' = Tail(up)
  /\ known' = known \union {req.type}
  /\ client' = [client EXCEPT ![req.type] =
       IF req.nonce = nonce THEN resources[req.type]
       ELSE IF req.type \notin known THEN req.initial ELSE @]
  /\ work' = {req.type}
  /\ UNCHANGED <<resources, nonce, signalling, changed, out, down, envoyVars>>

\* mutant: an accepted response of another nonce counts as well
HandleDeltaRequestAny ==
  LET req == Head(up) IN
  /\ work = {} /\ out = NoResponse
  /\ up # <<>>
  /\ up' = Tail(up)
  /\ known' = known \union {req.type}
  /\ client' = [client EXCEPT ![req.type] =
       IF req.ok /\ req.nonce # 0 THEN resources[req.type]
       ELSE IF req.type \notin known THEN req.initial ELSE @]
  /\ work' = {req.type}
  /\ UNCHANGED <<resources, nonce, signalling, changed, out, down, envoyVars>>

\* mutant: nothing is computed after a request
HandleDeltaRequestIdle ==
  LET req == Head(up) IN
  /\ work = {} /\ out = NoResponse
  /\ up # <<>>
  /\ up' = Tail(up)
  /\ known' = known \union {req.type}
  /\ client' = [client EXCEPT ![req.type] =
       IF req.ok /\ req.nonce = nonce THEN resources[req.type]
       ELSE IF req.type \notin known THEN req.initial ELSE @]
  /\ work' = {req.type} \ known
  /\ UNCHANGED <<resources, nonce, signalling, changed, out, down, envoyVars>>

\* goroutine 2 takes a request: handleDeltaRequest, then a response is computed
HandleDeltaRequest ==
  LET req == Head(up) IN
  /\ work = {} /\ out = NoResponse
  /\ up # <<>>
  /\ up' = Tail(up)
  /\ known' = known \union {req.type}
  /\ client' = [client EXCEPT ![req.type] =
       IF req.ok /\ req.nonce = nonce THEN resources[req.type]
       ELSE IF req.type \notin known THEN req.initial ELSE @]
  /\ work' = {req.type}
  /\ UNCHANGED <<resources, nonce, signalling, changed, out, down, envoyVars>>

\* or the token: a response is computed for every type
HandleChange ==
  /\ work = {} /\ out = NoResponse
  /\ changed
  /\ changed' = FALSE
  /\ work' = Types
  /\ UNCHANGED <<resources, nonce, signalling, known, client, out, down, up, envoyVars>>

\* one response is computed, if envoy has asked for the type and lacks anything
ComputeResponse(t) ==
  /\ t \in work /\ out = NoResponse
  /\ work' = work \ {t}
  /\ out' = IF t \in known /\ (Delta(t).set # NoTable \/ Delta(t).removed # {})
            THEN Delta(t) ELSE NoResponse
  /\ UNCHANGED <<resources, nonce, signalling, changed, known, client, down, up, envoyVars>>

\* mutant: what is not there is sent as well
SendAlways ==
  /\ Len(down) < Cap
  /\ down' = Append(down, out)
  /\ out' = NoResponse
  /\ UNCHANGED <<resources, nonce, signalling, changed, known, client, work, up, envoyVars>>

\* and sent by goroutine 3
Send ==
  /\ out # NoResponse
  /\ Len(down) < Cap
  /\ down' = Append(down, out)
  /\ out' = NoResponse
  /\ UNCHANGED <<resources, nonce, signalling, changed, known, client, work, up, envoyVars>>

---------------------------------------------------------------------------
(* Envoy *)

\* the first request for a type names what envoy already has
Subscribe(t) ==
  /\ t \notin asked
  /\ asked' = asked \union {t}
  /\ up' = Append(up, Request(t, 0, TRUE, envoy[t]))
  /\ UNCHANGED <<serverVars, down, envoy, nacks, breaks>>

\* a response is applied and acknowledged
Accept ==
  LET res == Head(down) IN
  /\ down # <<>>
  /\ down' = Tail(down)
  /\ envoy' = [envoy EXCEPT ![res.type] =
       [n \in Names |-> IF res.set[n] # 0 THEN res.set[n]
                        ELSE IF n \in res.removed THEN 0 ELSE @[n]]]
  /\ up' = Append(up, Request(res.type, res.nonce, TRUE, NoTable))
  /\ UNCHANGED <<serverVars, asked, nacks, breaks>>

\* or rejected
Reject ==
  LET res == Head(down) IN
  /\ nacks < MaxNacks
  /\ nacks' = nacks + 1
  /\ down # <<>>
  /\ down' = Tail(down)
  /\ up' = Append(up, Request(res.type, res.nonce, FALSE, NoTable))
  /\ UNCHANGED <<serverVars, asked, envoy, breaks>>

\* the stream breaks and envoy opens another
Break ==
  /\ breaks < MaxBreaks
  /\ breaks' = breaks + 1
  /\ changed' = FALSE
  /\ known' = {}
  /\ client' = [t \in Types |-> NoTable]
  /\ work' = {}
  /\ out' = NoResponse
  /\ down' = <<>>
  /\ up' = <<>>
  /\ asked' = {}
  /\ UNCHANGED <<resources, nonce, signalling, envoy, nacks>>

---------------------------------------------------------------------------
ServerStep ==
  Broadcast \/ HandleDeltaRequest \/ HandleChange \/ Send \/ \E t \in Types : ComputeResponse(t)
EnvoyStep == Accept \/ \E t \in Types : Subscribe(t)

Next ==
  \/ \E r \in [Types -> Table] : Update(r)
  \/ ServerStep \/ EnvoyStep \/ Reject \/ Break

Spec == Init /\ [][Next]_vars

\* The goroutines of the stream and envoy keep going; select takes a waiting
\* token sooner or later.
Fairness ==
  /\ WF_vars(Broadcast) /\ WF_vars(Send) /\ WF_vars(HandleDeltaRequest)
  /\ SF_vars(HandleChange)
  /\ \A t \in Types : WF_vars(ComputeResponse(t)) /\ WF_vars(Subscribe(t))
  /\ WF_vars(Accept)

FairSpec == Spec /\ Fairness

---------------------------------------------------------------------------
(* Properties *)

Response == [type : Types, nonce : Nat, set : Table, removed : SUBSET Names]

\* the types of the variables
TypeOK ==
  /\ resources \in [Types -> Table]
  /\ nonce \in Nat
  /\ signalling \in BOOLEAN /\ changed \in BOOLEAN
  /\ known \subseteq Types
  /\ client \in [Types -> Table]
  /\ work \subseteq Types
  /\ out \in Response \union {NoResponse}
  /\ down \in Seq(Response)
  /\ up \in Seq([type : Types, nonce : Nat, ok : BOOLEAN, initial : Table])
  /\ asked \subseteq Types
  /\ envoy \in [Types -> Table]
  /\ nacks \in Nat /\ breaks \in Nat

\* A subscribed type whose resources differ from what the manager believes envoy
\* has is never forgotten: a signal, a response or an answer to one is under way
\* ("If any changes are made they will be pushed to any listening streams",
\* xdsmgr.go:220).
NothingForgotten ==
  \A t \in known : client[t] # resources[t] => UnderWay(t)

\* Once the configuration no longer changes, envoy ends up with its resources,
\* over rejected responses and broken streams (xdsmgr.go,
\* DeltaAggregatedResources).
Converges == <>[](envoy = resources)

\* The manager never believes in a version that envoy neither has nor is about
\* to be sent: with nothing under way for a type, its belief is the truth
\* (xdsmgr.go, handleDeltaRequest).
BeliefTrue == \A t \in known : ~ UnderWay(t) => envoy[t] = client[t]
===========================================================================
