------------------------- MODULE XdsManagerProofs -------------------------
(* Proofs about XdsManager, for every set of types, names and versions. *)
EXTENDS XdsManager, TLAPS

\* the parts of a request, and what appending and dropping do to a sequence
ReqType == [type : Types, nonce : Nat, ok : BOOLEAN, initial : Table]

\* A sequence keeps its elements but the first when the first is dropped.
LEMMA TailKeeps ==
  ASSUME NEW S, NEW q \in Seq(S), q # <<>>
  PROVE  /\ Tail(q) \in Seq(S) /\ Head(q) \in S
         /\ \A i \in DOMAIN q : i = 1 \/ (i - 1 \in DOMAIN Tail(q) /\ Tail(q)[i - 1] = q[i])
         /\ q[1] = Head(q)
  OBVIOUS

\* A sequence keeps its elements when another is appended, which is the last.
LEMMA AppendKeeps ==
  ASSUME NEW S, NEW q \in Seq(S), NEW e \in S
  PROVE  /\ Append(q, e) \in Seq(S)
         /\ \A i \in DOMAIN q : i \in DOMAIN Append(q, e) /\ Append(q, e)[i] = q[i]
         /\ Len(q) + 1 \in DOMAIN Append(q, e) /\ Append(q, e)[Len(q) + 1] = e
  OBVIOUS

\* The response computed for a type is well formed (getDeltaResponse).
LEMMA DeltaType == ASSUME TypeOK, NEW t \in Types PROVE Delta(t) \in Response
  BY DEF TypeOK, Delta, Response, Table

\* A response without contents means that the manager believes envoy to have
\* the current resources of the type (getDeltaResponse).
LEMMA DeltaEmpty ==
  ASSUME TypeOK, NEW t \in Types, Delta(t).set = NoTable, Delta(t).removed = {}
  PROVE  client[t] = resources[t]
<1>1. ASSUME NEW n \in Names PROVE client[t][n] = resources[t][n]
  BY <1>1, Zenon DEF Delta, NoTable
<1> QED
  BY <1>1 DEF TypeOK, Table

\* Every step of the manager, the stream and envoy preserves the types.
LEMMA TypeStep == ASSUME TypeOK, [Next]_vars PROVE TypeOK'
<1> USE DEF TypeOK, serverVars, envoyVars
<1>1. ASSUME NEW r \in [Types -> Table], Update(r) PROVE TypeOK'
  BY <1>1 DEF Update
<1>2. CASE Broadcast
  BY <1>2, Zenon DEF Broadcast
<1>3. CASE HandleDeltaRequest
  <2>1. Head(up) \in ReqType /\ Tail(up) \in Seq(ReqType)
    BY <1>3, TailKeeps, Zenon DEF HandleDeltaRequest, ReqType
  <2> QED
    BY <1>3, <2>1, Zenon DEF HandleDeltaRequest, ReqType
<1>4. CASE HandleChange
  BY <1>4, Zenon DEF HandleChange
<1>5. ASSUME NEW t \in Types, ComputeResponse(t) PROVE TypeOK'
  BY <1>5, DeltaType, Zenon DEF ComputeResponse
<1>6. CASE Send
  BY <1>6, AppendKeeps, Zenon DEF Send
<1>7. ASSUME NEW t \in Types, Subscribe(t) PROVE TypeOK'
  <2>1. Request(t, 0, TRUE, envoy[t]) \in ReqType
    BY Zenon DEF Request, ReqType
  <2> QED
    BY <1>7, <2>1, AppendKeeps, Zenon DEF Subscribe, ReqType
<1>8. CASE Accept
  <2>1. Head(down) \in Response /\ Tail(down) \in Seq(Response)
    BY <1>8, TailKeeps, Zenon DEF Accept
  <2>2. Request(Head(down).type, Head(down).nonce, TRUE, NoTable) \in ReqType
    BY <2>1, Zenon DEF Request, ReqType, Response, NoTable, Table
  <2>3. up' \in Seq(ReqType)
    BY <1>8, <2>2, AppendKeeps, Zenon DEF Accept, ReqType
  <2>4. envoy' \in [Types -> Table]
    BY <1>8, <2>1, Zenon DEF Accept, Response, Table
  <2> QED
    BY <1>8, <2>1, <2>3, <2>4, Zenon DEF Accept, ReqType
<1>9. CASE Reject
  <2>1. Head(down) \in Response /\ Tail(down) \in Seq(Response)
    BY <1>9, TailKeeps, Zenon DEF Reject
  <2>2. Request(Head(down).type, Head(down).nonce, FALSE, NoTable) \in ReqType
    BY <2>1, Zenon DEF Request, ReqType, Response, NoTable, Table
  <2>3. up' \in Seq(ReqType)
    BY <1>9, <2>2, AppendKeeps, Zenon DEF Reject, ReqType
  <2>4. nacks' \in Nat /\ UNCHANGED <<resources, nonce, signalling, changed, known, client, work, out, asked, envoy, breaks>>
    BY <1>9 DEF Reject
  <2>5. down' \in Seq(Response)
    BY <1>9, <2>1, Zenon DEF Reject
  <2> QED
    BY <2>3, <2>4, <2>5, Zenon DEF ReqType
<1>10. CASE Break
  <2>1. NoTable \in Table
    BY Zenon DEF NoTable, Table
  <2>2. client' \in [Types -> Table] /\ down' \in Seq(Response) /\ up' \in Seq(ReqType)
    BY <1>10, <2>1 DEF Break
  <2>3. changed' \in BOOLEAN /\ signalling' \in BOOLEAN /\ out' \in Response \union {NoResponse}
    BY <1>10, Zenon DEF Break
  <2>4. resources' \in [Types -> Table] /\ envoy' \in [Types -> Table] /\ nonce' \in Nat /\ nacks' \in Nat /\ breaks' \in Nat
    BY <1>10 DEF Break
  <2>5. known' \subseteq Types /\ work' \subseteq Types /\ asked' \subseteq Types
    BY <1>10, Zenon DEF Break
  <2> QED
    BY <2>2, <2>3, <2>4, <2>5, Zenon DEF ReqType
<1>11. CASE UNCHANGED vars
  BY <1>11, Zenon DEF vars
<1> QED
  BY <1>1, <1>2, <1>3, <1>4, <1>5, <1>6, <1>7, <1>8, <1>9, <1>10, <1>11, Zenon DEF Next, ServerStep, EnvoyStep

\* The initial state has the types.
LEMMA InitType == Init => TypeOK
<1> SUFFICES ASSUME Init PROVE TypeOK
  BY Zenon
<1>1. NoTable \in Table
  BY Zenon DEF NoTable, Table
<1>2. up \in Seq(ReqType) /\ down \in Seq(Response)
  BY DEF Init
<1>3. signalling \in BOOLEAN /\ changed \in BOOLEAN /\ out \in Response \union {NoResponse}
  BY Zenon DEF Init
<1>4. /\ resources \in [Types -> Table] /\ client \in [Types -> Table] /\ envoy \in [Types -> Table]
      /\ nonce \in Nat /\ nacks \in Nat /\ breaks \in Nat
  BY <1>1, Zenon DEF Init
<1>5. known \subseteq Types /\ work \subseteq Types /\ asked \subseteq Types
  BY Zenon DEF Init
<1> QED
  BY <1>2, <1>3, <1>4, <1>5, Zenon DEF TypeOK, ReqType

\* The variables keep their types (xdsmgr.go, DeltaAggregatedResources and Update).
THEOREM TypeCorrect == Spec => []TypeOK
  BY InitType, TypeStep, PTL DEF Spec

---------------------------------------------------------------------------
\* A type whose messages are kept by a step stays under way.
LEMMA StaysUnderWay ==
  ASSUME NEW t \in Types, UnderWay(t),
         signalling => signalling' \/ changed',
         changed => changed',
         t \in work => t \in work',
         out.type = t => out'.type = t \/ \E i \in DOMAIN down' : down'[i].type = t,
         \A i \in DOMAIN down : down[i].type = t =>
            \/ \E j \in DOMAIN down' : down'[j].type = t
            \/ \E j \in DOMAIN up' : up'[j].type = t,
         \A i \in DOMAIN up : up[i].type = t => \E j \in DOMAIN up' : up'[j].type = t
  PROVE  UnderWay(t)'
  BY Zenon DEF UnderWay

\* Every step preserves NothingForgotten.
LEMMA ForgetsNothing == ASSUME TypeOK, NothingForgotten, [Next]_vars PROVE NothingForgotten'
<1> USE DEF serverVars, envoyVars
<1> SUFFICES ASSUME NEW t \in known', client'[t] # resources'[t] PROVE UnderWay(t)'
  BY Zenon DEF NothingForgotten
<1>t. t \in Types
  BY TypeStep, Zenon DEF TypeOK
<1>k. t \in known /\ client[t] # resources[t] => UnderWay(t)
  BY Zenon DEF NothingForgotten
<1>1. ASSUME NEW r \in [Types -> Table], Update(r) PROVE UnderWay(t)'
  BY <1>1, Zenon DEF Update, UnderWay
<1>2. CASE Broadcast
  BY <1>2, Zenon DEF Broadcast, UnderWay
<1>3. CASE HandleDeltaRequest
  <2>1. Head(up).type = t => UnderWay(t)'
    BY <1>3, Zenon DEF HandleDeltaRequest, UnderWay
  <2>2. ASSUME Head(up).type # t PROVE UnderWay(t)'
    <3>1. t \in known /\ client'[t] = client[t] /\ resources' = resources
      BY <1>3, <1>t, <2>2, Zenon DEF HandleDeltaRequest, TypeOK
    <3>2. \A i \in DOMAIN up : up[i].type = t => \E j \in DOMAIN up' : up'[j].type = t
      <4>1. up \in Seq(ReqType) /\ up # <<>> /\ up' = Tail(up)
        BY <1>3, Zenon DEF HandleDeltaRequest, TypeOK, ReqType
      <4>2. /\ up[1] = Head(up)
            /\ \A i \in DOMAIN up : i = 1 \/ (i - 1 \in DOMAIN up' /\ up'[i - 1] = up[i])
        BY <4>1, TailKeeps, Zenon
      <4> QED
        BY <2>2, <4>2, Zenon
    <3>3. out.type # t
      BY <1>3, <1>t, TypesAssumption, Zenon DEF HandleDeltaRequest, NoResponse
    <3> QED
      BY <1>3, <1>k, <1>t, <3>1, <3>2, <3>3, StaysUnderWay, Zenon DEF HandleDeltaRequest
  <2> QED
    BY <2>1, <2>2, Zenon
<1>4. CASE HandleChange
  BY <1>4, <1>t, Zenon DEF HandleChange, UnderWay
<1>5. ASSUME NEW u \in Types, ComputeResponse(u) PROVE UnderWay(t)'
  <2>1. t \in known /\ client[t] # resources[t] /\ UNCHANGED <<signalling, changed, down, up>>
    BY <1>5, Zenon DEF ComputeResponse
  <2>2. out.type # t
    BY <1>5, <1>t, TypesAssumption, Zenon DEF ComputeResponse, NoResponse
  <2>3. u # t => (t \in work => t \in work')
    BY <1>5, Zenon DEF ComputeResponse
  <2>4. ASSUME u = t PROVE out'.type = t
    <3>1. Delta(t).set # NoTable \/ Delta(t).removed # {}
      BY <1>t, <2>1, DeltaEmpty, Zenon
    <3>2. out' = Delta(t)
      BY <1>5, <2>1, <2>4, <3>1, Zenon DEF ComputeResponse
    <3> QED
      BY <3>2, Zenon DEF Delta
  <2> QED
    BY <1>k, <2>1, <2>2, <2>3, <2>4, Zenon DEF UnderWay
<1>6. CASE Send
  <2>1. t \in known /\ client[t] # resources[t]
        /\ UNCHANGED <<signalling, changed, work, up>>
    BY <1>6, Zenon DEF Send
  <2>2. out \in Response
    BY <1>6, Zenon DEF Send, TypeOK
  <2>3. /\ \A i \in DOMAIN down : i \in DOMAIN down' /\ down'[i] = down[i]
        /\ Len(down) + 1 \in DOMAIN down' /\ down'[Len(down) + 1] = out
    BY <1>6, <2>2, AppendKeeps DEF Send, TypeOK
  <2> QED
    BY <1>k, <1>t, <2>1, <2>3, StaysUnderWay, Zenon
<1>7. ASSUME NEW u \in Types, Subscribe(u) PROVE UnderWay(t)'
  <2>1. t \in known /\ client[t] # resources[t]
        /\ UNCHANGED <<signalling, changed, work, out, down>>
    BY <1>7, Zenon DEF Subscribe
  <2>2. Request(u, 0, TRUE, envoy[u]) \in ReqType
    BY Zenon DEF Request, ReqType, TypeOK
  <2>3. \A i \in DOMAIN up : i \in DOMAIN up' /\ up'[i] = up[i]
    <3>1. PICK e \in ReqType : up' = Append(up, e)
      BY <1>7, <2>2, Zenon DEF Subscribe
    <3>2. up \in Seq(ReqType)
      BY Zenon DEF TypeOK, ReqType
    <3> QED
      BY <3>1, <3>2, AppendKeeps
  <2> QED
    BY <1>k, <1>t, <2>1, <2>3, StaysUnderWay, Zenon
<1>8. ASSUME NEW ok \in BOOLEAN, down # <<>>, down' = Tail(down),
             up' = Append(up, Request(Head(down).type, Head(down).nonce, ok, NoTable)),
             UNCHANGED serverVars
      PROVE  UnderWay(t)'
  <2>1. t \in known /\ client[t] # resources[t] /\ UNCHANGED <<signalling, changed, work, out>>
    BY <1>8, Zenon
  <2>2. Head(down) \in Response /\ down[1] = Head(down)
        /\ \A i \in DOMAIN down : i = 1 \/ (i - 1 \in DOMAIN down' /\ down'[i - 1] = down[i])
    BY <1>8, TailKeeps, Zenon DEF TypeOK
  <2>3. Request(Head(down).type, Head(down).nonce, ok, NoTable) \in ReqType
    BY <1>8, <2>2, Zenon DEF Request, ReqType, Response, NoTable, Table
  <2>4. /\ \A i \in DOMAIN up : i \in DOMAIN up' /\ up'[i] = up[i]
        /\ Len(up) + 1 \in DOMAIN up'
        /\ up'[Len(up) + 1].type = Head(down).type
    BY <1>8, <2>3, AppendKeeps, SMTT(60) DEF TypeOK, ReqType, Request
  <2> QED
    BY <1>k, <1>t, <2>1, <2>2, <2>4, StaysUnderWay, ZenonT(60)
<1>9. CASE Accept \/ Reject
  BY <1>8, <1>9, Zenon DEF Accept, Reject
<1>10. CASE Break
  BY <1>10, Zenon DEF Break
<1>11. CASE UNCHANGED vars
  BY <1>k, <1>11, Zenon DEF vars, UnderWay
<1> QED
  BY <1>1, <1>2, <1>3, <1>4, <1>5, <1>6, <1>7, <1>9, <1>10, <1>11, Zenon DEF Next, ServerStep, EnvoyStep

\* A change the manager knows of is never forgotten ("If any changes are made
\* they will be pushed to any listening streams", xdsmgr.go:220).
THEOREM NeverForgotten == Spec => []NothingForgotten
<1>1. Init => NothingForgotten
  BY Zenon DEF Init, NothingForgotten
<1> QED
  BY <1>1, InitType, TypeStep, ForgetsNothing, PTL DEF Spec
---------------------------------------------------------------------------
(* What the manager believes of envoy *)

\* the responses under way, and the resources one of them is about
Pending == ({out} \ {NoResponse}) \union {down[i] : i \in DOMAIN down}
Touches(r, n) == r.set[n] # 0 \/ n \in r.removed

\* versions and nonces are numbered as they come up
Bounded ==
  /\ nonce >= 1
  /\ \A t \in Types, n \in Names : resources[t][n] <= nonce /\ client[t][n] <= nonce /\ envoy[t][n] <= nonce
  /\ \A r \in Pending : r.nonce <= nonce /\ \A n \in Names : r.set[n] <= nonce
  /\ \A i \in DOMAIN up : up[i].nonce <= nonce /\ \A n \in Names : up[i].initial[n] <= nonce

\* a belief that envoy does not share, or will not share after a response under
\* way, is out of date, so that the manager still owes envoy a response
Owed ==
  \A t \in known, n \in Names :
    \/ client[t][n] # resources[t][n]
    \/ /\ envoy[t][n] = client[t][n]
       /\ \A r \in Pending : r.type = t /\ Touches(r, n) => r.set[n] = client[t][n]

\* a response of the current nonce makes up all that envoy lacks
Current ==
  \A r \in Pending : r.nonce = nonce =>
    \A n \in Names : IF Touches(r, n) THEN r.set[n] = resources[r.type][n]
                     ELSE client[r.type][n] = resources[r.type][n]

\* messages arrive in the order of their nonces
InOrder ==
  /\ \A i, j \in DOMAIN down : i <= j /\ down[i].nonce = nonce => down[j].nonce = nonce
  /\ \A i \in DOMAIN down : down[i].nonce = nonce => out = NoResponse \/ out.nonce = nonce
  /\ \A i \in DOMAIN up : up[i].nonce = nonce => \A r \in Pending : r.nonce = nonce

\* envoy has what it accepted under the current nonce
Applied ==
  \A i \in DOMAIN up : up[i].ok /\ up[i].nonce = nonce => envoy[up[i].type] = resources[up[i].type]

\* before the first request of a type is handled, it alone is under way
Opening ==
  /\ \A r \in Pending : r.type \in known
  /\ \A i \in DOMAIN up : up[i].type \in known \/ (up[i].nonce = 0 /\ up[i].initial = envoy[up[i].type])

BeliefInv == Bounded /\ Owed /\ Current /\ InOrder /\ Applied /\ Opening

\* The parts of TypeOK about tables and messages: versions are numbers.
LEMMA TableFacts ==
  ASSUME TypeOK
  PROVE  /\ \A T \in Table, n \in Names : T[n] \in Nat
         /\ nonce \in Nat /\ known \subseteq Types
         /\ resources \in [Types -> Table] /\ client \in [Types -> Table] /\ envoy \in [Types -> Table]
         /\ up \in Seq(ReqType) /\ down \in Seq(Response)
         /\ \A i \in DOMAIN up : up[i].type \in Types /\ up[i].nonce \in Nat /\ up[i].initial \in Table
<1>1. ASSUME NEW T \in Table, NEW n \in Names PROVE T[n] \in Nat
  <2>1. T[n] \in Versions \union {0}
    BY Zenon DEF Table
  <2>2. \A v \in Versions \union {0} : v \in Nat
    BY VersionsAssumption
  <2> QED
    BY <2>1, <2>2, Zenon
<1>2. up \in Seq(ReqType)
  BY Zenon DEF TypeOK, ReqType
<1>3. \A i \in DOMAIN up : up[i] \in ReqType
  BY <1>2
<1> QED
  BY <1>1, <1>2, <1>3, Zenon DEF TypeOK, ReqType

\* What is left of a sequence without its first element was in it.
LEMMA TailFrom ==
  ASSUME NEW S, NEW q \in Seq(S), q # <<>>
  PROVE  /\ Head(q) = q[1] /\ 1 \in DOMAIN q
         /\ \A i \in DOMAIN Tail(q) : i \in Nat \ {0} /\ i + 1 \in DOMAIN q /\ Tail(q)[i] = q[i + 1]
  OBVIOUS

\* What a longer sequence holds was in it before, or is what was appended.
LEMMA AppendFrom ==
  ASSUME NEW S, NEW q \in Seq(S), NEW e \in S
  PROVE  \A i \in DOMAIN Append(q, e) :
           \/ i = Len(q) + 1 /\ Append(q, e)[i] = e
           \/ i \in DOMAIN q /\ Append(q, e)[i] = q[i]
  OBVIOUS

\* A response under way is well formed.
LEMMA PendingType == ASSUME TypeOK PROVE Pending \subseteq Response
  BY DEF TypeOK, Pending

\* Nothing of BeliefInv is disturbed by a step that leaves resources, beliefs and
\* messages alone (Broadcast and HandleChange only move the signal).
LEMMA BeliefSame ==
  ASSUME BeliefInv, UNCHANGED <<resources, nonce, known, client, out, down, up, envoy>>
  PROVE  BeliefInv'
  BY DEF BeliefInv, Bounded, Owed, Current, InOrder, Applied, Opening, Pending, Touches

\* New resources under a new nonce leave no message with the current nonce, and a
\* belief that is not settled is out of date for what has changed (Update).
LEMMA BeliefUpdate ==
  ASSUME MayRevert = FALSE, TypeOK, NothingForgotten, BeliefInv, NEW r \in [Types -> Table], Update(r)
  PROVE  BeliefInv'
<1> USE DEF Update, envoyVars
<1>p. Pending' = Pending /\ Pending \subseteq Response
  BY PendingType, Zenon DEF Pending
<1>n. nonce \in Nat /\ nonce' = nonce + 1 /\ \A q \in Pending : q.nonce # nonce' /\ q.nonce \in Nat
  BY <1>p DEF TypeOK, BeliefInv, Bounded, Response
<1>u. \A i \in DOMAIN up : up[i].nonce # nonce'
  BY <1>n DEF TypeOK, BeliefInv, Bounded
<1>d. \A i \in DOMAIN down : down[i] \in Pending
  BY Zenon DEF Pending
<1>1. Bounded'
  <2>1. \A t \in Types, n \in Names : /\ resources'[t][n] <= nonce'
                                      /\ client[t][n] \in Nat /\ client[t][n] <= nonce
                                      /\ envoy[t][n] \in Nat /\ envoy[t][n] <= nonce
    BY TableFacts, Zenon DEF BeliefInv, Bounded, Fresh
  <2>2. \A q \in Pending : q.nonce \in Nat /\ q.nonce <= nonce /\ \A n \in Names : q.set[n] \in Nat /\ q.set[n] <= nonce
    BY <1>p, TableFacts, Zenon DEF BeliefInv, Bounded, Response
  <2>3. \A i \in DOMAIN up : /\ up[i].nonce \in Nat /\ up[i].nonce <= nonce
                             /\ \A n \in Names : up[i].initial[n] \in Nat /\ up[i].initial[n] <= nonce
    <3> SUFFICES ASSUME NEW i \in DOMAIN up
                 PROVE  /\ up[i].nonce \in Nat /\ up[i].nonce <= nonce
                        /\ \A n \in Names : up[i].initial[n] \in Nat /\ up[i].initial[n] <= nonce
      BY Zenon
    <3>1. up[i].nonce \in Nat /\ up[i].initial \in Table
      BY TableFacts, Zenon
    <3> QED
      BY <3>1, TableFacts, Zenon DEF BeliefInv, Bounded
  <2> QED
    BY <1>p, <1>n, <2>1, <2>2, <2>3 DEF Bounded
<1>2. Owed'
  <2> SUFFICES ASSUME NEW t \in known, NEW n \in Names, client[t][n] = r[t][n]
               PROVE  /\ envoy[t][n] = client[t][n]
                      /\ \A q \in Pending : q.type = t /\ Touches(q, n) => q.set[n] = client[t][n]
    BY <1>p, Zenon DEF Owed, Touches
  <2>t. t \in Types
    BY Zenon DEF TypeOK
  <2>1. CASE Settled(t)
    <3>1. client[t] = resources[t]
      BY <2>1, Zenon DEF Settled, NothingForgotten
    <3> QED
      BY <3>1, Zenon DEF BeliefInv, Owed
  <2>2. CASE r[t][n] \in {resources[t][n], Fresh}
    <3>1. client[t][n] # Fresh
      BY <2>t, <1>n, VersionsAssumption DEF BeliefInv, Bounded, Fresh, TypeOK, Table
    <3> QED
      BY <2>2, <3>1, Zenon DEF BeliefInv, Owed
  <2> QED
    BY <2>1, <2>2, <2>t, Zenon
<1>3. Current'
  BY <1>p, <1>n, Zenon DEF Current
<1>4. InOrder'
  BY <1>p, <1>n, <1>u, <1>d, Zenon DEF InOrder
<1>5. Applied'
  BY <1>u, Zenon DEF Applied
<1>6. Opening'
  BY <1>p, Zenon DEF BeliefInv, Opening
<1> QED
  BY <1>1, <1>2, <1>3, <1>4, <1>5, <1>6, Zenon DEF BeliefInv

\* An acknowledgement of the current nonce makes the manager believe in the
\* resources, which envoy runs with; the first request of a type tells it what
\* envoy has (handleDeltaRequest).
LEMMA BeliefRequest == ASSUME TypeOK, BeliefInv, HandleDeltaRequest PROVE BeliefInv'
<1> USE DEF HandleDeltaRequest, envoyVars
<1> DEFINE req == Head(up)
<1>p. Pending' = Pending /\ Pending \subseteq Response
  BY PendingType, Zenon DEF Pending
<1>q. /\ req \in ReqType /\ req = up[1] /\ 1 \in DOMAIN up
      /\ \A i \in DOMAIN up' : i + 1 \in DOMAIN up /\ up'[i] = up[i + 1]
  BY TableFacts, TailFrom, TailKeeps
<1>c. /\ client \in [Types -> Table] /\ req.type \in Types
      /\ \A t \in Types : t # req.type => client'[t] = client[t]
      /\ client'[req.type] = IF req.ok /\ req.nonce = nonce THEN resources[req.type]
                             ELSE IF req.type \notin known THEN req.initial ELSE client[req.type]
      /\ known' = known \union {req.type} /\ known \subseteq Types
  BY <1>q, Zenon DEF TypeOK, ReqType
<1>1. Bounded'
  <2>1. \A t \in Types, n \in Names : client'[t][n] <= nonce
    BY <1>q, <1>c, SMTT(30) DEF BeliefInv, Bounded
  <2> QED
    BY <1>p, <1>q, <2>1, ZenonT(60) DEF BeliefInv, Bounded
<1>2. Owed'
  <2> SUFFICES ASSUME NEW t \in known', NEW n \in Names, client'[t][n] = resources[t][n]
               PROVE  /\ envoy[t][n] = client'[t][n]
                      /\ \A r \in Pending : r.type = t /\ Touches(r, n) => r.set[n] = client'[t][n]
    BY <1>p DEF Owed, Touches
  <2>1. CASE t # req.type \/ (t \in known /\ ~ (req.ok /\ req.nonce = nonce))
    <3>1. t \in known /\ client'[t] = client[t]
      BY <1>c, <2>1, Zenon
    <3> QED
      BY <3>1, ZenonT(60) DEF BeliefInv, Owed
  <2>2. CASE t = req.type /\ req.ok /\ req.nonce = nonce
    <3>1. envoy[t] = resources[t] /\ \A r \in Pending : r.nonce = nonce
      BY <1>q, <2>2, Zenon DEF BeliefInv, Applied, InOrder
    <3> QED
      BY <3>1, Zenon DEF BeliefInv, Current
  <2>3. CASE t = req.type /\ t \notin known /\ ~ (req.ok /\ req.nonce = nonce)
    <3>1. client'[t] = req.initial /\ req.initial = envoy[t] /\ \A r \in Pending : r.type # t
      BY <1>q, <1>c, <2>3, Zenon DEF BeliefInv, Opening
    <3> QED
      BY <3>1, Zenon
  <2> QED
    BY <2>1, <2>2, <2>3, <1>c, Zenon
<1>3. Current'
  <2> SUFFICES ASSUME NEW r \in Pending, r.nonce = nonce, NEW n \in Names
               PROVE  IF Touches(r, n) THEN r.set[n] = resources[r.type][n]
                      ELSE client'[r.type][n] = resources[r.type][n]
    BY <1>p DEF Current, Touches
  <2>1. r.type \in known /\ r.type \in Types
    BY <1>p, Zenon DEF BeliefInv, Opening, Response
  <2>2. client'[r.type] = client[r.type] \/ client'[r.type] = resources[r.type]
    BY <1>c, <2>1, Zenon
  <2> QED
    BY <2>2, Zenon DEF BeliefInv, Current
<1>4. InOrder'
  BY <1>p, <1>q, Zenon DEF BeliefInv, InOrder
<1>5. Applied'
  BY <1>q DEF BeliefInv, Applied
<1>6. Opening'
  BY <1>p, <1>q DEF BeliefInv, Opening
<1> QED
  BY <1>1, <1>2, <1>3, <1>4, <1>5, <1>6, Zenon DEF BeliefInv

\* A response computed from the current resources makes up all that the manager
\* believes envoy to lack (getDeltaResponse).
LEMMA BeliefCompute ==
  ASSUME TypeOK, BeliefInv, NEW t \in Types, ComputeResponse(t), out' # NoResponse PROVE BeliefInv'
<1> USE DEF ComputeResponse, envoyVars
<1>p. Pending' = Pending \union {Delta(t)} /\ out' = Delta(t) /\ t \in known /\ Pending \subseteq Response
  BY PendingType, Zenon DEF Pending
<1>d. /\ Delta(t).type = t /\ Delta(t).nonce = nonce
      /\ \A n \in Names : IF Touches(Delta(t), n) THEN Delta(t).set[n] = resources[t][n]
                          ELSE client[t][n] = resources[t][n]
  BY Zenon DEF Delta, Touches, TypeOK, Table
<1>1. Bounded'
  <2>1. nonce \in Nat /\ \A n \in Names : Delta(t).set[n] <= nonce
    BY SMTT(30) DEF Delta, BeliefInv, Bounded, TypeOK
  <2> QED
    BY <1>p, <1>d, <2>1, SMTT(30) DEF BeliefInv, Bounded
<1>2. Owed'
  BY <1>p, <1>d, SMTT(30) DEF BeliefInv, Owed, Touches
<1>3. Current'
  BY <1>p, <1>d DEF BeliefInv, Current, Touches
<1>4. InOrder'
  BY <1>p, <1>d, Zenon DEF BeliefInv, InOrder
<1>5. Applied'
  BY Zenon DEF BeliefInv, Applied
<1>6. Opening'
  BY <1>p, <1>d, SMTT(30) DEF BeliefInv, Opening
<1> QED
  BY <1>1, <1>2, <1>3, <1>4, <1>5, <1>6, Zenon DEF BeliefInv

\* A response keeps its place behind the ones sent before it (goroutine 3).
LEMMA BeliefSend == ASSUME TypeOK, BeliefInv, Send PROVE BeliefInv'
<1> USE DEF Send, envoyVars
<1>1. /\ \A i \in DOMAIN down' : i = Len(down) + 1 \/ (i \in DOMAIN down /\ down'[i] = down[i])
      /\ Len(down) + 1 \in DOMAIN down' /\ down'[Len(down) + 1] = out
      /\ \A i \in DOMAIN down : i \in DOMAIN down' /\ down'[i] = down[i] /\ i < Len(down) + 1
  <2>1. out \in Response /\ down \in Seq(Response)
    BY Zenon DEF TypeOK
  <2> QED
    BY <2>1
<1>p. Pending' = Pending
  BY <1>1, Zenon DEF Pending
<1>2. InOrder'
  <2>1. \A i, j \in DOMAIN down' : i <= j /\ down'[i].nonce = nonce => down'[j].nonce = nonce
    <3> SUFFICES ASSUME NEW i \in DOMAIN down', NEW j \in DOMAIN down', i <= j, down'[i].nonce = nonce
                 PROVE  down'[j].nonce = nonce
      BY Zenon
    <3>1. CASE j = Len(down) + 1
      BY <1>1, <3>1, Zenon DEF BeliefInv, InOrder
    <3>2. CASE j # Len(down) + 1
      <4>1. j \in DOMAIN down /\ i \in DOMAIN down
        BY <1>1, <3>2 DEF TypeOK
      <4> QED
        BY <1>1, <4>1, Zenon DEF BeliefInv, InOrder
    <3> QED
      BY <3>1, <3>2, Zenon
  <2> QED
    BY <1>p, <2>1, Zenon DEF BeliefInv, InOrder
<1> QED
  BY <1>p, <1>2 DEF BeliefInv, Bounded, Owed, Current, Applied, Opening, Touches

\* The first request of a type names what envoy has (the start of a stream).
LEMMA BeliefSubscribe == ASSUME TypeOK, BeliefInv, NEW t \in Types, Subscribe(t) PROVE BeliefInv'
<1>s. /\ UNCHANGED <<resources, nonce, known, client, out, down, envoy>>
      /\ up' = Append(up, Request(t, 0, TRUE, envoy[t]))
  BY Zenon DEF Subscribe, serverVars
<1>1. PICK req \in ReqType : /\ up' = Append(up, req)
                             /\ req.type = t /\ req.nonce = 0 /\ req.initial = envoy[t]
  <2>1. envoy[t] \in Table
    BY TableFacts, Zenon
  <2>2. Request(t, 0, TRUE, envoy[t]) \in ReqType
    BY <2>1, Zenon DEF Request, ReqType
  <2> QED
    BY <1>s, <2>2, Zenon DEF Request
<1>2. \A i \in DOMAIN up' : up'[i] = req \/ (i \in DOMAIN up /\ up'[i] = up[i])
  BY <1>1, TableFacts, AppendFrom
<1>3. nonce \in Nat /\ nonce >= 1 /\ 0 # nonce
  BY TableFacts DEF BeliefInv, Bounded
<1>p. Pending' = Pending
  BY <1>s, SMTT(30) DEF Pending
<1>4. Bounded'
  <2>1. \A i \in DOMAIN up' : up'[i].nonce <= nonce /\ \A n \in Names : up'[i].initial[n] <= nonce
    BY <1>1, <1>2, <1>3 DEF BeliefInv, Bounded
  <2> QED
    BY <1>s, <1>p, <2>1, Zenon DEF BeliefInv, Bounded
<1>5. InOrder'
  BY <1>s, <1>1, <1>2, <1>3, <1>p, Zenon DEF BeliefInv, InOrder
<1>6. Applied'
  BY <1>s, <1>1, <1>2, <1>3, <1>p, Zenon DEF BeliefInv, Applied
<1>7. Opening'
  BY <1>s, <1>1, <1>2, <1>3, <1>p, Zenon DEF BeliefInv, Opening
<1> QED
  BY <1>s, <1>4, <1>5, <1>6, <1>7, <1>p DEF BeliefInv, Owed, Current, Touches

\* Envoy's answer to the oldest response: accepted, the response makes envoy share
\* a belief that is up to date; an answer with the current nonce leaves only
\* responses of that nonce behind it.
LEMMA BeliefAnswer ==
  ASSUME TypeOK, BeliefInv, Accept \/ Reject PROVE BeliefInv'
<1> USE DEF serverVars
<1> DEFINE res == Head(down)
<1>a. PICK ok \in BOOLEAN :
        /\ down # <<>> /\ down' = Tail(down)
        /\ up' = Append(up, Request(res.type, res.nonce, ok, NoTable))
        /\ UNCHANGED serverVars
        /\ IF ok THEN Accept ELSE UNCHANGED envoy
  BY Zenon DEF Accept, Reject
<1>h. /\ res \in Pending /\ res \in Response /\ res = down[1] /\ 1 \in DOMAIN down
      /\ \A i \in DOMAIN down' : i + 1 \in DOMAIN down /\ down'[i] = down[i + 1] /\ i \in Nat \ {0}
  BY <1>a DEF TypeOK, Pending
<1>p. Pending' \subseteq Pending /\ Pending \subseteq Response
  BY <1>a, <1>h, PendingType DEF Pending
<1>k. res.type \in known /\ res.type \in Types
  BY <1>h, Zenon DEF BeliefInv, Opening, Response
<1>u. /\ \A i \in DOMAIN up' : i = Len(up) + 1 \/ (i \in DOMAIN up /\ up'[i] = up[i])
      /\ up'[Len(up) + 1] = Request(res.type, res.nonce, ok, NoTable)
  <2>1. Request(res.type, res.nonce, ok, NoTable) \in ReqType /\ up \in Seq(ReqType)
    BY <1>h, Zenon DEF TypeOK, ReqType, Request, Response, NoTable, Table
  <2> QED
    BY <1>a, <2>1
<1>n. res.nonce = nonce => \A r \in Pending : r.nonce = nonce
  BY <1>h, SMTT(30) DEF BeliefInv, InOrder, Pending, TypeOK
<1>e. \A t \in Types, n \in Names :
        \/ envoy'[t][n] = envoy[t][n]
        \/ ok /\ t = res.type /\ Touches(res, n) /\ envoy'[t][n] = res.set[n]
  <2>1. CASE ok
    BY <1>a, <1>k, <2>1, TableFacts, SMTT(60) DEF Accept, Touches
  <2>2. CASE ~ ok
    BY <1>a, <2>2, Zenon
  <2> QED
    BY <2>1, <2>2, Zenon
<1>x. ok => \A n \in Names : Touches(res, n) => envoy'[res.type][n] = res.set[n]
  BY <1>a, <1>k DEF Accept, Touches, TypeOK, Table
<1>t. envoy' \in [Types -> Table]
  BY TypeStep, SMTT(30) DEF TypeOK, Next, EnvoyStep
<1>1. Bounded'
  <2>1. \A t \in Types, n \in Names : envoy'[t][n] <= nonce
    BY <1>e, <1>h, ZenonT(60) DEF BeliefInv, Bounded
  <2>2. \A i \in DOMAIN up' : up'[i].nonce <= nonce /\ \A n \in Names : up'[i].initial[n] <= nonce
    BY <1>u, <1>h, TableFacts DEF BeliefInv, Bounded, Request, NoTable
  <2> QED
    BY <1>a, <1>p, <2>1, <2>2, Zenon DEF BeliefInv, Bounded
<1>2. Owed'
  BY <1>a, <1>e, <1>h, <1>p DEF BeliefInv, Owed, Touches, TypeOK
<1>3. Current'
  BY <1>a, <1>p, Zenon DEF BeliefInv, Current, Touches
<1>4. InOrder'
  <2>1. \A i, j \in DOMAIN down' : i <= j /\ down'[i].nonce = nonce => down'[j].nonce = nonce
    BY <1>h DEF BeliefInv, InOrder
  <2>2. \A i \in DOMAIN down' : down'[i].nonce = nonce => out = NoResponse \/ out.nonce = nonce
    BY <1>h, Zenon DEF BeliefInv, InOrder
  <2>3. \A i \in DOMAIN up' : up'[i].nonce = nonce => \A r \in Pending : r.nonce = nonce
    BY <1>u, <1>n DEF BeliefInv, InOrder, Request
  <2> QED
    BY <1>a, <1>p, <2>1, <2>2, <2>3, Zenon DEF InOrder
<1>5. Applied'
  <2> SUFFICES ASSUME NEW i \in DOMAIN up', up'[i].ok, up'[i].nonce = nonce, NEW n \in Names
               PROVE  envoy'[up'[i].type][n] = resources[up'[i].type][n]
    <3>1. \A j \in DOMAIN up' : up'[j].type \in Types
      BY <1>k, <1>u, TableFacts DEF Request
    <3> QED
      BY <1>a, <1>t, <3>1, TableFacts DEF Applied, Table
  <2>1. CASE i = Len(up) + 1
    <3>1. up'[i].type = res.type /\ res.nonce = nonce /\ ok
      BY <1>u, <2>1 DEF Request
    <3>2. CASE Touches(res, n)
      BY <1>h, <1>x, <3>1, <3>2 DEF BeliefInv, Current
    <3>3. CASE ~ Touches(res, n)
      <4>1. client[res.type][n] = resources[res.type][n]
        BY <1>h, <3>1, <3>3, Zenon DEF BeliefInv, Current
      <4>2. envoy[res.type][n] = client[res.type][n]
        BY <1>k, <4>1, Zenon DEF BeliefInv, Owed
      <4> QED
        BY <1>e, <1>k, <3>1, <3>3, <4>1, <4>2, Zenon
    <3> QED
      BY <3>2, <3>3, Zenon
  <2>2. CASE i # Len(up) + 1
    <3>1. i \in DOMAIN up /\ up'[i] = up[i] /\ up[i].type \in Types
      BY <1>u, <2>2, TableFacts, Zenon
    <3>2. envoy[up[i].type] = resources[up[i].type] /\ res.nonce = nonce
      BY <1>h, <3>1, Zenon DEF BeliefInv, Applied, InOrder
    <3> QED
      BY <1>e, <1>h, <3>1, <3>2 DEF BeliefInv, Current
  <2> QED
    BY <2>1, <2>2, Zenon
<1>6. Opening'
  <2>1. \A t \in Types \ known : envoy'[t] = envoy[t]
    BY <1>a, <1>k, Zenon DEF Accept, TypeOK
  <2>2. \A i \in DOMAIN up : up[i].type \in Types
    BY TableFacts, Zenon
  <2> QED
    BY <1>a, <1>k, <1>p, <1>u, <2>1, <2>2, SMTT(60) DEF BeliefInv, Opening, Request
<1> QED
  BY <1>1, <1>2, <1>3, <1>4, <1>5, <1>6, Zenon DEF BeliefInv

\* Without reverts every step of the manager, the stream and envoy preserves
\* BeliefInv.
LEMMA BeliefStep ==
  ASSUME MayRevert = FALSE, TypeOK, NothingForgotten, BeliefInv, [Next]_vars PROVE BeliefInv'
<1>1. ASSUME NEW r \in [Types -> Table], Update(r) PROVE BeliefInv'
  BY <1>1, BeliefUpdate, Zenon
<1>2. CASE Broadcast \/ HandleChange
  BY <1>2, BeliefSame, Zenon DEF Broadcast, HandleChange, envoyVars
<1>3. CASE HandleDeltaRequest
  BY <1>3, BeliefRequest, Zenon
<1>4. ASSUME NEW t \in Types, ComputeResponse(t) PROVE BeliefInv'
  BY <1>4, BeliefCompute, BeliefSame, Zenon DEF ComputeResponse, envoyVars
<1>5. CASE Send
  BY <1>5, BeliefSend, Zenon
<1>6. ASSUME NEW t \in Types, Subscribe(t) PROVE BeliefInv'
  BY <1>6, BeliefSubscribe, Zenon
<1>7. CASE Accept \/ Reject
  BY <1>7, BeliefAnswer, SMTT(30)
<1>8. CASE Break
  <2>1. Pending' = {} /\ known' = {} /\ up' = <<>> /\ down' = <<>> /\ UNCHANGED <<resources, nonce, envoy>>
        /\ client' = [t \in Types |-> NoTable]
    BY <1>8 DEF Break, Pending
  <2>2. Bounded'
    BY <2>1 DEF BeliefInv, Bounded, NoTable, TypeOK
  <2> QED
    BY <2>1, <2>2 DEF BeliefInv, Owed, Current, InOrder, Applied, Opening
<1>9. CASE UNCHANGED vars
  BY <1>9, BeliefSame, Zenon DEF vars, serverVars, envoyVars
<1> QED
  BY <1>1, <1>2, <1>3, <1>4, <1>5, <1>6, <1>7, <1>8, <1>9, Zenon DEF Next, ServerStep, EnvoyStep

\* While no resource goes back to what it was before envoy has answered for it, the
\* manager's belief about a type with nothing under way is what envoy runs with
\* (xdsmgr.go, handleDeltaRequest).
THEOREM BeliefKept == ASSUME MayRevert = FALSE PROVE Spec => []BeliefTrue
<1>1. Init => BeliefInv
  <2> SUFFICES ASSUME Init PROVE BeliefInv
    BY Zenon
  <2>1. Pending = {} /\ nonce = 1 /\ up = <<>> /\ down = <<>> /\ known = {}
    BY DEF Init, Pending
  <2>2. Bounded
    BY <2>1 DEF Init, Bounded, NoTable
  <2> QED
    BY <2>1, <2>2 DEF BeliefInv, Owed, Current, InOrder, Applied, Opening
<1>2. ASSUME TypeOK, NothingForgotten, BeliefInv PROVE BeliefTrue
  <2> SUFFICES ASSUME NEW t \in known, ~ UnderWay(t), NEW n \in Names PROVE envoy[t][n] = client[t][n]
    BY <1>2, TableFacts DEF BeliefTrue, Table
  <2>1. client[t] = resources[t]
    BY <1>2, Zenon DEF NothingForgotten
  <2> QED
    BY <1>2, <2>1, Zenon DEF BeliefInv, Owed
<1>3. Init => NothingForgotten
  BY Zenon DEF Init, NothingForgotten
<1> QED
  BY <1>1, <1>2, <1>3, InitType, TypeStep, ForgetsNothing, BeliefStep, PTL DEF Spec
===========================================================================
