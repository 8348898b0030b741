------------------------- MODULE DataBrokerProofs -------------------------
(***************************************************************************)
(* The inductive invariant of DataBroker holds for every number of         *)
(* clients, syncers, keys, versions, restarts and broken connections:      *)
(* the facts about its operators, the steps of the broker, which change    *)
(* the histories, the steps that leave them alone (calls, expiry, streams, *)
(* Syncer.init), the steps of Syncer.sync, and the theorems that follow.   *)
(* Then what the broker promises its handlers: no Put is missed by a       *)
(* waiting stream, no view goes back, and DataBroker implements            *)
(* RecordReplica: every step of the broker, of a stream or of a syncer is  *)
(* one step of the abstract copies or leaves them as they are.             *)
(***************************************************************************)
EXTENDS DataBroker, TLAPS

\* the bounds on restarts and configuration changes keep cur a backend
BoundsInv ==
  /\ restarts <= MaxRestarts
  /\ restarts < cur
  /\ cur - 1 - restarts <= MaxUpdates

\* what a backend holds: its history has one entry per version, the lookup of
\* the current backend is the last of them, later backends are untouched
BackendInv ==
  \A b \in Backend :
    /\ Len(states[b]) = lastVersion[b]
    /\ b <= cur => lastVersion[b] >= 1
    /\ b = cur => lookup[b] = StateAt(states[b], lastVersion[b])
    /\ b > cur => states[b] = <<>>

\* r is the Put numbered r.version of the backend with history h
IsPut(h, r) ==
  /\ r.version \in 1..Len(h)
  /\ StateAt(h, r.version) = Apply(StateAt(h, r.version - 1), r)

ChangesInv ==
  \A b \in Backend : \A r \in changes[b] : IsPut(states[b], r)

OpInv == \A c \in Clients : op[c] <= cur

\* a stream belongs to a syncing syncer and carries Puts of its backend
StreamInv ==
  \A s \in Syncers :
    /\ phase[s] # "syncing" => stream[s] = "closed" /\ bound[s] = 0 /\ wire[s] = <<>>
    /\ stream[s] # "send" => ready[s] = {}
    /\ phase[s] = "syncing" =>
         /\ serverVersion[s] \in 1..cur
         /\ bound[s] = serverVersion[s]
         /\ stream[s] # "closed"
         /\ \A r \in ready[s] : IsPut(states[bound[s]], r)
         /\ \A i \in 1..Len(wire[s]) : IsPut(states[bound[s]], wire[s][i])

\* a snapshot under way is no older than what is shown, and true while current
SnapshotInv ==
  \A s \in Syncers :
    /\ phase[s] \in {"latest", "received", "cleared"} => serverVersion[s] = 0
    /\ phase[s] = "latest" => asked[s] \in 1..cur /\ shown[s].backend <= asked[s]
    /\ phase[s] \in {"received", "cleared"} =>
         /\ latest[s].serverVersion \in 1..cur
         /\ latest[s].recordVersion \in 1..Len(states[latest[s].serverVersion])
         /\ shown[s].backend <= latest[s].serverVersion
         /\ shown[s].backend = latest[s].serverVersion =>
              shown[s].version <= latest[s].recordVersion
         /\ latest[s].serverVersion = cur =>
              latest[s].records = Filtered(s, StateAt(states[cur], latest[s].recordVersion))

\* what is shown is a version some backend has reached, that of the syncer
ShownInv ==
  \A s \in Syncers :
    /\ shown[s].backend <= cur
    /\ shown[s].backend # 0 => shown[s].version \in 1..Len(states[shown[s].backend])
    /\ serverVersion[s] # 0 =>
         /\ shown[s].backend = serverVersion[s]
         /\ shown[s].version = recordVersion[s]

IInv == /\ TypeOK /\ BoundsInv /\ BackendInv /\ ChangesInv /\ OpInv /\ StreamInv /\ SnapshotInv
        /\ ShownInv /\ ReplicaConsistent

---------------------------------------------------------------------------
(* The operators *)

LEMMA BackendsNat == MaxBackends \in Nat /\ MaxBackends >= 1
BY BoundsAssumption DEF MaxBackends

LEMMA TableFacts ==
  /\ Empty \in Table
  /\ \A t \in Table, r \in Record : Apply(t, r) \in Table
  /\ \A s \in Syncers, t \in Table : Filtered(s, t) \in Table
BY Zenon DEF Empty, Table, Record, Apply, Filtered

LEMMA ServerVersionFacts ==
  /\ ServerVersionRecord \in Record
  /\ ServerVersionRecord.version = 1
  /\ FirstTable \in Table
  /\ FirstTable = Apply(Empty, ServerVersionRecord)
<1>1. ServerVersionRecord \in Record /\ ServerVersionRecord.version = 1
  BY KeysAssumption, Zenon DEF ServerVersionRecord, Record
<1> QED
  BY <1>1, TableFacts, Zenon DEF FirstTable

LEMMA InitInv == Init => IInv
<1> SUFFICES ASSUME Init PROVE IInv
  BY Zenon
<1> USE BackendsNat, ServerVersionFacts, TableFacts DEF Init
<1>1. TypeOK
  BY DEF TypeOK, Backend, Nothing
<1>2. BoundsInv
  BY BoundsAssumption DEF BoundsInv
<1>3. BackendInv
  BY DEF BackendInv, Backend, StateAt
<1>4. ChangesInv
  BY DEF ChangesInv, Backend, IsPut, StateAt
<1>5. OpInv
  BY DEF OpInv
<1>6. StreamInv
  BY Zenon DEF StreamInv
<1>7. SnapshotInv
  BY Zenon DEF SnapshotInv
<1>8. ShownInv
  BY DEF ShownInv
<1>9. ReplicaConsistent
  BY DEF ReplicaConsistent
<1> QED
  BY <1>1, <1>2, <1>3, <1>4, <1>5, <1>6, <1>7, <1>8, <1>9, Zenon DEF IInv

---------------------------------------------------------------------------
(* Histories only grow *)

\* a step that keeps every backend's history as a prefix of the new one
Grows ==
  \A b \in Backend :
    /\ Len(states[b]) <= Len(states'[b])
    /\ \A v \in 1..Len(states[b]) : states'[b][v] = states[b][v]

LEMMA GrowsFacts ==
  ASSUME NEW h \in Seq(Table), NEW g \in Seq(Table), Len(h) <= Len(g),
         \A v \in 1..Len(h) : g[v] = h[v]
  PROVE  /\ \A v \in 0..Len(h) : StateAt(g, v) = StateAt(h, v)
         /\ \A r \in Record : IsPut(h, r) => IsPut(g, r)
<1>1. Len(h) \in Nat /\ Len(g) \in Nat
  OBVIOUS
<1>2. \A v \in 0..Len(h) : StateAt(g, v) = StateAt(h, v)
  BY <1>1 DEF StateAt
<1>3. ASSUME NEW r \in Record, IsPut(h, r) PROVE IsPut(g, r)
  <2>1. r.version \in 1..Len(h) /\ r.version - 1 \in 0..Len(h)
    BY <1>1, <1>3 DEF IsPut, Record
  <2>2. StateAt(g, r.version) = StateAt(h, r.version)
    BY <1>1, <1>2, <2>1
  <2>3. StateAt(g, r.version - 1) = StateAt(h, r.version - 1)
    BY <1>2, <2>1, Zenon
  <2> QED
    BY <1>1, <1>3, <2>1, <2>2, <2>3 DEF IsPut
<1> QED
  BY <1>2, <1>3, Zenon

LEMMA HistoryFacts ==
  ASSUME TypeOK, TypeOK', Grows, NEW x \in Backend
  PROVE  /\ Len(states[x]) \in Nat /\ Len(states'[x]) \in Nat
         /\ Len(states[x]) <= Len(states'[x])
         /\ \A v \in 0..Len(states[x]) : StateAt(states'[x], v) = StateAt(states[x], v)
         /\ \A r \in Record : IsPut(states[x], r) => IsPut(states'[x], r)
<1>1. states[x] \in Seq(Table) /\ states'[x] \in Seq(Table)
  BY Zenon DEF TypeOK
<1> QED
  BY <1>1, GrowsFacts DEF Grows

\* a step of the broker that changes no syncer and no stream but its signal
LEMMA BrokerStepInv ==
  ASSUME IInv, TypeOK', Grows, cur' \in {cur, cur + 1},
         UNCHANGED <<syncerVars, handlerVars, stream, bound, ready, wire>>
  PROVE  StreamInv' /\ SnapshotInv' /\ ShownInv' /\ ReplicaConsistent'
<1> USE DEF syncerVars, handlerVars
<1>a. /\ TypeOK /\ StreamInv /\ SnapshotInv /\ ShownInv /\ ReplicaConsistent
  BY Zenon DEF IInv
<1>b. cur \in Backend /\ cur' \in Backend /\ cur <= cur'
  BY <1>a, BackendsNat DEF TypeOK, Backend
<1>c. \A x : x \in 1..cur => x \in Backend /\ x \in 1..cur'
  BY <1>b, BackendsNat DEF Backend
<1>d. \A x \in Backend :
         /\ Len(states[x]) \in Nat /\ Len(states'[x]) \in Nat
         /\ Len(states[x]) <= Len(states'[x])
         /\ \A v \in 0..Len(states[x]) : StateAt(states'[x], v) = StateAt(states[x], v)
         /\ \A r \in Record : IsPut(states[x], r) => IsPut(states'[x], r)
  BY <1>a, HistoryFacts, Zenon
<1>1. StreamInv'
  <2> SUFFICES ASSUME NEW s \in Syncers, phase[s] = "syncing"
               PROVE  /\ serverVersion[s] \in 1..cur'
                      /\ \A r \in ready[s] : IsPut(states'[bound[s]], r)
                      /\ \A i \in 1..Len(wire[s]) : IsPut(states'[bound[s]], wire[s][i])
    BY <1>a, Zenon DEF StreamInv
  <2>1. serverVersion[s] \in 1..cur /\ bound[s] = serverVersion[s]
    BY <1>a, Zenon DEF StreamInv
  <2>2. bound[s] \in Backend /\ bound[s] \in 1..cur'
    BY <1>c, <2>1, Zenon
  <2>3. \A r \in ready[s] : r \in Record /\ IsPut(states[bound[s]], r)
    BY <1>a, Zenon DEF StreamInv, TypeOK
  <2>4. \A i \in 1..Len(wire[s]) : wire[s][i] \in Record /\ IsPut(states[bound[s]], wire[s][i])
    <3>1. wire[s] \in Seq(Record)
      BY <1>a, Zenon DEF TypeOK
    <3> QED
      BY <1>a, <3>1 DEF StreamInv
  <2> QED
    BY <1>d, <2>1, <2>2, <2>3, <2>4, Zenon
<1>2. SnapshotInv'
  <2> SUFFICES ASSUME NEW s \in Syncers, phase[s] \in {"received", "cleared"}
               PROVE  /\ latest[s].serverVersion \in 1..cur'
                      /\ latest[s].recordVersion \in 1..Len(states'[latest[s].serverVersion])
                      /\ latest[s].serverVersion = cur' =>
                           latest[s].records = Filtered(s, StateAt(states'[cur'], latest[s].recordVersion))
    BY <1>a, <1>c, Zenon DEF SnapshotInv
  <2>1. latest[s].serverVersion \in 1..cur
        /\ latest[s].recordVersion \in 1..Len(states[latest[s].serverVersion])
    BY <1>a, Zenon DEF SnapshotInv
  <2>2. latest[s].serverVersion = cur' => cur' = cur
    BY <1>b, <2>1 DEF Backend
  <2>3. latest[s].serverVersion = cur =>
           latest[s].records = Filtered(s, StateAt(states[cur], latest[s].recordVersion))
    BY <1>a, Zenon DEF SnapshotInv
  <2>4. latest[s].serverVersion \in Backend
    BY <1>c, <2>1, Zenon
  <2>5. latest[s].recordVersion \in 1..Len(states'[latest[s].serverVersion])
    BY <1>d, <2>1, <2>4
  <2>6. StateAt(states'[latest[s].serverVersion], latest[s].recordVersion)
         = StateAt(states[latest[s].serverVersion], latest[s].recordVersion)
    BY <1>d, <2>1, <2>4
  <2> QED
    BY <1>c, <2>1, <2>2, <2>3, <2>5, <2>6, Zenon
<1>3. ShownInv'
  <2> SUFFICES ASSUME NEW s \in Syncers
               PROVE  /\ shown[s].backend <= cur'
                      /\ shown[s].backend # 0 =>
                           shown[s].version \in 1..Len(states'[shown[s].backend])
    BY <1>a, Zenon DEF ShownInv
  <2>1. shown[s].backend \in 0..MaxBackends /\ shown[s].backend <= cur
    BY <1>a, Zenon DEF ShownInv, TypeOK
  <2>2. shown[s].backend <= cur'
    BY <1>b, <2>1, BackendsNat DEF Backend
  <2>3. ASSUME shown[s].backend # 0
        PROVE  shown[s].version \in 1..Len(states'[shown[s].backend])
    <3>1. shown[s].backend \in Backend
      BY <2>1, <2>3, BackendsNat DEF Backend
    <3>2. shown[s].version \in 1..Len(states[shown[s].backend])
      BY <1>a, <2>3, Zenon DEF ShownInv
    <3> QED
      BY <1>d, <3>1, <3>2
  <2> QED
    BY <2>2, <2>3, Zenon
<1>4. ReplicaConsistent'
  <2> SUFFICES ASSUME NEW s \in Syncers, serverVersion[s] = cur' \/ phase[s] = "syncing"
               PROVE  replica[s] = Filtered(s, StateAt(states'[serverVersion[s]], recordVersion[s]))
    BY Zenon DEF ReplicaConsistent
  <2>1. serverVersion[s] \in 0..MaxBackends /\ shown[s].backend <= cur
        /\ (serverVersion[s] # 0 => shown[s].backend = serverVersion[s])
    BY <1>a, Zenon DEF ShownInv, TypeOK
  <2>2. serverVersion[s] = cur \/ phase[s] = "syncing"
    BY <1>b, <2>1, BackendsNat DEF Backend
  <2>3. serverVersion[s] \in 1..cur
    BY <1>a, <1>b, <2>2 DEF StreamInv, Backend
  <2>4. serverVersion[s] \in Backend /\ serverVersion[s] # 0
    BY <1>c, <2>3
  <2>5. recordVersion[s] \in 1..Len(states[serverVersion[s]])
    BY <1>a, <2>4, Zenon DEF ShownInv
  <2>6. StateAt(states'[serverVersion[s]], recordVersion[s])
         = StateAt(states[serverVersion[s]], recordVersion[s])
    BY <1>d, <2>4, <2>5
  <2> QED
    BY <1>a, <2>2, <2>6, Zenon DEF ReplicaConsistent
<1> QED
  BY <1>1, <1>2, <1>3, <1>4, Zenon

LEMMA PutApplyInv == ASSUME IInv, NEW c \in Clients, PutApply(c) PROVE IInv'
<1>0. PICK b : b = op[c]
  BY Zenon
<1>a. /\ TypeOK /\ BoundsInv /\ BackendInv /\ ChangesInv /\ OpInv /\ StreamInv /\ SnapshotInv
      /\ ShownInv /\ ReplicaConsistent
  BY Zenon DEF IInv
<1>b. PICK k \in Keys, del \in BOOLEAN :
        PutRecord(b, [version |-> lastVersion[b] + 1, key |-> k, deleted |-> del])
  BY <1>0, Zenon DEF PutApply
<1>r. PICK r : r = [version |-> lastVersion[b] + 1, key |-> k, deleted |-> del]
  BY Zenon
<1>t. PICK table : table = Apply(StateAt(states[b], lastVersion[b]), r)
  BY Zenon
<1>c. b \in Backend /\ b <= cur
  BY <1>0, <1>a, BackendsNat DEF PutApply, TypeOK, OpInv, Backend
<1>d. lastVersion[b] \in Nat /\ Len(states[b]) = lastVersion[b] /\ states[b] \in Seq(Table)
  BY <1>a, <1>c, Zenon DEF BackendInv, TypeOK
<1>e. r \in Record /\ r.version = lastVersion[b] + 1
  BY <1>d, <1>r DEF Record
<1>f. StateAt(states[b], lastVersion[b]) \in Table
  BY <1>d, TableFacts DEF StateAt
<1>g. table \in Table
  BY <1>e, <1>f, <1>t, TableFacts, Zenon
<1>h. /\ lastVersion' = [lastVersion EXCEPT ![b] = r.version]
      /\ changes' = [changes EXCEPT ![b] = @ \union {r}]
      /\ lookup' = [lookup EXCEPT ![b] = Apply(@, r)]
      /\ states' = [states EXCEPT ![b] = Append(@, table)]
      /\ changed' = [s \in Syncers |-> changed[s] \/ bound[s] = b]
  BY <1>b, <1>c, <1>r, <1>t, <1>a, Zenon DEF PutRecord, Broadcast, TypeOK
<1>i. /\ op' = [op EXCEPT ![c] = 0]
      /\ UNCHANGED <<cur, restarts, syncerVars, handlerVars, stream, bound, version, ready, wire, drops>>
  BY Zenon DEF PutApply
<1>1. TypeOK'
  <2>1. lookup' \in [Backend -> Table]
    BY <1>a, <1>c, <1>e, <1>h, TableFacts, Zenon DEF TypeOK
  <2>2. changes' \in [Backend -> SUBSET Record]
    BY <1>a, <1>c, <1>e, <1>h, Zenon DEF TypeOK
  <2>3. lastVersion' \in [Backend -> Nat]
    BY <1>a, <1>c, <1>d, <1>e, <1>h, SMTT(60) DEF TypeOK
  <2>4. states' \in [Backend -> Seq(Table)]
    BY <1>a, <1>c, <1>d, <1>g, <1>h DEF TypeOK
  <2>5. op' \in [Clients -> 0..MaxBackends]
    BY <1>a, <1>i, BackendsNat DEF TypeOK
  <2>6. changed' \in [Syncers -> BOOLEAN]
    BY <1>h, Zenon
  <2> QED
    BY <1>a, <1>i, <2>1, <2>2, <2>3, <2>4, <2>5, <2>6, Zenon DEF TypeOK, syncerVars, handlerVars
<1>2. /\ Len(states'[b]) = lastVersion[b] + 1
      /\ states'[b][lastVersion[b] + 1] = table
      /\ \A v \in 1..lastVersion[b] : states'[b][v] = states[b][v]
      /\ \A x \in Backend \ {b} : states'[x] = states[x]
  BY <1>a, <1>c, <1>d, <1>g, <1>h DEF TypeOK
<1>3. Grows
  <2>1. \A x \in Backend \ {b} : Len(states[x]) \in Nat /\ states'[x] = states[x]
    BY <1>a, <1>2 DEF TypeOK
  <2> QED
    BY <1>d, <1>2, <2>1, SMTT(60) DEF Grows
<1>4. \A x \in Backend :
        /\ \A v \in 0..Len(states[x]) : StateAt(states'[x], v) = StateAt(states[x], v)
        /\ \A y \in Record : IsPut(states[x], y) => IsPut(states'[x], y)
  BY <1>a, <1>1, <1>3, HistoryFacts, Zenon
<1>5. StateAt(states'[b], lastVersion[b] + 1) = table
  BY <1>d, <1>2 DEF StateAt
<1>6. BoundsInv'
  BY <1>a, <1>i, Zenon DEF BoundsInv
<1>7. BackendInv'
  <2> SUFFICES ASSUME NEW x \in Backend
               PROVE  /\ Len(states'[x]) = lastVersion'[x]
                      /\ x <= cur => lastVersion'[x] >= 1
                      /\ x = cur => lookup'[x] = StateAt(states'[x], lastVersion'[x])
                      /\ x > cur => states'[x] = <<>>
    BY <1>i, Zenon DEF BackendInv
  <2>1. CASE x = b
    <3>1. lastVersion'[x] = lastVersion[b] + 1
      BY <1>a, <1>c, <1>e, <1>h, <2>1, Zenon DEF TypeOK
    <3>2. lookup'[x] = Apply(lookup[b], r)
      BY <1>a, <1>c, <1>h, <2>1, Zenon DEF TypeOK
    <3>3. x = cur => lookup'[x] = table
      BY <1>a, <1>c, <1>t, <2>1, <3>2, Zenon DEF BackendInv
    <3>4. ~ x > cur
      BY <1>a, <1>c, <2>1 DEF TypeOK, Backend
    <3> QED
      BY <1>d, <1>2, <1>5, <2>1, <3>1, <3>3, <3>4
  <2>2. CASE x # b
    <3>1. states'[x] = states[x] /\ lastVersion'[x] = lastVersion[x] /\ lookup'[x] = lookup[x]
      BY <1>a, <1>2, <1>h, <2>2, Zenon DEF TypeOK
    <3>2. Len(states[x]) = lastVersion[x] /\ lastVersion[x] \in Nat
      BY <1>a, Zenon DEF BackendInv, TypeOK
        <3> QED
      BY <1>a, <3>1, <3>2, Zenon DEF BackendInv
  <2> QED
    BY <2>1, <2>2, Zenon
<1>8. ChangesInv'
  <2>1. IsPut(states'[b], r)
    <3>1. StateAt(states'[b], lastVersion[b]) = StateAt(states[b], lastVersion[b])
      BY <1>c, <1>d, <1>4
    <3> QED
      BY <1>d, <1>e, <1>2, <1>5, <1>t, <3>1, SMTT(60) DEF IsPut
  <2>2. ASSUME NEW x \in Backend, NEW y \in changes'[x] PROVE IsPut(states'[x], y)
    <3>1. CASE x = b /\ y = r
      BY <2>1, <3>1, Zenon
    <3>2. CASE ~ (x = b /\ y = r)
      <4>1. y \in changes[x] /\ y \in Record
        BY <1>a, <1>c, <1>h, <2>2, <3>2, Zenon DEF TypeOK
      <4> QED
        BY <1>a, <1>4, <4>1, Zenon DEF ChangesInv
    <3> QED
      BY <3>1, <3>2, Zenon
  <2> QED
    BY <2>2, Zenon DEF ChangesInv
<1>9. OpInv'
  BY <1>a, <1>i DEF OpInv, TypeOK, Backend
<1>10. StreamInv' /\ SnapshotInv' /\ ShownInv' /\ ReplicaConsistent'
  BY <1>1, <1>3, <1>i, BrokerStepInv, Zenon
<1> QED
  BY <1>1, <1>6, <1>7, <1>8, <1>9, <1>10, Zenon DEF IInv

\* what UpdateConfig and Restart do to the broker
LEMMA ReplaceBackendInv ==
  ASSUME IInv, ReplaceBackend, cur + 1 \in Backend
  PROVE  /\ cur' \in Backend
         /\ lastVersion' \in [Backend -> Nat]
         /\ lookup' \in [Backend -> Table]
         /\ changes' \in [Backend -> SUBSET Record]
         /\ states' \in [Backend -> Seq(Table)]
         /\ Grows
         /\ BackendInv'
         /\ ChangesInv'
<1>a. TypeOK /\ BackendInv /\ ChangesInv
  BY Zenon DEF IInv
<1>b. PICK n : n = cur + 1
  BY Zenon
<1>c. cur \in Backend /\ n \in Backend /\ cur # n /\ cur \in Nat
  BY <1>a, <1>b, BackendsNat DEF TypeOK, Backend
<1>d. /\ cur' = n
      /\ lastVersion' = [lastVersion EXCEPT ![n] = 1]
      /\ lookup' = [lookup EXCEPT ![cur] = Empty, ![n] = FirstTable]
      /\ changes' = [changes EXCEPT ![cur] = {}, ![n] = {ServerVersionRecord}]
      /\ states' = [states EXCEPT ![n] = <<FirstTable>>]
  BY <1>b, Zenon DEF ReplaceBackend
<1>1. /\ lastVersion' \in [Backend -> Nat]
      /\ lookup' \in [Backend -> Table]
      /\ changes' \in [Backend -> SUBSET Record]
      /\ states' \in [Backend -> Seq(Table)]
  <2>1. lookup' \in [Backend -> Table]
    BY <1>a, <1>c, <1>d, TableFacts, ServerVersionFacts, Zenon DEF TypeOK
  <2>2. changes' \in [Backend -> SUBSET Record]
    BY <1>a, <1>c, <1>d, ServerVersionFacts, Zenon DEF TypeOK
  <2>3. <<FirstTable>> \in Seq(Table)
    BY ServerVersionFacts
  <2>4. states' \in [Backend -> Seq(Table)] /\ lastVersion' \in [Backend -> Nat]
    BY <1>a, <1>c, <1>d, <2>3, Zenon DEF TypeOK
  <2> QED
    BY <2>1, <2>2, <2>4, Zenon
<1>2. states[n] = <<>>
  BY <1>a, <1>b, <1>c DEF BackendInv
<1>3. /\ states'[n] = <<FirstTable>>
      /\ Len(states'[n]) = 1 /\ states'[n][1] = FirstTable
      /\ \A x \in Backend \ {n} : states'[x] = states[x]
  BY <1>a, <1>c, <1>d, Zenon DEF TypeOK
<1>4. Grows
  <2>1. \A x \in Backend \ {n} : Len(states[x]) \in Nat /\ states'[x] = states[x]
    BY <1>a, <1>3 DEF TypeOK
  <2> QED
    BY <1>2, <1>3, <2>1 DEF Grows
<1>5. BackendInv'
  <2> SUFFICES ASSUME NEW x \in Backend
               PROVE  /\ Len(states'[x]) = lastVersion'[x]
                      /\ x <= n => lastVersion'[x] >= 1
                      /\ x = n => lookup'[x] = StateAt(states'[x], lastVersion'[x])
                      /\ x > n => states'[x] = <<>>
    BY <1>d, Zenon DEF BackendInv
  <2>1. CASE x = n
    <3>1. lastVersion'[x] = 1 /\ lookup'[x] = FirstTable
      BY <1>a, <1>c, <1>d, <2>1, Zenon DEF TypeOK
    <3>2. StateAt(states'[n], 1) = FirstTable
      BY <1>3 DEF StateAt
    <3>3. ~ n > n
      BY <1>c DEF Backend
    <3> QED
      BY <1>3, <2>1, <3>1, <3>2, <3>3
  <2>2. CASE x # n
    <3>1. lastVersion'[x] = lastVersion[x] /\ states'[x] = states[x]
      BY <1>a, <1>c, <1>d, <1>3, <2>2, Zenon DEF TypeOK
    <3>2. x <= n => x <= cur
      BY <1>b, <1>c, <2>2 DEF Backend
    <3>3. x > n => x > cur
      BY <1>b, <1>c DEF Backend
    <3> QED
      BY <1>a, <2>2, <3>1, <3>2, <3>3, Zenon DEF BackendInv
  <2> QED
    BY <2>1, <2>2, Zenon
<1>6. ChangesInv'
  <2>1. IsPut(states'[n], ServerVersionRecord)
    BY <1>3, ServerVersionFacts DEF IsPut, StateAt
  <2>2. ASSUME NEW x \in Backend, NEW r \in changes'[x] PROVE IsPut(states'[x], r)
    <3>1. CASE x = n
      <4>1. r = ServerVersionRecord
        BY <1>a, <1>c, <1>d, <2>2, <3>1, Zenon DEF TypeOK
      <4> QED
        BY <2>1, <3>1, <4>1, Zenon
    <3>2. CASE x # n
      <4>1. r \in changes[x] /\ states'[x] = states[x]
        BY <1>a, <1>c, <1>d, <1>3, <2>2, <3>2, Zenon DEF TypeOK
      <4> QED
        BY <1>a, <4>1, Zenon DEF ChangesInv
    <3> QED
      BY <3>1, <3>2, Zenon
  <2> QED
    BY <2>2, Zenon DEF ChangesInv
<1> QED
  BY <1>c, <1>d, <1>1, <1>4, <1>5, <1>6, Zenon

LEMMA UpdateConfigInv == ASSUME IInv, UpdateConfig PROVE IInv'
<1>a. TypeOK /\ BoundsInv /\ OpInv
  BY Zenon DEF IInv
<1>1. cur + 1 \in Backend /\ cur' = cur + 1 /\ cur \in Nat
  BY <1>a, BoundsAssumption DEF UpdateConfig, ReplaceBackend, BoundsInv, TypeOK, Backend, MaxBackends
<1>2. ReplaceBackend /\ UNCHANGED <<restarts, op, syncerVars, handlerVars, streamVars, drops>>
  BY Zenon DEF UpdateConfig
<1>3. TypeOK'
  BY <1>a, <1>1, <1>2, ReplaceBackendInv, Zenon DEF TypeOK, syncerVars, handlerVars, streamVars
<1>4. Grows /\ BackendInv' /\ ChangesInv'
  BY <1>1, <1>2, ReplaceBackendInv, Zenon
<1>5. StreamInv' /\ SnapshotInv' /\ ShownInv' /\ ReplicaConsistent'
  BY <1>1, <1>2, <1>3, <1>4, BrokerStepInv, Zenon DEF streamVars
<1>6. BoundsInv'
  BY <1>a, <1>1, <1>2, BoundsAssumption DEF BoundsInv, UpdateConfig, TypeOK
<1>7. OpInv'
  BY <1>a, <1>1, <1>2, BackendsNat DEF OpInv, TypeOK
<1> QED
  BY <1>3, <1>4, <1>5, <1>6, <1>7, Zenon DEF IInv

LEMMA RestartInv == ASSUME IInv, Restart PROVE IInv'
<1>a. TypeOK /\ BoundsInv /\ OpInv /\ SnapshotInv /\ ShownInv
  BY Zenon DEF IInv
<1>1. cur + 1 \in Backend /\ cur' = cur + 1 /\ cur \in Nat
  BY <1>a, BoundsAssumption DEF Restart, ReplaceBackend, BoundsInv, TypeOK, Backend, MaxBackends
<1>2. /\ ReplaceBackend
      /\ restarts' = restarts + 1
      /\ op' = [c \in Clients |-> 0]
      /\ phase' = [s \in Syncers |-> IF phase[s] \in {"latest", "syncing"} THEN "run" ELSE phase[s]]
      /\ UNCHANGED <<recordVersion, serverVersion, asked, latest, handlerVars, drops>>
  BY Zenon DEF Restart
<1>3. \A s \in Syncers : /\ stream'[s] = "closed" /\ bound'[s] = 0 /\ wire'[s] = <<>>
                         /\ ready'[s] = {} /\ phase'[s] # "syncing" /\ phase'[s] # "latest"
  BY <1>2, Zenon DEF Restart, EndStreams
<1>4. TypeOK'
  <2>1. /\ stream' \in [Syncers -> {"closed", "fill", "wait", "send"}]
        /\ bound' \in [Syncers -> 0..MaxBackends] /\ version' \in [Syncers -> Nat]
        /\ ready' \in [Syncers -> SUBSET Record] /\ changed' \in [Syncers -> BOOLEAN]
        /\ wire' \in [Syncers -> Seq(Record)]
    BY BackendsNat DEF Restart, EndStreams
  <2>2. phase' \in [Syncers -> {"run", "latest", "received", "cleared", "syncing"}]
        /\ op' \in [Clients -> 0..MaxBackends] /\ restarts' \in Nat
    BY <1>a, <1>2, BackendsNat DEF TypeOK
  <2> QED
    BY <1>a, <1>1, <1>2, <2>1, <2>2, ReplaceBackendInv, ZenonT(60) DEF TypeOK, handlerVars
<1>5. Grows /\ BackendInv' /\ ChangesInv'
  BY <1>1, <1>2, ReplaceBackendInv, Zenon
<1>6. BoundsInv'
  BY <1>a, <1>1, <1>2, BoundsAssumption DEF BoundsInv, Restart, TypeOK
<1>7. OpInv'
  BY <1>1, <1>2 DEF OpInv
<1>8. StreamInv'
  BY <1>3, Zenon DEF StreamInv
<1>9. \A x \in Backend : /\ Len(states[x]) \in Nat /\ Len(states'[x]) \in Nat
                         /\ Len(states[x]) <= Len(states'[x])
  BY <1>a, <1>4, <1>5, HistoryFacts, Zenon
<1>10. SnapshotInv'
  <2> SUFFICES ASSUME NEW s \in Syncers, phase'[s] \in {"received", "cleared"}
               PROVE  /\ serverVersion[s] = 0
                      /\ latest[s].serverVersion \in 1..cur'
                      /\ latest[s].recordVersion \in 1..Len(states'[latest[s].serverVersion])
                      /\ shown[s].backend <= latest[s].serverVersion
                      /\ shown[s].backend = latest[s].serverVersion =>
                           shown[s].version <= latest[s].recordVersion
                      /\ latest[s].serverVersion # cur'
    BY <1>2, <1>3, Zenon DEF SnapshotInv, handlerVars
  <2>1. phase[s] \in {"received", "cleared"}
    BY <1>2, Zenon
  <2>2. /\ serverVersion[s] = 0
        /\ latest[s].serverVersion \in 1..cur
        /\ latest[s].recordVersion \in 1..Len(states[latest[s].serverVersion])
        /\ shown[s].backend <= latest[s].serverVersion
        /\ shown[s].backend = latest[s].serverVersion =>
             shown[s].version <= latest[s].recordVersion
    BY <1>a, <2>1, Zenon DEF SnapshotInv
  <2>3. latest[s].serverVersion \in Backend /\ latest[s].serverVersion \in 1..cur'
        /\ latest[s].serverVersion # cur'
    BY <1>1, <2>2, BackendsNat DEF Backend
  <2>4. latest[s].recordVersion \in 1..Len(states'[latest[s].serverVersion])
    BY <1>9, <2>2, <2>3
  <2> QED
    BY <2>2, <2>3, <2>4, SMTT(30)
<1>11. ShownInv'
  <2> SUFFICES ASSUME NEW s \in Syncers
               PROVE  /\ shown[s].backend <= cur'
                      /\ shown[s].backend # 0 =>
                           shown[s].version \in 1..Len(states'[shown[s].backend])
    BY <1>a, <1>2, Zenon DEF ShownInv, handlerVars
  <2>1. shown[s].backend \in 0..cur
    BY <1>a, <1>1, BackendsNat, SMTT(60) DEF ShownInv, TypeOK
  <2>2. ASSUME shown[s].backend # 0
        PROVE  shown[s].version \in 1..Len(states'[shown[s].backend])
    <3>1. shown[s].backend \in Backend
      BY <1>1, <2>1, <2>2, BackendsNat DEF Backend
    <3>2. shown[s].version \in 1..Len(states[shown[s].backend])
      BY <1>a, <2>2, Zenon DEF ShownInv
    <3> QED
      BY <1>9, <3>1, <3>2
  <2> QED
    BY <1>1, <2>1, <2>2
<1>12. ReplicaConsistent'
  <2> SUFFICES ASSUME NEW s \in Syncers PROVE serverVersion'[s] # cur' /\ phase'[s] # "syncing"
    BY Zenon DEF ReplicaConsistent
  <2>1. /\ serverVersion[s] \in 0..MaxBackends /\ shown[s].backend <= cur
        /\ serverVersion[s] # 0 => shown[s].backend = serverVersion[s]
    BY <1>a, Zenon DEF ShownInv, TypeOK
  <2> QED
    BY <1>1, <1>2, <1>3, <2>1, BackendsNat
<1> QED
  BY <1>4, <1>5, <1>6, <1>7, <1>8, <1>10, <1>11, <1>12, Zenon DEF IInv

---------------------------------------------------------------------------
(* The steps that leave the histories alone *)

LEMMA PutCallInv == ASSUME IInv, NEW c \in Clients, PutCall(c) PROVE IInv'
<1> USE DEF PutCall, brokerVars, syncerVars, handlerVars, streamVars
<1>a. TypeOK /\ OpInv
  BY Zenon DEF IInv
<1>1. TypeOK'
  <2>1. cur \in 0..MaxBackends
    BY <1>a, BackendsNat DEF TypeOK, Backend
  <2>2. op' \in [Clients -> 0..MaxBackends]
    BY <1>a, <2>1, Zenon DEF TypeOK
  <2> QED
    BY <1>a, <2>2, Zenon DEF TypeOK
<1>2. OpInv'
  BY <1>a DEF OpInv, TypeOK, Backend
<1>3. BoundsInv' /\ BackendInv' /\ ChangesInv' /\ StreamInv' /\ SnapshotInv' /\ ShownInv'
      /\ ReplicaConsistent'
  BY ZenonT(60) DEF IInv, BoundsInv, BackendInv, ChangesInv, StreamInv, SnapshotInv, ShownInv, ReplicaConsistent
<1> QED
  BY <1>1, <1>2, <1>3, Zenon DEF IInv

LEMMA RemoveChangesBeforeInv == ASSUME IInv, RemoveChangesBefore PROVE IInv'
<1> USE DEF syncerVars, handlerVars, streamVars
<1>a. TypeOK /\ ChangesInv
  BY Zenon DEF IInv
<1>b. PICK r \in changes[cur] :
        changes' = [changes EXCEPT ![cur] = {x \in @ : x.version > r.version}]
  BY Zenon DEF RemoveChangesBefore
<1>c. UNCHANGED <<cur, lastVersion, lookup, states, restarts, op, syncerVars, handlerVars, streamVars, drops>>
  BY Zenon DEF RemoveChangesBefore
<1>1. changes' \in [Backend -> SUBSET Record] /\ \A b \in Backend : changes'[b] \subseteq changes[b]
  BY <1>a, <1>b, Zenon DEF TypeOK
<1>2. TypeOK'
  BY <1>a, <1>c, <1>1, Zenon DEF TypeOK
<1>3. ChangesInv'
  BY <1>a, <1>c, <1>1, Zenon DEF ChangesInv
<1>4. BoundsInv' /\ BackendInv' /\ OpInv' /\ StreamInv' /\ SnapshotInv' /\ ShownInv'
      /\ ReplicaConsistent'
  BY <1>c, Zenon DEF IInv, BoundsInv, BackendInv, OpInv, StreamInv, SnapshotInv, ShownInv, ReplicaConsistent
<1> QED
  BY <1>2, <1>3, <1>4, Zenon DEF IInv

\* the server side of a Sync call
LEMMA StreamNextInv == ASSUME IInv, NEW s \in Syncers, StreamNext(s) PROVE IInv'
<1> USE DEF brokerVars, syncerVars, handlerVars
<1>a. TypeOK /\ ChangesInv /\ StreamInv
  BY Zenon DEF IInv
<1>b. UNCHANGED <<brokerVars, op, syncerVars, handlerVars, bound, drops>>
  BY Zenon DEF StreamNext, StreamFill, StreamWait, StreamWake, StreamSend
<1>c. BoundsInv' /\ BackendInv' /\ ChangesInv' /\ OpInv' /\ SnapshotInv' /\ ShownInv'
      /\ ReplicaConsistent'
  BY <1>b, Zenon DEF IInv, BoundsInv, BackendInv, ChangesInv, OpInv, SnapshotInv, ShownInv, ReplicaConsistent
<1>d. stream[s] # "closed" => bound[s] \in Backend /\ phase[s] = "syncing"
  BY <1>a DEF StreamInv, TypeOK, Backend
<1> SUFFICES TypeOK' /\ StreamInv'
  BY <1>c, Zenon DEF IInv
<1>1. CASE StreamFill(s)
  <2>1. /\ stream[s] = "fill"
        /\ ready' = [ready EXCEPT ![s] = GetSince(bound[s], version[s])]
        /\ stream' = [stream EXCEPT ![s] = "send"]
        /\ UNCHANGED <<changed, wire>>
    BY <1>1, Zenon DEF StreamFill
  <2>2. GetSince(bound[s], version[s]) \subseteq changes[bound[s]]
    BY Zenon DEF GetSince
  <2>3. \A r \in GetSince(bound[s], version[s]) : r \in Record /\ IsPut(states[bound[s]], r)
    BY <1>a, <1>d, <2>1, <2>2, Zenon DEF ChangesInv, TypeOK
  <2>4. ready' \in [Syncers -> SUBSET Record]
    BY <1>a, <2>1, <2>3, Zenon DEF TypeOK
  <2>5. version' \in [Syncers -> Nat]
    <3>1. PICK last \in ready'[s] : version' = [version EXCEPT ![s] = last.version]
      BY <1>1, Zenon DEF StreamFill
    <3>2. last.version \in Nat
      BY <2>4, <3>1 DEF Record
    <3> QED
      BY <1>a, <3>1, <3>2, Zenon DEF TypeOK
  <2>6. TypeOK'
    BY <1>a, <1>b, <2>1, <2>4, <2>5, Zenon DEF TypeOK
  <2>7. StreamInv'
    BY <1>a, <1>b, <1>d, <2>1, <2>3, Zenon DEF StreamInv, TypeOK
  <2> QED
    BY <2>6, <2>7, Zenon
<1>2. CASE StreamWait(s)
  BY <1>a, <1>b, <1>2, Zenon DEF StreamWait, StreamInv, TypeOK
<1>3. CASE StreamWake(s)
  BY <1>a, <1>b, <1>3, ZenonT(60) DEF StreamWake, StreamInv, TypeOK
<1>4. CASE StreamSend(s)
  <2>1. PICK r \in ready[s] : /\ wire' = [wire EXCEPT ![s] = Append(@, r)]
                              /\ ready' = [ready EXCEPT ![s] = @ \ {r}]
    BY <1>4, Zenon DEF StreamSend
  <2>2. /\ stream[s] = "send"
        /\ stream' = [stream EXCEPT ![s] = IF ready'[s] = {} THEN "fill" ELSE "send"]
        /\ UNCHANGED <<version, changed>>
    BY <1>4, Zenon DEF StreamSend
  <2>3. r \in Record /\ wire[s] \in Seq(Record)
    BY <1>a, <2>1, Zenon DEF TypeOK
  <2>4. TypeOK'
    <3>1. wire' \in [Syncers -> Seq(Record)]
      BY <1>a, <2>1, <2>3 DEF TypeOK
    <3>2. ready' \in [Syncers -> SUBSET Record]
      BY <1>a, <2>1, Zenon DEF TypeOK
    <3>3. stream' \in [Syncers -> {"closed", "fill", "wait", "send"}]
      BY <1>a, <2>2, Zenon DEF TypeOK
    <3> QED
      BY <1>a, <1>b, <2>2, <3>1, <3>2, <3>3, Zenon DEF TypeOK
  <2>5. StreamInv'
    <3>1. \A i \in 1..Len(wire'[s]) : IsPut(states[bound[s]], wire'[s][i])
      <4>1. IsPut(states[bound[s]], r) /\ \A i \in 1..Len(wire[s]) : IsPut(states[bound[s]], wire[s][i])
        BY <1>a, <1>d, <2>1, <2>2, Zenon DEF StreamInv
      <4>2. wire'[s] = Append(wire[s], r)
        BY <1>a, <2>1, Zenon DEF TypeOK
      <4> QED
        BY <2>3, <4>1, <4>2
    <3>2. ready'[s] \subseteq ready[s] /\ (stream'[s] # "send" => ready'[s] = {})
          /\ stream'[s] # "closed"
      BY <1>a, <2>1, <2>2, Zenon DEF TypeOK
    <3>3. \A x \in Syncers \ {s} : stream'[x] = stream[x] /\ ready'[x] = ready[x] /\ wire'[x] = wire[x]
      BY <1>a, <2>1, <2>2, Zenon DEF TypeOK
    <3> QED
      BY <1>a, <1>b, <1>d, <2>2, <3>1, <3>2, <3>3, ZenonT(60) DEF StreamInv
  <2> QED
    BY <2>4, <2>5, Zenon
<1> QED
  BY <1>1, <1>2, <1>3, <1>4, Zenon DEF StreamNext

\* Syncer.init
LEMMA SyncLatestCallInv == ASSUME IInv, NEW s \in Syncers, SyncLatestCall(s) PROVE IInv'
<1> USE DEF SyncLatestCall, brokerVars, handlerVars, streamVars
<1>a. TypeOK /\ StreamInv /\ SnapshotInv /\ ShownInv /\ ReplicaConsistent
  BY Zenon DEF IInv
<1>b. cur \in 0..MaxBackends /\ cur \in 1..cur
  BY <1>a, BackendsNat DEF TypeOK, Backend
<1>1. TypeOK'
  <2>1. asked' \in [Syncers -> 0..MaxBackends]
    BY <1>a, <1>b, Zenon DEF TypeOK
  <2>2. phase' \in [Syncers -> {"run", "latest", "received", "cleared", "syncing"}]
    BY <1>a, Zenon DEF TypeOK
  <2> QED
    BY <1>a, <2>1, <2>2, Zenon DEF TypeOK
<1>c. /\ phase'[s] = "latest" /\ asked'[s] = cur
      /\ \A x \in Syncers \ {s} : phase'[x] = phase[x] /\ asked'[x] = asked[x]
  BY <1>a, Zenon DEF TypeOK
<1>2. StreamInv'
  BY <1>a, <1>c, ZenonT(60) DEF StreamInv
<1>3. SnapshotInv'
  BY <1>a, <1>b, <1>c, ZenonT(60) DEF SnapshotInv, ShownInv
<1>4. BoundsInv' /\ BackendInv' /\ ChangesInv' /\ OpInv' /\ ShownInv'
  BY Zenon DEF IInv, BoundsInv, BackendInv, ChangesInv, OpInv, ShownInv
<1>5. ReplicaConsistent'
  BY <1>a, <1>c, Zenon DEF ReplicaConsistent
<1> QED
  BY <1>1, <1>2, <1>3, <1>4, <1>5, Zenon DEF IInv

LEMMA SyncLatestGetAllInv == ASSUME IInv, NEW s \in Syncers, SyncLatestGetAll(s) PROVE IInv'
<1> USE DEF brokerVars, handlerVars, streamVars
<1>a. TypeOK /\ BackendInv /\ StreamInv /\ SnapshotInv /\ ShownInv /\ ReplicaConsistent
  BY Zenon DEF IInv
<1>b. PICK b : b = asked[s]
  BY Zenon
<1>c. PICK l : l = [records |-> Filtered(s, lookup[b]), recordVersion |-> lastVersion[b],
                    serverVersion |-> b]
  BY Zenon
<1>d. /\ phase[s] = "latest"
      /\ phase' = [phase EXCEPT ![s] = "received"]
      /\ latest' = [latest EXCEPT ![s] = l]
      /\ UNCHANGED <<brokerVars, op, recordVersion, serverVersion, asked, handlerVars, streamVars, drops>>
  BY <1>b, <1>c, Zenon DEF SyncLatestGetAll, InitialSync
<1>e. b \in 1..cur /\ shown[s].backend <= b /\ serverVersion[s] = 0
  BY <1>a, <1>b, <1>d, Zenon DEF SnapshotInv
<1>f. b \in Backend
  BY <1>a, <1>e, BackendsNat DEF TypeOK, Backend
<1>g. /\ lastVersion[b] \in 1..Len(states[b])
      /\ b = cur => lookup[b] = StateAt(states[b], lastVersion[b])
      /\ Len(states[b]) = lastVersion[b]
  BY <1>a, <1>e, <1>f, SMTT(60) DEF BackendInv, TypeOK, Backend
<1>h. /\ l.records = Filtered(s, lookup[b]) /\ l.recordVersion = lastVersion[b] /\ l.serverVersion = b
      /\ l \in [records : Table, recordVersion : Nat, serverVersion : 0..MaxBackends]
  <2>1. Filtered(s, lookup[b]) \in Table /\ lastVersion[b] \in Nat /\ b \in 0..MaxBackends
    BY <1>a, <1>f, TableFacts, SMTT(60) DEF TypeOK, Backend
  <2> QED
    BY <1>c, <2>1, Zenon
<1>i. /\ phase'[s] = "received" /\ latest'[s] = l
      /\ \A x \in Syncers \ {s} : phase'[x] = phase[x] /\ latest'[x] = latest[x]
  BY <1>a, <1>d, Zenon DEF TypeOK
<1>1. TypeOK'
  <2>1. latest' \in [Syncers -> [records : Table, recordVersion : Nat, serverVersion : 0..MaxBackends]]
    BY <1>a, <1>d, <1>h, Zenon DEF TypeOK
  <2>2. phase' \in [Syncers -> {"run", "latest", "received", "cleared", "syncing"}]
    BY <1>a, <1>d, SMTT(30) DEF TypeOK
  <2> QED
    BY <1>a, <1>d, <2>1, <2>2, Zenon DEF TypeOK
<1>2. StreamInv'
  BY <1>a, <1>d, <1>i, ZenonT(60) DEF StreamInv
<1>3. SnapshotInv'
  <2>1. shown[s].backend = b => shown[s].version <= lastVersion[b]
    <3> SUFFICES ASSUME shown[s].backend = b PROVE shown[s].version <= lastVersion[b]
      BY Zenon
    <3>1. shown[s].version \in 1..Len(states[b])
      BY <1>a, <1>e DEF ShownInv
    <3> QED
      BY <1>g, <3>1
  <2>2. b = cur => l.records = Filtered(s, StateAt(states[cur], l.recordVersion))
    BY <1>g, <1>h, Zenon
  <2> SUFFICES ASSUME NEW x \in Syncers
               PROVE (/\ phase[x] \in {"latest", "received", "cleared"} => serverVersion[x] = 0
                      /\ phase[x] = "latest" => asked[x] \in 1..cur /\ shown[x].backend <= asked[x]
                      /\ phase[x] \in {"received", "cleared"} =>
                           /\ latest[x].serverVersion \in 1..cur
                           /\ latest[x].recordVersion \in 1..Len(states[latest[x].serverVersion])
                           /\ shown[x].backend <= latest[x].serverVersion
                           /\ shown[x].backend = latest[x].serverVersion =>
                                shown[x].version <= latest[x].recordVersion
                           /\ latest[x].serverVersion = cur =>
                                latest[x].records = Filtered(x, StateAt(states[cur], latest[x].recordVersion)))'
    BY Zenon DEF SnapshotInv
  <2>3. CASE x = s
    BY <1>d, <1>e, <1>g, <1>h, <1>i, <2>1, <2>2, <2>3, Zenon
  <2>4. CASE x # s
    BY <1>a, <1>d, <1>i, <2>4, Zenon DEF SnapshotInv
  <2> QED
    BY <2>3, <2>4, Zenon
<1>4. BoundsInv' /\ BackendInv' /\ ChangesInv' /\ OpInv' /\ ShownInv'
  BY <1>d, Zenon DEF IInv, BoundsInv, BackendInv, ChangesInv, OpInv, ShownInv
<1>5. ReplicaConsistent'
  BY <1>a, <1>d, <1>i, Zenon DEF ReplicaConsistent
<1> QED
  BY <1>1, <1>2, <1>3, <1>4, <1>5, Zenon DEF IInv

LEMMA ClearRecordsInv == ASSUME IInv, NEW s \in Syncers, ClearRecords(s) PROVE IInv'
<1> USE DEF ClearRecords, brokerVars, streamVars
<1>a. TypeOK /\ StreamInv /\ SnapshotInv /\ ReplicaConsistent
  BY Zenon DEF IInv
<1>b. /\ phase'[s] = "cleared" /\ serverVersion[s] = 0
      /\ \A x \in Syncers \ {s} : phase'[x] = phase[x] /\ replica'[x] = replica[x]
  BY <1>a, Zenon DEF TypeOK, SnapshotInv
<1>1. TypeOK'
  BY <1>a, TableFacts, Zenon DEF TypeOK
<1>2. StreamInv'
  BY <1>a, <1>b, ZenonT(60) DEF StreamInv
<1>3. SnapshotInv'
  BY <1>a, <1>b, SMTT(30) DEF SnapshotInv
<1>4. BoundsInv' /\ BackendInv' /\ ChangesInv' /\ OpInv' /\ ShownInv'
  BY Zenon DEF IInv, BoundsInv, BackendInv, ChangesInv, OpInv, ShownInv
<1>5. ReplicaConsistent'
  <2>1. cur # 0
    BY <1>a DEF TypeOK, Backend
  <2> QED
    BY <1>a, <1>b, <2>1, Zenon DEF ReplicaConsistent
<1> QED
  BY <1>1, <1>2, <1>3, <1>4, <1>5, Zenon DEF IInv

LEMMA UpdateRecordsInv == ASSUME IInv, NEW s \in Syncers, UpdateRecords(s) PROVE IInv'
<1> USE DEF brokerVars, streamVars
<1>a. TypeOK /\ StreamInv /\ SnapshotInv /\ ShownInv /\ ReplicaConsistent
  BY Zenon DEF IInv
<1>b. PICK t, v, b : t = latest[s].records /\ v = latest[s].recordVersion /\ b = latest[s].serverVersion
  BY Zenon
<1>c. /\ phase[s] = "cleared"
      /\ phase' = [phase EXCEPT ![s] = "run"]
      /\ recordVersion' = [recordVersion EXCEPT ![s] = v]
      /\ serverVersion' = [serverVersion EXCEPT ![s] = b]
      /\ asked' = [asked EXCEPT ![s] = 0]
      /\ latest' = [latest EXCEPT ![s] = Nothing]
      /\ replica' = [replica EXCEPT ![s] = t]
      /\ shown' = [shown EXCEPT ![s] = [backend |-> b, version |-> v]]
      /\ UNCHANGED <<brokerVars, op, streamVars, drops>>
  BY <1>b, Zenon DEF UpdateRecords
<1>d. t \in Table /\ v \in Nat /\ b \in 0..MaxBackends
  BY <1>a, <1>b, Zenon DEF TypeOK
<1>e. /\ b \in 1..cur /\ v \in 1..Len(states[b])
      /\ b = cur => t = Filtered(s, StateAt(states[cur], v))
  BY <1>a, <1>b, <1>c, Zenon DEF SnapshotInv
<1>f. /\ phase'[s] = "run" /\ serverVersion'[s] = b /\ recordVersion'[s] = v /\ replica'[s] = t
      /\ shown'[s] = [backend |-> b, version |-> v]
      /\ \A x \in Syncers \ {s} :
           /\ phase'[x] = phase[x] /\ serverVersion'[x] = serverVersion[x] /\ asked'[x] = asked[x]
           /\ recordVersion'[x] = recordVersion[x] /\ latest'[x] = latest[x]
           /\ replica'[x] = replica[x] /\ shown'[x] = shown[x]
  BY <1>a, <1>c, Zenon DEF TypeOK
<1>1. TypeOK'
  <2>1. /\ phase' \in [Syncers -> {"run", "latest", "received", "cleared", "syncing"}]
        /\ recordVersion' \in [Syncers -> Nat]
        /\ serverVersion' \in [Syncers -> 0..MaxBackends]
        /\ asked' \in [Syncers -> 0..MaxBackends]
        /\ replica' \in [Syncers -> Table]
    <3>1. phase' \in [Syncers -> {"run", "latest", "received", "cleared", "syncing"}]
      BY <1>a, <1>c, Zenon DEF TypeOK
    <3>2. recordVersion' \in [Syncers -> Nat]
      BY <1>a, <1>c, <1>d, Zenon DEF TypeOK
    <3>3. 0 \in 0..MaxBackends
      BY BackendsNat
    <3>5. serverVersion' \in [Syncers -> 0..MaxBackends] /\ asked' \in [Syncers -> 0..MaxBackends]
      BY <1>a, <1>c, <1>d, <3>3, Zenon DEF TypeOK
    <3>4. replica' \in [Syncers -> Table]
      BY <1>a, <1>c, <1>d, Zenon DEF TypeOK
    <3> QED
      BY <3>1, <3>2, <3>4, <3>5, Zenon
  <2>2. shown' \in [Syncers -> [backend : 0..MaxBackends, version : Nat]]
    BY <1>a, <1>c, <1>d, Zenon DEF TypeOK
  <2>3. Nothing \in [records : Table, recordVersion : Nat, serverVersion : 0..MaxBackends]
    BY TableFacts, BackendsNat DEF Nothing
  <2>4. latest' \in [Syncers -> [records : Table, recordVersion : Nat, serverVersion : 0..MaxBackends]]
    BY <1>a, <1>c, <2>3, ZenonT(60) DEF TypeOK
  <2> QED
    BY <1>a, <1>c, <2>1, <2>2, <2>4, Zenon DEF TypeOK
<1>2. StreamInv'
  BY <1>a, <1>c, <1>f, SMTT(60) DEF StreamInv
<1>3. SnapshotInv'
  BY <1>a, <1>c, <1>f, SMTT(60) DEF SnapshotInv
<1>4. ShownInv'
  <2>1. b <= cur
    BY <1>e, SMTT(60)
  <2> QED
    BY <1>a, <1>c, <1>e, <1>f, <2>1 DEF ShownInv
<1>5. ReplicaConsistent'
  BY <1>a, <1>c, <1>e, <1>f DEF ReplicaConsistent
<1>6. BoundsInv' /\ BackendInv' /\ ChangesInv' /\ OpInv'
  BY <1>c, Zenon DEF IInv, BoundsInv, BackendInv, ChangesInv, OpInv
<1> QED
  BY <1>1, <1>2, <1>3, <1>4, <1>5, <1>6, Zenon DEF IInv

\* Syncer.sync
LEMMA SyncOpenInv == ASSUME IInv, NEW s \in Syncers, SyncOpen(s) PROVE IInv'
<1> USE DEF SyncOpen, brokerVars, handlerVars
<1>a. TypeOK /\ StreamInv /\ SnapshotInv /\ ReplicaConsistent
  BY Zenon DEF IInv
<1>b. cur \in 0..MaxBackends /\ cur \in 1..cur
  BY <1>a, BackendsNat DEF TypeOK, Backend
<1>c. /\ phase'[s] = "syncing" /\ stream'[s] = "fill" /\ bound'[s] = cur
      /\ \A x \in Syncers \ {s} : phase'[x] = phase[x] /\ stream'[x] = stream[x] /\ bound'[x] = bound[x]
  BY <1>a, Zenon DEF TypeOK
<1>1. TypeOK'
  BY <1>a, <1>b, ZenonT(60) DEF TypeOK
<1>2. StreamInv'
  <2>1. ready[s] = {} /\ wire[s] = <<>>
    BY <1>a, ZenonT(60) DEF StreamInv
  <2> QED
    BY <1>a, <1>b, <1>c, <2>1, SMTT(60) DEF StreamInv
<1>3. SnapshotInv'
  BY <1>a, <1>c DEF SnapshotInv
<1>4. BoundsInv' /\ BackendInv' /\ ChangesInv' /\ OpInv' /\ ShownInv'
  BY Zenon DEF IInv, BoundsInv, BackendInv, ChangesInv, OpInv, ShownInv
<1>5. ReplicaConsistent'
  BY <1>a, <1>c, ZenonT(60) DEF ReplicaConsistent
<1> QED
  BY <1>1, <1>2, <1>3, <1>4, <1>5, Zenon DEF IInv

LEMMA SyncAbortedInv == ASSUME IInv, NEW s \in Syncers, SyncAborted(s) PROVE IInv'
<1> USE DEF SyncAborted, brokerVars, handlerVars, streamVars
<1>a. TypeOK /\ StreamInv /\ SnapshotInv /\ ShownInv /\ ReplicaConsistent
  BY Zenon DEF IInv
<1>b. serverVersion'[s] = 0 /\ \A x \in Syncers \ {s} : serverVersion'[x] = serverVersion[x]
  BY <1>a, Zenon DEF TypeOK
<1>c. cur # 0
  BY <1>a DEF TypeOK, Backend
<1>1. TypeOK'
  <2>1. serverVersion' \in [Syncers -> 0..MaxBackends]
    BY <1>a, BackendsNat DEF TypeOK
  <2> QED
    BY <1>a, <2>1, Zenon DEF TypeOK
<1>2. StreamInv'
  BY <1>a, <1>b, Zenon DEF StreamInv
<1>3. SnapshotInv'
  BY <1>a, <1>b, Zenon DEF SnapshotInv
<1>4. ShownInv'
  BY <1>a, <1>b, Zenon DEF ShownInv
<1>5. BoundsInv' /\ BackendInv' /\ ChangesInv' /\ OpInv'
  BY Zenon DEF IInv, BoundsInv, BackendInv, ChangesInv, OpInv
<1>6. ReplicaConsistent'
  BY <1>a, <1>b, <1>c, Zenon DEF ReplicaConsistent
<1> QED
  BY <1>1, <1>2, <1>3, <1>4, <1>5, <1>6, Zenon DEF IInv

\* filtering commutes with applying a record
LEMMA FilteredApply ==
  ASSUME NEW s \in Syncers, NEW t \in Table, NEW r \in Record
  PROVE  Filtered(s, Apply(t, r)) = IF r.key \in Wants[s] THEN Apply(Filtered(s, t), r) ELSE Filtered(s, t)
<1>1. r.key \in Keys /\ r.version \in Nat
  BY Zenon DEF Record
<1>2. Filtered(s, t) \in Table /\ Apply(t, r) \in Table /\ Apply(Filtered(s, t), r) \in Table
  BY TableFacts, Zenon
<1>3. ASSUME NEW k \in Keys
      PROVE  Filtered(s, Apply(t, r))[k]
               = (IF r.key \in Wants[s] THEN Apply(Filtered(s, t), r) ELSE Filtered(s, t))[k]
  BY <1>1, Zenon DEF Filtered, Apply, Table
<1> QED
  BY <1>2, <1>3, Zenon DEF Filtered, Apply, Table

LEMMA RecvNextInv == ASSUME IInv, NEW s \in Syncers, RecvNext(s) PROVE IInv'
<1>a. TypeOK /\ StreamInv /\ SnapshotInv /\ ShownInv /\ ReplicaConsistent
  BY Zenon DEF IInv
<1>b. PICK r : r = Head(wire[s])
  BY Zenon
<1>c. PICK b : b = serverVersion[s]
  BY Zenon
<1>d. /\ phase[s] = "syncing" /\ wire[s] # <<>>
      /\ recordVersion[s] = r.version - 1
  BY <1>b, Zenon DEF RecvNext
<1>e. /\ recordVersion' = [recordVersion EXCEPT ![s] = r.version]
      /\ replica' = [replica EXCEPT ![s] = IF r.key \in Wants[s] THEN Apply(@, r) ELSE @]
      /\ shown' = [shown EXCEPT ![s] = [backend |-> b, version |-> r.version]]
      /\ wire' = [wire EXCEPT ![s] = Tail(@)]
  BY <1>b, <1>c, Zenon DEF RecvNext
<1>f. /\ cur' = cur /\ lastVersion' = lastVersion /\ lookup' = lookup /\ changes' = changes
      /\ states' = states /\ restarts' = restarts /\ op' = op /\ phase' = phase
      /\ serverVersion' = serverVersion /\ asked' = asked /\ latest' = latest /\ stream' = stream
      /\ bound' = bound /\ version' = version /\ ready' = ready /\ changed' = changed /\ drops' = drops
  BY Zenon DEF RecvNext, brokerVars
<1>g. wire[s] \in Seq(Record) /\ replica[s] \in Table
  BY <1>a, ZenonT(60) DEF TypeOK
<1>h. Len(wire[s]) \in Nat /\ 1 \in 1..Len(wire[s]) /\ r = wire[s][1] /\ r \in Record
  BY <1>b, <1>d, <1>g
<1>i. r.version \in Nat
  BY <1>h, Zenon DEF Record
<1>j. /\ Tail(wire[s]) \in Seq(Record)
      /\ \A i \in 1..Len(Tail(wire[s])) : i + 1 \in 1..Len(wire[s]) /\ Tail(wire[s])[i] = wire[s][i + 1]
  BY <1>d, <1>g
<1>k. b \in 1..cur /\ bound[s] = b
  BY <1>a, <1>c, <1>d, Zenon DEF StreamInv
<1>l. \A i \in 1..Len(wire[s]) : IsPut(states[b], wire[s][i])
  BY <1>a, <1>d, <1>k, Zenon DEF StreamInv
<1>m. cur \in Nat /\ b \in Backend /\ b # 0 /\ b <= cur
  BY <1>a, <1>k, BackendsNat DEF TypeOK, Backend
<1>n. IsPut(states[b], r)
  BY <1>h, <1>l, Zenon
<1>o. recordVersion'[s] = r.version /\ wire'[s] = Tail(wire[s])
  BY <1>a, <1>e, Zenon DEF TypeOK
<1>p. /\ shown'[s] = [backend |-> b, version |-> r.version]
      /\ replica'[s] = IF r.key \in Wants[s] THEN Apply(replica[s], r) ELSE replica[s]
  BY <1>a, <1>e, Zenon DEF TypeOK
<1>q. \A x \in Syncers \ {s} : /\ recordVersion'[x] = recordVersion[x] /\ wire'[x] = wire[x]
                               /\ shown'[x] = shown[x] /\ replica'[x] = replica[x]
  BY <1>a, <1>e, Zenon DEF TypeOK
<1>1. TypeOK'
  <2>1. IF r.key \in Wants[s] THEN Apply(replica[s], r) \in Table ELSE replica[s] \in Table
    BY <1>g, <1>h, TableFacts, Zenon
  <2>2. replica' \in [Syncers -> Table]
    BY <1>a, <1>e, <2>1, Zenon DEF TypeOK
  <2>3. b \in 0..MaxBackends
    BY <1>a, <1>c, Zenon DEF TypeOK
  <2>4. shown' \in [Syncers -> [backend : 0..MaxBackends, version : Nat]]
    BY <1>a, <1>e, <1>i, <2>3, Zenon DEF TypeOK
  <2>5. wire' \in [Syncers -> Seq(Record)]
    BY <1>a, <1>e, <1>j, Zenon DEF TypeOK
  <2>6. recordVersion' \in [Syncers -> Nat]
    BY <1>a, <1>e, <1>i, Zenon DEF TypeOK
  <2> QED
    BY <1>a, <1>f, <2>2, <2>4, <2>5, <2>6, Zenon DEF TypeOK
<1>2. StreamInv'
  <2>1. \A i \in 1..Len(wire'[s]) : IsPut(states[b], wire'[s][i])
    BY <1>j, <1>l, <1>o, Zenon
  <2> SUFFICES ASSUME NEW x \in Syncers
               PROVE  /\ phase[x] # "syncing" => wire'[x] = <<>>
                      /\ phase[x] = "syncing" =>
                           \A i \in 1..Len(wire'[x]) : IsPut(states[bound[x]], wire'[x][i])
    BY <1>a, <1>f, Zenon DEF StreamInv
  <2>2. CASE x = s
    BY <1>d, <1>k, <2>1, <2>2, Zenon
  <2>3. CASE x # s
    BY <1>a, <1>q, <2>3, Zenon DEF StreamInv
  <2> QED
    BY <2>2, <2>3, Zenon
<1>3. SnapshotInv'
  <2> SUFFICES ASSUME NEW x \in Syncers, x # s PROVE shown'[x] = shown[x]
    BY <1>a, <1>d, <1>f, Zenon DEF SnapshotInv
  <2> QED
    BY <1>q, Zenon
<1>4. ShownInv'
  <2>1. r.version \in 1..Len(states[b])
    BY <1>n, Zenon DEF IsPut
  <2> SUFFICES ASSUME NEW x \in Syncers
               PROVE  /\ shown'[x].backend <= cur
                      /\ shown'[x].backend # 0 => shown'[x].version \in 1..Len(states[shown'[x].backend])
                      /\ serverVersion[x] # 0 => /\ shown'[x].backend = serverVersion[x]
                                                 /\ shown'[x].version = recordVersion'[x]
    BY <1>f, Zenon DEF ShownInv
  <2>2. CASE x = s
    <3>1. shown'[x].backend = b /\ shown'[x].version = r.version
      BY <1>p, <2>2
    <3> QED
      BY <1>c, <1>m, <1>o, <2>1, <2>2, <3>1, Zenon
  <2>3. CASE x # s
    BY <1>a, <1>q, <2>3, Zenon DEF ShownInv
  <2> QED
    BY <2>2, <2>3, Zenon
<1>5. ReplicaConsistent'
  <2>1. replica[s] = Filtered(s, StateAt(states[b], r.version - 1))
    BY <1>a, <1>c, <1>d, Zenon DEF ReplicaConsistent
  <2>2. StateAt(states[b], r.version) = Apply(StateAt(states[b], r.version - 1), r)
    BY <1>n, Zenon DEF IsPut
  <2>3. StateAt(states[b], r.version - 1) \in Table
    <3>1. states[b] \in Seq(Table) /\ r.version \in 1..Len(states[b])
      BY <1>a, <1>m, <1>n, SMTT(60) DEF TypeOK, IsPut
    <3> QED
      BY <1>i, <3>1, TableFacts, SMTT(60) DEF StateAt
  <2>4. Filtered(s, StateAt(states[b], r.version))
          = IF r.key \in Wants[s] THEN Apply(replica[s], r) ELSE replica[s]
    BY <1>h, <2>1, <2>2, <2>3, FilteredApply
  <2>5. replica'[s] = Filtered(s, StateAt(states[b], r.version))
    BY <1>p, <2>4, Zenon
  <2> SUFFICES ASSUME NEW x \in Syncers, serverVersion[x] = cur \/ phase[x] = "syncing"
               PROVE  replica'[x] = Filtered(x, StateAt(states[serverVersion[x]], recordVersion'[x]))
    BY <1>f, Zenon DEF ReplicaConsistent
  <2>6. CASE x = s
    BY <1>c, <1>o, <2>5, <2>6, Zenon
  <2>7. CASE x # s
    BY <1>a, <1>q, <2>7, Zenon DEF ReplicaConsistent
  <2> QED
    BY <2>6, <2>7, Zenon
<1>6. BoundsInv' /\ BackendInv' /\ ChangesInv' /\ OpInv'
  BY <1>f, Zenon DEF IInv, BoundsInv, BackendInv, ChangesInv, OpInv
<1> QED
  BY <1>1, <1>2, <1>3, <1>4, <1>5, <1>6, Zenon DEF IInv

\* a stream that ends leaves its syncer in Run, with its version or without
LEMMA StreamEndInv ==
  ASSUME IInv, NEW s \in Syncers, EndStreams({s}), phase[s] \in {"latest", "syncing"},
         phase' = [phase EXCEPT ![s] = "run"],
         serverVersion' \in {serverVersion, [serverVersion EXCEPT ![s] = 0]},
         drops' \in Nat,
         UNCHANGED <<brokerVars, op, recordVersion, asked, latest, handlerVars>>
  PROVE  IInv'
<1> USE DEF brokerVars, handlerVars
<1>a. TypeOK /\ StreamInv /\ SnapshotInv /\ ShownInv /\ ReplicaConsistent
  BY Zenon DEF IInv
<1>b. /\ phase'[s] = "run" /\ stream'[s] = "closed" /\ bound'[s] = 0 /\ ready'[s] = {} /\ wire'[s] = <<>>
      /\ serverVersion'[s] \in {0, serverVersion[s]}
      /\ \A x \in Syncers \ {s} :
           /\ phase'[x] = phase[x] /\ stream'[x] = stream[x] /\ bound'[x] = bound[x]
           /\ ready'[x] = ready[x] /\ wire'[x] = wire[x] /\ serverVersion'[x] = serverVersion[x]
  BY <1>a, Zenon DEF TypeOK, EndStreams
<1>c. cur # 0
  BY <1>a DEF TypeOK, Backend
<1>1. TypeOK'
  <2>1. /\ stream' \in [Syncers -> {"closed", "fill", "wait", "send"}]
        /\ bound' \in [Syncers -> 0..MaxBackends] /\ version' \in [Syncers -> Nat]
        /\ ready' \in [Syncers -> SUBSET Record] /\ changed' \in [Syncers -> BOOLEAN]
    BY <1>a, BackendsNat, SMTT(60) DEF EndStreams, TypeOK
  <2>2. wire' \in [Syncers -> Seq(Record)]
    BY <1>a DEF EndStreams, TypeOK
  <2>3. phase' \in [Syncers -> {"run", "latest", "received", "cleared", "syncing"}]
    BY <1>a, Zenon DEF TypeOK
  <2>4. serverVersion' \in [Syncers -> 0..MaxBackends]
    <3>1. serverVersion \in [Syncers -> 0..MaxBackends] /\ 0 \in 0..MaxBackends
      BY <1>a, BackendsNat, SMTT(30) DEF TypeOK
    <3> QED
      BY <3>1, Zenon
  <2> QED
    BY <1>a, <2>1, <2>2, <2>3, <2>4, ZenonT(60) DEF TypeOK
<1>2. StreamInv'
  <2> SUFFICES ASSUME NEW x \in Syncers
               PROVE  /\ phase'[x] # "syncing" => stream'[x] = "closed" /\ bound'[x] = 0 /\ wire'[x] = <<>>
                      /\ stream'[x] # "send" => ready'[x] = {}
                      /\ phase'[x] = "syncing" =>
                           /\ serverVersion'[x] \in 1..cur
                           /\ bound'[x] = serverVersion'[x]
                           /\ stream'[x] # "closed"
                           /\ \A r \in ready'[x] : IsPut(states[bound'[x]], r)
                           /\ \A i \in 1..Len(wire'[x]) : IsPut(states[bound'[x]], wire'[x][i])
    BY <1>a, Zenon DEF StreamInv
  <2>1. CASE x = s
    BY <1>b, <2>1, Zenon
  <2>2. CASE x # s
    <3>1. /\ phase'[x] = phase[x] /\ stream'[x] = stream[x] /\ bound'[x] = bound[x]
          /\ ready'[x] = ready[x] /\ wire'[x] = wire[x] /\ serverVersion'[x] = serverVersion[x]
      BY <1>b, <2>2, Zenon
    <3>2. /\ phase[x] # "syncing" => stream[x] = "closed" /\ bound[x] = 0 /\ wire[x] = <<>>
          /\ stream[x] # "send" => ready[x] = {}
          /\ phase[x] = "syncing" =>
               /\ serverVersion[x] \in 1..cur
               /\ bound[x] = serverVersion[x]
               /\ stream[x] # "closed"
               /\ \A r \in ready[x] : IsPut(states[bound[x]], r)
               /\ \A i \in 1..Len(wire[x]) : IsPut(states[bound[x]], wire[x][i])
      BY <1>a, Zenon DEF StreamInv
    <3> QED
      BY <3>1, <3>2, Zenon
  <2> QED
    BY <2>1, <2>2, Zenon
<1>3. SnapshotInv'
  BY <1>a, <1>b, ZenonT(60) DEF SnapshotInv
<1>4. ShownInv'
  BY <1>a, <1>b, ZenonT(60) DEF ShownInv
<1>5. ReplicaConsistent'
  <2> SUFFICES ASSUME NEW x \in Syncers, serverVersion'[x] = cur \/ phase'[x] = "syncing"
               PROVE  replica[x] = Filtered(x, StateAt(states[serverVersion'[x]], recordVersion[x]))
    BY <1>a, Zenon DEF ReplicaConsistent
  <2>1. serverVersion'[x] = serverVersion[x] /\ (serverVersion[x] = cur \/ phase[x] = "syncing")
    <3>1. CASE x = s
      <4>1. phase'[x] # "syncing"
        BY <1>b, <3>1, Zenon
      <4> QED
        BY <1>b, <1>c, <3>1, <4>1, Zenon
    <3>2. CASE x # s
      BY <1>b, <3>2, Zenon
    <3> QED
      BY <3>1, <3>2, Zenon
  <2> QED
    BY <1>a, <2>1, Zenon DEF ReplicaConsistent
<1>6. BoundsInv' /\ BackendInv' /\ ChangesInv' /\ OpInv'
  BY Zenon DEF IInv, BoundsInv, BackendInv, ChangesInv, OpInv
<1> QED
  BY <1>1, <1>2, <1>3, <1>4, <1>5, <1>6, Zenon DEF IInv

---------------------------------------------------------------------------
(* Every step *)

LEMMA NextInv == IInv /\ [Next]_vars => IInv'
<1> SUFFICES ASSUME IInv, [Next]_vars PROVE IInv'
  BY Zenon
<1>1. ASSUME NEW c \in Clients, ClientNext(c) PROVE IInv'
  BY <1>1, PutCallInv, PutApplyInv, Zenon DEF ClientNext
<1>2. ASSUME NEW s \in Syncers, StreamNext(s) PROVE IInv'
  BY <1>2, StreamNextInv, Zenon
<1>3. ASSUME NEW s \in Syncers, SyncerNext(s) PROVE IInv'
  <2>1. CASE SyncLatestCall(s) \/ SyncLatestGetAll(s) \/ ClearRecords(s) \/ UpdateRecords(s)
    BY <2>1, SyncLatestCallInv, SyncLatestGetAllInv, ClearRecordsInv, UpdateRecordsInv, Zenon
  <2>2. CASE SyncOpen(s) \/ SyncAborted(s) \/ RecvNext(s)
    BY <2>2, SyncOpenInv, SyncAbortedInv, RecvNextInv, Zenon
  <2>3. CASE RecvGap(s)
    <3>1. drops' \in Nat
      BY <2>3, Zenon DEF RecvGap, IInv, TypeOK
    <3> QED
      BY <2>3, <3>1, StreamEndInv, Zenon DEF RecvGap
  <2> QED
    BY <1>3, <2>1, <2>2, <2>3, Zenon DEF SyncerNext
<1>4. ASSUME NEW s \in Syncers, ConnectionLost(s) PROVE IInv'
  <2>1. drops' \in Nat
    BY <1>4 DEF ConnectionLost, IInv, TypeOK
  <2> QED
    BY <1>4, <2>1, StreamEndInv, Zenon DEF ConnectionLost
<1>5. CASE RemoveChangesBefore
  BY <1>5, RemoveChangesBeforeInv, Zenon
<1>6. CASE UpdateConfig
  BY <1>6, UpdateConfigInv, Zenon
<1>7. CASE Restart
  BY <1>7, RestartInv, Zenon
<1>8. CASE UNCHANGED vars
  BY <1>8, ZenonT(60) DEF vars, brokerVars, syncerVars, handlerVars, streamVars, IInv, TypeOK, BoundsInv, BackendInv,
              ChangesInv, OpInv, StreamInv, SnapshotInv, ShownInv, ReplicaConsistent
<1> QED
  BY <1>1, <1>2, <1>3, <1>4, <1>5, <1>6, <1>7, <1>8, Zenon DEF Next

\* Every variable keeps its type in every behaviour of the broker and its
\* syncers, whatever the constants.
THEOREM TypeCorrect == Spec => []TypeOK
<1>1. IInv => TypeOK
  BY Zenon DEF IInv
<1> QED
  BY <1>1, InitInv, NextInv, PTL DEF Spec

\* Whatever expires, breaks or restarts, a syncer that follows a backend holds
\* exactly what that backend held after the Put it has reached (syncer.go, init
\* and sync, over backend.go and stream.go).
THEOREM Consistent == Spec => []ReplicaConsistent
<1>1. IInv => ReplicaConsistent
  BY Zenon DEF IInv
<1> QED
  BY <1>1, InitInv, NextInv, PTL DEF Spec

---------------------------------------------------------------------------
(* The signal and the views *)

LEMMA WakeupStep == IInv /\ NoLostWakeup /\ [Next]_vars => NoLostWakeup'
<1> SUFFICES ASSUME IInv, NoLostWakeup, [Next]_vars,
                    NEW s \in Syncers, stream'[s] = "wait", ~ changed'[s]
             PROVE  {r \in changes'[bound'[s]] : r.version > version'[s]} = {}
  BY Zenon DEF NoLostWakeup, GetSince
<1> USE DEF GetSince, brokerVars, syncerVars, handlerVars, streamVars
<1>a. TypeOK /\ StreamInv /\ OpInv
  BY ZenonT(60) DEF IInv
<1>b. /\ stream[s] # "closed" => bound[s] \in Backend /\ bound[s] <= cur
      /\ stream[s] = "wait" /\ ~ changed[s] =>
           {r \in changes[bound[s]] : r.version > version[s]} = {}
  BY <1>a, BackendsNat, SMTT(60) DEF StreamInv, NoLostWakeup, TypeOK, Backend
<1>c. CASE UNCHANGED <<changes, streamVars>>
  BY <1>b, <1>c, Zenon
<1>1. ASSUME NEW c \in Clients, PutCall(c) PROVE UNCHANGED <<changes, streamVars>>
  BY <1>1, Zenon DEF PutCall
<1>2. ASSUME NEW c \in Clients, PutApply(c)
      PROVE  {r \in changes'[bound'[s]] : r.version > version'[s]} = {}
  <2>1. /\ changed' = [x \in Syncers |-> changed[x] \/ bound[x] = op[c]]
        /\ \E r : changes' = [changes EXCEPT ![op[c]] = @ \union {r}]
        /\ UNCHANGED <<stream, bound, version>>
    BY <1>2, Zenon DEF PutApply, PutRecord, Broadcast
  <2>2. bound[s] # op[c] /\ ~ changed[s]
    BY <2>1, Zenon
  <2>3. changes'[bound[s]] = changes[bound[s]]
    BY <1>a, <1>b, <2>1, <2>2, Zenon DEF TypeOK
  <2> QED
    BY <1>b, <2>1, <2>2, <2>3, Zenon
<1>3. ASSUME RemoveChangesBefore
      PROVE  {r \in changes'[bound'[s]] : r.version > version'[s]} = {}
  <2>1. /\ UNCHANGED <<stream, bound, version, changed>>
        /\ \E r : changes' = [changes EXCEPT ![cur] = {x \in @ : x.version > r.version}]
    BY <1>3, Zenon DEF RemoveChangesBefore
  <2>2. changes'[bound[s]] \subseteq changes[bound[s]]
    BY <1>a, <1>b, <2>1 DEF TypeOK
  <2> QED
    BY <1>b, <2>1, <2>2, Zenon
<1>4. ASSUME UpdateConfig
      PROVE  {r \in changes'[bound'[s]] : r.version > version'[s]} = {}
  <2>1. /\ UNCHANGED <<stream, bound, version, changed>>
        /\ changes' = [changes EXCEPT ![cur] = {}, ![cur + 1] = {ServerVersionRecord}]
    BY <1>4, Zenon DEF UpdateConfig, ReplaceBackend
  <2>2. bound[s] # cur + 1
    BY <1>a, <1>b, <2>1 DEF TypeOK, Backend
  <2>3. changes'[bound[s]] \subseteq changes[bound[s]]
    BY <1>a, <1>b, <2>1, <2>2, Zenon DEF TypeOK
  <2> QED
    BY <1>b, <2>1, <2>3, Zenon
<1>5. ASSUME Restart PROVE FALSE
  BY <1>5, Zenon DEF Restart, EndStreams
<1>6. ASSUME NEW x \in Syncers, StreamNext(x)
      PROVE  {r \in changes'[bound'[s]] : r.version > version'[s]} = {}
  <2>1. CASE StreamFill(x)
    <3>1. x # s /\ UNCHANGED <<changes, bound, changed>>
      BY <1>a, <2>1, Zenon DEF StreamFill, TypeOK
    <3>2. stream'[s] = stream[s] /\ version'[s] = version[s]
      BY <1>a, <2>1, <3>1, Zenon DEF StreamFill, TypeOK
    <3> QED
      BY <1>b, <3>1, <3>2, Zenon
  <2>2. CASE StreamWait(x)
    <3>1. /\ UNCHANGED <<changes, bound, version, changed>>
          /\ x # s => stream'[s] = stream[s]
          /\ {r \in changes[bound[x]] : r.version > version[x]} = {}
      BY <1>a, <2>2, Zenon DEF StreamWait, TypeOK
    <3> QED
      BY <1>b, <3>1, Zenon
  <2>3. CASE StreamWake(x)
    <3>1. /\ UNCHANGED <<changes, bound, version>>
          /\ x # s /\ stream'[s] = stream[s] /\ changed'[s] = changed[s]
      BY <1>a, <2>3, Zenon DEF StreamWake, TypeOK
    <3> QED
      BY <1>b, <3>1, Zenon
  <2>4. CASE StreamSend(x)
    <3>1. /\ UNCHANGED <<changes, bound, version, changed>>
          /\ x # s /\ stream'[s] = stream[s]
      BY <1>a, <2>4, Zenon DEF StreamSend, TypeOK
    <3> QED
      BY <1>b, <3>1, Zenon
  <2> QED
    BY <1>6, <2>1, <2>2, <2>3, <2>4, Zenon DEF StreamNext
<1>7. ASSUME NEW x \in Syncers, SyncOpen(x)
      PROVE  {r \in changes'[bound'[s]] : r.version > version'[s]} = {}
  <2>1. x # s /\ UNCHANGED <<changes, changed>>
    BY <1>a, <1>7, Zenon DEF SyncOpen, TypeOK
  <2>2. stream'[s] = stream[s] /\ bound'[s] = bound[s] /\ version'[s] = version[s]
    BY <1>a, <1>7, <2>1, Zenon DEF SyncOpen, TypeOK
  <2> QED
    BY <1>b, <2>1, <2>2, Zenon
<1>8. ASSUME NEW x \in Syncers, EndStreams({x}), UNCHANGED changes
      PROVE  {r \in changes'[bound'[s]] : r.version > version'[s]} = {}
  <2>1. x # s
    BY <1>8, Zenon DEF EndStreams
  <2>2. stream'[s] = stream[s] /\ bound'[s] = bound[s] /\ version'[s] = version[s] /\ (changed'[s] <=> changed[s])
    BY <1>8, <2>1, Zenon DEF EndStreams
  <2> QED
    BY <1>b, <1>8, <2>2, Zenon
<1>9. ASSUME NEW x \in Syncers, SyncerNext(x)
      PROVE  {r \in changes'[bound'[s]] : r.version > version'[s]} = {}
  <2>1. CASE SyncLatestCall(x) \/ SyncLatestGetAll(x) \/ ClearRecords(x) \/ UpdateRecords(x) \/ SyncAborted(x)
    BY <1>c, <2>1, Zenon DEF SyncLatestCall, SyncLatestGetAll, ClearRecords, UpdateRecords, SyncAborted
  <2>2. CASE RecvNext(x)
    <3>1. UNCHANGED <<changes, stream, bound, version, changed>>
      BY <2>2, Zenon DEF RecvNext
    <3> QED
      BY <1>b, <3>1, Zenon
  <2>3. CASE RecvGap(x)
    BY <1>8, <2>3, Zenon DEF RecvGap
  <2> QED
    BY <1>7, <1>9, <2>1, <2>2, <2>3, Zenon DEF SyncerNext
<1>10. ASSUME NEW x \in Syncers, ConnectionLost(x)
      PROVE  {r \in changes'[bound'[s]] : r.version > version'[s]} = {}
  BY <1>8, <1>10, Zenon DEF ConnectionLost
<1>11. CASE UNCHANGED vars
  BY <1>c, <1>11, Zenon DEF vars
<1> QED
  BY <1>c, <1>1, <1>2, <1>3, <1>4, <1>5, <1>6, <1>9, <1>10, <1>11, Zenon DEF Next, ClientNext

\* No Put is missed by a stream that goes to wait: for any number of streams a
\* stream without a token in its channel has nothing to fetch (stream.go, Next
\* with signal.go, Broadcast).
THEOREM Wakeup == Spec => []NoLostWakeup
<1>1. Init => NoLostWakeup
  BY Zenon DEF Init, NoLostWakeup
<1> QED
  BY <1>1, InitInv, NextInv, WakeupStep, PTL DEF Spec

\* what a step does to the view of one handler
NotBack(s) ==
  \/ shown'[s].backend > shown[s].backend
  \/ /\ shown'[s].backend = shown[s].backend
     /\ shown'[s].version >= shown[s].version

LEMMA ViewStep == ASSUME IInv, [Next]_vars, NEW s \in Syncers PROVE NotBack(s)
<1> USE DEF brokerVars, syncerVars, handlerVars, streamVars
<1>a. TypeOK /\ StreamInv /\ SnapshotInv /\ ShownInv
  BY Zenon DEF IInv
<1>b. shown[s].backend \in 0..MaxBackends /\ shown[s].version \in Nat
  BY <1>a, Zenon DEF TypeOK
<1>c. CASE UNCHANGED shown
  BY <1>b, <1>c DEF NotBack
<1>1. ASSUME NEW x \in Syncers, UpdateRecords(x) PROVE NotBack(s)
  <2>1. CASE x = s
    <3>1. shown'[s] = [backend |-> latest[s].serverVersion, version |-> latest[s].recordVersion]
      BY <1>a, <1>1, <2>1, Zenon DEF UpdateRecords, TypeOK
    <3>2. /\ shown[s].backend <= latest[s].serverVersion
          /\ shown[s].backend = latest[s].serverVersion =>
               shown[s].version <= latest[s].recordVersion
      BY <1>a, <1>1, <2>1, Zenon DEF UpdateRecords, SnapshotInv
    <3>3. latest[s].serverVersion \in 0..MaxBackends /\ latest[s].recordVersion \in Nat
      BY <1>a, Zenon DEF TypeOK
    <3> QED
      BY <1>b, <3>1, <3>2, <3>3, BackendsNat DEF NotBack
  <2>2. CASE x # s
    <3>1. shown'[s] = shown[s]
      BY <1>a, <1>1, <2>2, Zenon DEF UpdateRecords, TypeOK
    <3> QED
      BY <1>b, <3>1 DEF NotBack
  <2> QED
    BY <2>1, <2>2, Zenon
<1>2. ASSUME NEW x \in Syncers, RecvNext(x) PROVE NotBack(s)
  <2>1. CASE x = s
    <3>1. /\ recordVersion[s] = Head(wire[s]).version - 1
          /\ shown'[s] = [backend |-> serverVersion[s], version |-> Head(wire[s]).version]
      BY <1>a, <1>2, <2>1, ZenonT(60) DEF RecvNext, TypeOK
    <3>2. serverVersion[s] # 0
      BY <1>a, <1>2, <2>1 DEF RecvNext, StreamInv, TypeOK, Backend
    <3>3. shown[s].backend = serverVersion[s] /\ shown[s].version = recordVersion[s]
      BY <1>a, <3>2, Zenon DEF ShownInv
    <3>4. Head(wire[s]).version \in Nat
      <4>1. wire[s] \in Seq(Record) /\ wire[s] # <<>>
        BY <1>a, <1>2, <2>1, Zenon DEF RecvNext, TypeOK
      <4>2. Head(wire[s]) \in Record
        BY <4>1, SMTT(60)
      <4> QED
        BY <4>2, Zenon DEF Record
    <3> QED
      BY <1>b, <3>1, <3>3, <3>4 DEF NotBack
  <2>2. CASE x # s
    <3>1. shown'[s] = shown[s]
      BY <1>a, <1>2, <2>2, SMTT(60) DEF RecvNext, TypeOK
    <3> QED
      BY <1>b, <3>1 DEF NotBack
  <2> QED
    BY <2>1, <2>2, Zenon
<1>3. ASSUME NEW x \in Syncers, SyncerNext(x) PROVE NotBack(s)
  BY <1>c, <1>1, <1>2, <1>3, SMTT(90)
     DEF SyncerNext, SyncLatestCall, SyncLatestGetAll, ClearRecords, SyncOpen, SyncAborted, RecvGap
<1>4. ASSUME NEW x \in Syncers, StreamNext(x) PROVE UNCHANGED shown
  BY <1>4, Zenon DEF StreamNext, StreamFill, StreamWait, StreamWake, StreamSend
<1>5. ASSUME NEW c \in Clients, ClientNext(c) PROVE UNCHANGED shown
  BY <1>5, Zenon DEF ClientNext, PutCall, PutApply
<1>6. ASSUME NEW x \in Syncers, ConnectionLost(x) PROVE UNCHANGED shown
  BY <1>6, Zenon DEF ConnectionLost
<1>7. CASE RemoveChangesBefore \/ UpdateConfig \/ Restart \/ UNCHANGED vars
  BY <1>c, <1>7, Zenon DEF RemoveChangesBefore, UpdateConfig, Restart, vars
<1> QED
  BY <1>c, <1>3, <1>4, <1>5, <1>6, <1>7, Zenon DEF Next

\* What a handler shows never goes back, over any number of restarts, broken
\* connections and snapshots (syncer.go, init and sync).
THEOREM Monotone == Spec => MonotoneView
<1>1. ASSUME IInv, [Next]_vars
      PROVE  [\A s \in Syncers :
                \/ shown'[s].backend > shown[s].backend
                \/ /\ shown'[s].backend = shown[s].backend
                   /\ shown'[s].version >= shown[s].version]_vars
  BY <1>1, ViewStep, Zenon DEF NotBack
<1> QED
  BY <1>1, InitInv, NextInv, PTL DEF Spec, MonotoneView

---------------------------------------------------------------------------
(* The refinement *)

AbstractStep == [Replica!ReplicaNext]_<<cur, states, Copy>>

\* the copy of one syncer, and what a step that concerns only s does to Copy
CopyOf(s) == [live |-> serverVersion[s] # 0, epoch |-> shown[s].backend,
              version |-> shown[s].version, records |-> replica[s]]

LEMMA CopyFacts ==
  /\ Copy = [s \in Syncers |-> CopyOf(s)]
  /\ Copy' = [s \in Syncers |-> CopyOf(s)']
BY Zenon DEF Copy, CopyOf

LEMMA CopySame == ASSUME UNCHANGED <<serverVersion, shown, replica>> PROVE Copy' = Copy
BY Zenon DEF Copy

LEMMA CopyOne ==
  ASSUME NEW s \in Syncers, NEW new, CopyOf(s)' = new,
         \A x \in Syncers \ {s} : CopyOf(x)' = CopyOf(x)
  PROVE  Copy' = [Copy EXCEPT ![s] = new] /\ Copy'[s] = new
BY CopyFacts, Zenon

\* the fields of the copy of s before and after a step
LEMMA CopyFields ==
  ASSUME NEW s \in Syncers
  PROVE  /\ Copy[s].live <=> serverVersion[s] # 0
         /\ Copy[s].epoch = shown[s].backend
         /\ Copy[s].version = shown[s].version
         /\ Copy[s].records = replica[s]
BY Zenon DEF Copy

LEMMA CopyStale ==
  ASSUME NEW s \in Syncers, serverVersion'[s] = 0, NEW e, NEW v, NEW t,
         shown'[s].backend = e, shown'[s].version = v, replica'[s] = t
  PROVE  CopyOf(s)' = [live |-> FALSE, epoch |-> e, version |-> v, records |-> t]
<1>1. (serverVersion'[s] # 0) = FALSE
  BY Zenon
<1> QED
  BY <1>1, Zenon DEF CopyOf

LEMMA CopyLive ==
  ASSUME NEW s \in Syncers, serverVersion'[s] # 0, NEW e, NEW v, NEW t,
         shown'[s].backend = e, shown'[s].version = v, replica'[s] = t
  PROVE  CopyOf(s)' = [live |-> TRUE, epoch |-> e, version |-> v, records |-> t]
<1>1. (serverVersion'[s] # 0) = TRUE
  BY Zenon
<1> QED
  BY <1>1, Zenon DEF CopyOf

LEMMA InitRefines == Init => Replica!ReplicaInit
<1> SUFFICES ASSUME Init PROVE Replica!ReplicaInit
  BY Zenon
<1>1. cur = 1 /\ 1 \in Backend /\ states[1] = <<FirstTable>> /\ Len(states[1]) = 1
  BY BackendsNat DEF Init, Backend
<1>2. \A e \in DOMAIN states : e # 1 => states[e] = <<>>
  BY Zenon DEF Init
<1>3. Copy = [s \in Syncers |-> [live |-> FALSE, epoch |-> 0, version |-> 0,
                                 records |-> [k \in Keys |-> 0]]]
  BY Zenon DEF Init, Copy, Empty
<1> QED
  BY <1>1, <1>2, <1>3, Zenon DEF Replica!ReplicaInit, Replica!NothingShown

LEMMA PutApplyRefines == ASSUME IInv, IInv', NEW c \in Clients, PutApply(c) PROVE AbstractStep
<1>a. TypeOK /\ OpInv /\ TypeOK'
  BY Zenon DEF IInv
<1>b. PICK b, t : b = op[c] /\ states' = [states EXCEPT ![b] = Append(@, t)]
  BY ZenonT(60) DEF PutApply, PutRecord
<1>c. b \in Backend /\ b \in 1..cur
  BY <1>a, <1>b, BackendsNat DEF PutApply, TypeOK, OpInv, Backend
<1>d. states[b] \in Seq(Table) /\ states'[b] \in Seq(Table) /\ states'[b] = Append(states[b], t)
      /\ DOMAIN states = Backend
  BY <1>a, <1>b, <1>c, Zenon DEF TypeOK
<1>e. Len(states'[b]) = Len(states[b]) + 1 /\ states'[b][Len(states[b]) + 1] = t
  BY <1>d
<1>f. t \in Table
  BY <1>d, <1>e
<1>1. Replica!Extended(b)
  BY <1>b, <1>e, <1>f, Zenon DEF Replica!Extended, Replica!Contents, Table
<1>2. UNCHANGED <<cur, Copy>>
  BY CopySame, Zenon DEF PutApply, syncerVars, handlerVars
<1>3. Replica!Commit(b)
  BY <1>c, <1>1, <1>2, Zenon DEF Replica!Commit
<1> QED
  BY <1>c, <1>d, <1>3, Zenon DEF AbstractStep, Replica!ReplicaNext

LEMMA ReplaceRefines ==
  ASSUME IInv, IInv', ReplaceBackend, UNCHANGED <<serverVersion, shown, replica>>
  PROVE  AbstractStep
<1>a. TypeOK /\ BackendInv /\ TypeOK'
  BY Zenon DEF IInv
<1>b. PICK n : n = cur + 1
  BY ZenonT(60)
<1>c. n \in Backend /\ cur' = n /\ states' = [states EXCEPT ![n] = <<FirstTable>>] /\ n > cur
  BY <1>a, <1>b DEF ReplaceBackend, TypeOK, Backend
<1>d. states[n] = <<>> /\ states'[n] = <<FirstTable>>
  BY <1>a, <1>c, ZenonT(60) DEF BackendInv, TypeOK
<1>e. Len(states[n]) = 0 /\ Len(states'[n]) = 1 /\ states'[n][1] = FirstTable
      /\ <<FirstTable>> = Append(<<>>, FirstTable)
  BY <1>d
<1>1. Replica!Extended(n)
  <2>1. states' = [states EXCEPT ![n] = Append(@, FirstTable)]
    BY <1>c, <1>d, <1>e, Zenon
  <2>2. FirstTable \in [Keys -> Nat]
    BY ServerVersionFacts, ZenonT(60) DEF Table
  <2>3. Len(states[n]) + 1 = 1
    BY <1>e
  <2> QED
    BY <1>e, <2>1, <2>2, <2>3, Zenon DEF Replica!Extended, Replica!Contents
<1>2. Replica!NewEpoch
  BY <1>b, <1>c, <1>d, <1>1, CopySame, Zenon DEF Replica!NewEpoch
<1> QED
  BY <1>2, Zenon DEF AbstractStep, Replica!ReplicaNext

LEMMA ClearRefines == ASSUME IInv, NEW s \in Syncers, ClearRecords(s) PROVE AbstractStep
<1>a. TypeOK /\ SnapshotInv
  BY Zenon DEF IInv
<1>b. /\ serverVersion[s] = 0 /\ replica'[s] = Empty
      /\ UNCHANGED <<cur, states, shown, serverVersion>>
      /\ \A x \in Syncers \ {s} : replica'[x] = replica[x]
  BY <1>a, Zenon DEF ClearRecords, TypeOK, SnapshotInv, brokerVars
<1>c. /\ Copy[s].live <=> serverVersion[s] # 0
      /\ Copy[s].epoch = shown[s].backend /\ Copy[s].version = shown[s].version
      /\ Copy[s].records = replica[s]
  BY CopyFields, Zenon
<1>1. CopyOf(s)' = [live |-> FALSE, epoch |-> Copy[s].epoch, version |-> Copy[s].version, records |-> Empty]
  <2>1. PICK e, v : e = Copy[s].epoch /\ v = Copy[s].version
    BY Zenon
  <2>2. shown'[s].backend = e /\ shown'[s].version = v /\ serverVersion'[s] = 0
    BY <1>b, <1>c, <2>1, Zenon
  <2>3. CopyOf(s)' = [live |-> FALSE, epoch |-> e, version |-> v, records |-> Empty]
    BY <1>b, <2>2, CopyStale, ZenonT(60)
  <2> QED
    BY <2>1, <2>3, Zenon
<1>2. \A x \in Syncers \ {s} : CopyOf(x)' = CopyOf(x)
  BY <1>b, Zenon DEF CopyOf
<1>3. Copy' = [Copy EXCEPT ![s] = [live |-> FALSE, epoch |-> Copy[s].epoch, version |-> Copy[s].version,
                                   records |-> Empty]]
  BY <1>1, <1>2, CopyOne, Zenon
<1>4. Replica!Blank(s)
  BY <1>b, <1>c, <1>3, Zenon DEF Replica!Blank, Replica!Shows, Replica!NothingShown, Empty
<1> QED
  BY <1>4, Zenon DEF AbstractStep, Replica!ReplicaNext

\* a syncer that gives up its server version
LEMMA SuspendRefines ==
  ASSUME IInv, NEW s \in Syncers, serverVersion' = [serverVersion EXCEPT ![s] = 0],
         UNCHANGED <<cur, states, shown, replica>>
  PROVE  AbstractStep
<1>b. serverVersion'[s] = 0 /\ \A x \in Syncers \ {s} : serverVersion'[x] = serverVersion[x]
  BY Zenon DEF IInv, TypeOK
<1>c. /\ Copy[s].live <=> serverVersion[s] # 0
      /\ Copy[s].epoch = shown[s].backend /\ Copy[s].version = shown[s].version
      /\ Copy[s].records = replica[s]
  BY CopyFields, Zenon
<1>1. CopyOf(s)' = [live |-> FALSE, epoch |-> Copy[s].epoch, version |-> Copy[s].version,
                    records |-> Copy[s].records]
  <2>1. /\ shown'[s].backend = Copy[s].epoch /\ shown'[s].version = Copy[s].version
        /\ replica'[s] = Copy[s].records /\ serverVersion'[s] = 0
    BY <1>b, <1>c, Zenon
  <2>2. \A e, v, t : shown'[s].backend = e /\ shown'[s].version = v /\ replica'[s] = t =>
          CopyOf(s)' = [live |-> FALSE, epoch |-> e, version |-> v, records |-> t]
    BY <2>1, CopyStale
  <2> QED
    BY <2>1, <2>2, ZenonT(60)
<1>2. \A x \in Syncers \ {s} : CopyOf(x)' = CopyOf(x)
  BY <1>b, Zenon DEF CopyOf
<1>3. Replica!Suspend(s)
  BY <1>1, <1>2, CopyOne, Zenon DEF Replica!Suspend, Replica!Shows
<1> QED
  BY <1>3, Zenon DEF AbstractStep, Replica!ReplicaNext

LEMMA UpdateRefines == ASSUME IInv, IInv', NEW s \in Syncers, UpdateRecords(s) PROVE AbstractStep
<1>a. TypeOK /\ SnapshotInv /\ TypeOK'
  BY Zenon DEF IInv
<1>b. PICK t, v, e : t = latest[s].records /\ v = latest[s].recordVersion /\ e = latest[s].serverVersion
  BY ZenonT(60)
<1>c. /\ serverVersion'[s] = e /\ replica'[s] = t /\ shown'[s] = [backend |-> e, version |-> v]
      /\ UNCHANGED <<cur, states>>
      /\ \A x \in Syncers \ {s} : /\ serverVersion'[x] = serverVersion[x]
                                  /\ replica'[x] = replica[x] /\ shown'[x] = shown[x]
  BY <1>a, <1>b DEF UpdateRecords, TypeOK, brokerVars
<1>d. /\ serverVersion[s] = 0
      /\ e \in 1..cur /\ v \in 1..Len(states[e])
      /\ shown[s].backend <= e
      /\ shown[s].backend = e => shown[s].version <= v
      /\ e = cur => t = Filtered(s, StateAt(states[cur], v))
  BY <1>a, <1>b, Zenon DEF UpdateRecords, SnapshotInv
<1>e. /\ cur \in Nat /\ e \in Backend /\ shown[s].backend \in Nat /\ shown[s].version \in Nat
      /\ v \in Nat /\ t \in Table /\ DOMAIN states = Backend
  <2>1. cur \in Nat /\ e \in Backend /\ DOMAIN states = Backend
    BY <1>a, <1>d, BackendsNat DEF TypeOK, Backend
  <2>2. shown[s].backend \in Nat /\ shown[s].version \in Nat
    <3>1. shown[s] \in [backend : 0..MaxBackends, version : Nat]
      BY <1>a, Zenon DEF TypeOK
    <3> QED
      BY <3>1, BackendsNat
  <2>3. v \in Nat /\ t \in Table
    BY <1>a, <1>b, Zenon DEF TypeOK
  <2> QED
    BY <2>1, <2>2, <2>3, ZenonT(60)
<1>f. ~ Copy[s].live /\ Copy[s].epoch = shown[s].backend /\ Copy[s].version = shown[s].version
  BY <1>d, CopyFields, Zenon
<1>1. CopyOf(s)' = [live |-> TRUE, epoch |-> e, version |-> v, records |-> t]
  <2>1. serverVersion'[s] # 0 /\ shown'[s].backend = e /\ shown'[s].version = v /\ replica'[s] = t
    BY <1>c, <1>d
  <2> QED
    BY <2>1, CopyLive, ZenonT(60)
<1>2. \A x \in Syncers \ {s} : CopyOf(x)' = CopyOf(x)
  BY <1>c, ZenonT(60) DEF CopyOf
<1>3. /\ Copy' = [Copy EXCEPT ![s] = [live |-> TRUE, epoch |-> e, version |-> v, records |-> t]]
      /\ Copy'[s].records = t
  BY <1>1, <1>2, CopyOne, SMTT(60)
<1>4. e = cur => t = Replica!Selected(s, states[e][v])
  BY <1>d DEF Filtered, StateAt, Replica!Selected
<1>5. Replica!Load(s, e, v)
  <2>1. e \in shown[s].backend..cur /\ (e = shown[s].backend => v >= shown[s].version)
    BY <1>d, <1>e
  <2> QED
    BY <2>1, <1>c, <1>d, <1>e, <1>f, <1>3, <1>4, ZenonT(60) DEF Replica!Load, Replica!Shows, Replica!Contents, Table
<1> QED
  BY <1>d, <1>e, <1>5, Zenon DEF AbstractStep, Replica!ReplicaNext

LEMMA RecvRefines == ASSUME IInv, IInv', NEW s \in Syncers, RecvNext(s) PROVE AbstractStep
<1>a. TypeOK /\ StreamInv /\ ShownInv /\ ShownInv' /\ ReplicaConsistent' /\ TypeOK'
  BY Zenon DEF IInv
<1>b. PICK e, v : e = serverVersion[s] /\ v = Head(wire[s]).version
  BY Zenon
<1>c. /\ phase[s] = "syncing" /\ phase'[s] = "syncing"
      /\ recordVersion[s] = v - 1 /\ recordVersion'[s] = v
      /\ shown'[s] = [backend |-> e, version |-> v]
      /\ UNCHANGED <<cur, states, serverVersion>>
      /\ \A x \in Syncers \ {s} : replica'[x] = replica[x] /\ shown'[x] = shown[x]
  <2>1. /\ phase[s] = "syncing" /\ phase' = phase /\ recordVersion[s] = v - 1
        /\ recordVersion' = [recordVersion EXCEPT ![s] = v]
        /\ shown' = [shown EXCEPT ![s] = [backend |-> e, version |-> v]]
        /\ replica' = [replica EXCEPT ![s] = replica'[s]]
        /\ UNCHANGED <<cur, states, serverVersion>>
    <3>1. /\ DOMAIN replica = Syncers
          /\ replica' = [replica EXCEPT ![s] = IF Head(wire[s]).key \in Wants[s]
                                               THEN Apply(@, Head(wire[s])) ELSE @]
      BY <1>a, Zenon DEF RecvNext, TypeOK
    <3>2. replica' = [replica EXCEPT ![s] = replica'[s]]
      BY <3>1, Zenon
    <3> QED
      BY <1>b, <3>2, Zenon DEF RecvNext, brokerVars
  <2>2. /\ DOMAIN recordVersion = Syncers /\ DOMAIN shown = Syncers /\ DOMAIN replica = Syncers
    BY <1>a, Zenon DEF TypeOK
  <2> QED
    BY <2>1, <2>2, Zenon
<1>d. e \in Backend /\ e # 0
  <2>1. serverVersion[s] \in 1..cur /\ cur \in 1..MaxBackends
    BY <1>a, <1>c, Zenon DEF StreamInv, TypeOK, Backend
  <2> QED
    BY <1>b, <2>1, BackendsNat DEF Backend
<1>e. v \in 1..Len(states[e]) /\ shown[s].backend = e /\ shown[s].version = v - 1
  BY <1>a, <1>b, <1>c, <1>d, ZenonT(60) DEF ShownInv
<1>f. v \in Nat /\ v # 0 /\ (v - 1) + 1 = v /\ v <= Len(states[e])
  BY <1>a, <1>d, <1>e DEF TypeOK
<1>g. replica'[s] = Filtered(s, states[e][v])
  BY <1>a, <1>b, <1>c, <1>f, Zenon DEF ReplicaConsistent, StateAt
<1>h. Copy[s].live /\ Copy[s].epoch = e /\ Copy[s].version + 1 = v
  BY <1>b, <1>d, <1>e, <1>f, CopyFields, Zenon
<1>1. CopyOf(s)' = [live |-> TRUE, epoch |-> e, version |-> v, records |-> Replica!Selected(s, states[e][v])]
  <2>1. serverVersion'[s] # 0 /\ shown'[s].backend = e /\ shown'[s].version = v
    BY <1>b, <1>c, <1>d
  <2>2. replica'[s] = Replica!Selected(s, states[e][v])
    BY <1>g, Zenon DEF Filtered, Replica!Selected
  <2> QED
    BY <2>1, <2>2, CopyLive, ZenonT(60)
<1>2. \A x \in Syncers \ {s} : CopyOf(x)' = CopyOf(x)
  BY <1>c, Zenon DEF CopyOf
<1>3. Copy' = [Copy EXCEPT ![s] = [live |-> TRUE, epoch |-> e, version |-> v,
                                   records |-> Replica!Selected(s, states[e][v])]]
  BY <1>1, <1>2, CopyOne, Zenon
<1>4. Replica!Advance(s)
  BY <1>c, <1>f, <1>h, <1>3, Zenon DEF Replica!Advance, Replica!Shows
<1> QED
  BY <1>4, Zenon DEF AbstractStep, Replica!ReplicaNext

LEMMA NextRefines == ASSUME IInv, IInv', [Next]_vars PROVE AbstractStep
<1> USE DEF brokerVars, syncerVars, handlerVars, streamVars
<1>a. CASE UNCHANGED <<cur, states, serverVersion, shown, replica>>
  BY <1>a, CopySame, Zenon DEF AbstractStep
<1>1. ASSUME NEW c \in Clients, ClientNext(c) PROVE AbstractStep
  BY <1>a, <1>1, PutApplyRefines, SMTT(30) DEF ClientNext, PutCall
<1>2. ASSUME NEW s \in Syncers, StreamNext(s) PROVE AbstractStep
  BY <1>a, <1>2, Zenon DEF StreamNext, StreamFill, StreamWait, StreamWake, StreamSend
<1>3. ASSUME NEW s \in Syncers, SyncerNext(s) PROVE AbstractStep
  <2>1. CASE SyncLatestCall(s)
    BY <1>a, <2>1, Zenon DEF SyncLatestCall
  <2>2. CASE SyncLatestGetAll(s)
    BY <1>a, <2>2, Zenon DEF SyncLatestGetAll
  <2>3. CASE SyncOpen(s)
    BY <1>a, <2>3, Zenon DEF SyncOpen
  <2>4. CASE SyncAborted(s)
    BY <2>4, SuspendRefines, Zenon DEF SyncAborted
  <2>5. CASE RecvGap(s)
    BY <2>5, SuspendRefines, Zenon DEF RecvGap
  <2> QED
    BY <1>3, <2>1, <2>2, <2>3, <2>4, <2>5, ClearRefines, UpdateRefines, RecvRefines, Zenon DEF SyncerNext
<1>4. ASSUME NEW s \in Syncers, ConnectionLost(s) PROVE AbstractStep
  BY <1>a, <1>4, Zenon DEF ConnectionLost
<1>5. CASE RemoveChangesBefore \/ UNCHANGED vars
  BY <1>a, <1>5, Zenon DEF RemoveChangesBefore, vars
<1>6. CASE UpdateConfig \/ Restart
  BY <1>6, ReplaceRefines, Zenon DEF UpdateConfig, Restart
<1> QED
  BY <1>1, <1>2, <1>3, <1>4, <1>5, <1>6, Zenon DEF Next

\* The broker with its in-memory backends, streams and syncers implements the
\* promise of RecordReplica, for any numbers of clients, syncers, keys, restarts
\* and broken connections (server.go and syncer.go).
THEOREM Refines == Spec => ImplementsReplica
<1>1. IInv /\ IInv' /\ [Next]_vars => [Replica!ReplicaNext]_<<cur, states, Copy>>
  BY NextRefines, Zenon DEF AbstractStep
<1> QED
  BY <1>1, InitInv, NextInv, InitRefines, PTL DEF Spec, ImplementsReplica, Replica!ReplicaSpec
===========================================================================
