---------------------------- MODULE DataBroker ----------------------------
(***************************************************************************)
(* The databroker server (internal/databroker/server.go) over its          *)
(* in-memory backend (pkg/storage/inmemory), the change signal             *)
(* (internal/signal) and the syncers (pkg/grpc/databroker/syncer.go) that  *)
(* keep copies of the records in the other services.                       *)
(*                                                                         *)
(* The contents of a record are identified by the version its Put was      *)
(* given, so a lookup table maps a key to the version it holds, 0 when the *)
(* key is absent.  A backend is named by its number, and that number also  *)
(* stands for the random server version initVersion draws for it: a fresh  *)
(* non-zero value for every backend.                                       *)
(***************************************************************************)
EXTENDS Integers, Sequences, FiniteSets

CONSTANTS
  Clients,          \* callers of Put
  Syncers,          \* users of databroker.Syncer
  Keys,             \* the (type, id) pairs of records
  ServerVersionKey, \* the record initVersion stores
  Wants,            \* Wants[s]: the keys whose type passes the syncer's typeURL
  Expiry,           \* when changes are old enough to be removed, see below
  MaxUpdates,       \* bound on configuration changes of the server
  MaxRestarts,      \* bound on restarts of the broker process
  MaxVersion,       \* bound on the record versions of one backend
  MaxDrops,         \* bound on broken connections
  WireCap           \* records a Sync stream buffers before Send blocks

ASSUME KeysAssumption == ServerVersionKey \in Keys
ASSUME WantsAssumption == Wants \in [Syncers -> SUBSET Keys]
ASSUME BoundsAssumption ==
  /\ MaxUpdates \in Nat /\ MaxRestarts \in Nat /\ MaxDrops \in Nat
  /\ MaxVersion \in Nat \ {0} /\ WireCap \in Nat \ {0}
ASSUME ExpiryAssumption == Expiry \in {"never", "at rest", "any time"}

VARIABLES
  cur,           \* Server.backend, and with it Server.version
  lastVersion,   \* of each in-memory backend, its fields: lastVersion,
  lookup,        \*   lookup
  changes,       \*   and changes
  states,        \* history: states[b][v] is what b held after its v-th Put
  op,            \* the backend a client's Put call has captured, 0 when idle
  phase,         \* where each Syncer is in Run, init or sync
  recordVersion, \* Syncer.recordVersion
  serverVersion, \* Syncer.serverVersion
  asked,         \* the backend a SyncLatest call has captured
  latest,        \* what that call returned
  replica,       \* the records each syncer's handler holds
  shown,         \* history: the backend and version each handler last showed
  stream,        \* where the server side of each Sync call is in recordStream.Next
  bound,         \* of that recordStream: backend,
  version,       \*   version,
  ready,         \*   ready, a set because versions order it,
  changed,       \*   and whether its signal channel holds a token
  wire,          \* records sent on the Sync call and not yet received
  restarts,      \* restarts of the broker so far
  drops          \* broken connections so far

brokerVars == <<cur, lastVersion, lookup, changes, states, restarts>>
syncerVars == <<phase, recordVersion, serverVersion, asked, latest>>
handlerVars == <<replica, shown>>
streamVars == <<stream, bound, version, ready, changed, wire>>
vars == <<brokerVars, op, syncerVars, handlerVars, streamVars, drops>>

MaxBackends == 1 + MaxUpdates + MaxRestarts
Backend == 1..MaxBackends
Table == [Keys -> Nat]
Empty == [k \in Keys |-> 0]
Record == [version : Nat, key : Keys, deleted : BOOLEAN]

\* what a record does to the table it is put in: the backend's or a replica's
Apply(table, r) == [table EXCEPT ![r.key] = IF r.deleted THEN 0 ELSE r.version]

\* the part of a table a syncer asks for
Filtered(s, table) == [k \in Keys |-> IF k \in Wants[s] THEN table[k] ELSE 0]

\* what a backend with history h held after version v
StateAt(h, v) == IF v = 0 THEN Empty ELSE h[v]

\* initVersion finds no version in a new backend, so it draws one and puts it
ServerVersionRecord == [version |-> 1, key |-> ServerVersionKey, deleted |-> FALSE]
FirstTable == Apply(Empty, ServerVersionRecord)

Nothing == [records |-> Empty, recordVersion |-> 0, serverVersion |-> 0]

Init ==
  /\ cur = 1
  /\ lastVersion = [b \in Backend |-> IF b = 1 THEN 1 ELSE 0]
  /\ lookup = [b \in Backend |-> IF b = 1 THEN FirstTable ELSE Empty]
  /\ changes = [b \in Backend |-> IF b = 1 THEN {ServerVersionRecord} ELSE {}]
  /\ states = [b \in Backend |-> IF b = 1 THEN <<FirstTable>> ELSE <<>>]
  /\ op = [c \in Clients |-> 0]
  /\ phase = [s \in Syncers |-> "run"]
  /\ recordVersion = [s \in Syncers |-> 0]
  /\ serverVersion = [s \in Syncers |-> 0]
  /\ asked = [s \in Syncers |-> 0]
  /\ latest = [s \in Syncers |-> Nothing]
  /\ replica = [s \in Syncers |-> Empty]
  /\ shown = [s \in Syncers |-> [backend |-> 0, version |-> 0]]
  /\ stream = [s \in Syncers |-> "closed"]
  /\ bound = [s \in Syncers |-> 0]
  /\ version = [s \in Syncers |-> 0]
  /\ ready = [s \in Syncers |-> {}]
  /\ changed = [s \in Syncers |-> FALSE]
  /\ wire = [s \in Syncers |-> <<>>]
  /\ restarts = 0
  /\ drops = 0

---------------------------------------------------------------------------
(* Server and backend *)

\* Put calls getBackend, which reads the backend under the read lock ...
PutCall(c) ==
  /\ op[c] = 0
  /\ op' = [op EXCEPT ![c] = cur]
  /\ UNCHANGED <<brokerVars, syncerVars, handlerVars, streamVars, drops>>

\* mutant: the streams are not signalled
BroadcastNothing(b) == UNCHANGED changed

\* Signal.Broadcast: every channel bound to backend b holds a token afterwards
Broadcast(b) == changed' = [s \in Syncers |-> changed[s] \/ bound[s] = b]

\* Backend.Put: a version, a change, the lookup, and the signal
PutRecord(b, r) ==
  /\ lastVersion' = [lastVersion EXCEPT ![b] = r.version]
  /\ changes' = [changes EXCEPT ![b] = @ \union {r}]
  /\ lookup' = [lookup EXCEPT ![b] = Apply(@, r)]
  /\ states' = [states EXCEPT ![b] = Append(@, Apply(StateAt(@, lastVersion[b]), r))]
  /\ Broadcast(b)

\* ... and puts the record in the backend it read, replaced by now or not
PutApply(c) ==
  /\ op[c] # 0
  /\ lastVersion[op[c]] < MaxVersion
  /\ \E k \in Keys \ {ServerVersionKey}, del \in BOOLEAN :
       PutRecord(op[c], [version |-> lastVersion[op[c]] + 1, key |-> k, deleted |-> del])
  /\ op' = [op EXCEPT ![c] = 0]
  /\ UNCHANGED <<cur, restarts, syncerVars, handlerVars, stream, bound, version, ready, wire, drops>>

\* an hour, the default expiry, is long for a call or a stream able to run, but
\* a syncer may be out of reach (between two calls) for longer
StreamsAtRest ==
  \A s \in Syncers :
    /\ phase[s] \in {"run", "syncing"}
    /\ stream[s] = "closed" \/ (stream[s] = "wait" /\ ~ changed[s])
    /\ wire[s] = <<>>

\* the expiry ticker, which Close stops: the changes before the cutoff, which
\* are a prefix of them, are removed
RemoveChangesBefore ==
  /\ Expiry = "any time" \/ (Expiry = "at rest" /\ StreamsAtRest)
  /\ \E r \in changes[cur] :
       changes' = [changes EXCEPT ![cur] = {x \in @ : x.version > r.version}]
  /\ UNCHANGED <<cur, lastVersion, lookup, states, restarts, op, syncerVars, handlerVars, streamVars, drops>>

\* Backend.Close erases the current backend, then initVersion makes the next
ReplaceBackend ==
  /\ cur' = cur + 1
  /\ lastVersion' = [lastVersion EXCEPT ![cur + 1] = 1]
  /\ lookup' = [lookup EXCEPT ![cur] = Empty, ![cur + 1] = FirstTable]
  /\ changes' = [changes EXCEPT ![cur] = {}, ![cur + 1] = {ServerVersionRecord}]
  /\ states' = [states EXCEPT ![cur + 1] = <<FirstTable>>]

\* UpdateConfig with a changed configuration; calls and streams that hold the
\* old backend keep it
UpdateConfig ==
  /\ cur - 1 - restarts < MaxUpdates
  /\ ReplaceBackend
  /\ UNCHANGED <<restarts, op, syncerVars, handlerVars, streamVars, drops>>

\* the fields of the streams after those of the syncers in T ended
EndStreams(T) ==
  /\ stream' = [s \in Syncers |-> IF s \in T THEN "closed" ELSE stream[s]]
  /\ bound' = [s \in Syncers |-> IF s \in T THEN 0 ELSE bound[s]]
  /\ version' = [s \in Syncers |-> IF s \in T THEN 0 ELSE version[s]]
  /\ ready' = [s \in Syncers |-> IF s \in T THEN {} ELSE ready[s]]
  /\ changed' = [s \in Syncers |-> s \notin T /\ changed[s]]
  /\ wire' = [s \in Syncers |-> IF s \in T THEN <<>> ELSE wire[s]]

\* the broker process is restarted: its calls and streams end with it
Restart ==
  /\ restarts < MaxRestarts
  /\ restarts' = restarts + 1
  /\ ReplaceBackend
  /\ op' = [c \in Clients |-> 0]
  /\ EndStreams(Syncers)
  /\ phase' = [s \in Syncers |-> IF phase[s] \in {"latest", "syncing"} THEN "run" ELSE phase[s]]
  /\ UNCHANGED <<recordVersion, serverVersion, asked, latest, handlerVars, drops>>

---------------------------------------------------------------------------
(* The server side of a Sync call: recordStream.Next and stream.Send *)

\* getSince: the changes of b after version v
GetSince(b, v) == {r \in changes[b] : r.version > v}

\* fill found records: Next returns the first of them
StreamFill(s) ==
  /\ stream[s] = "fill"
  /\ ready' = [ready EXCEPT ![s] = GetSince(bound[s], version[s])]
  /\ \E last \in ready'[s] :
       /\ \A r \in ready'[s] : r.version <= last.version
       /\ version' = [version EXCEPT ![s] = last.version]
  /\ stream' = [stream EXCEPT ![s] = "send"]
  /\ UNCHANGED <<brokerVars, op, syncerVars, handlerVars, bound, changed, wire, drops>>

\* fill found nothing: Next waits for the signal
StreamWait(s) ==
  /\ stream[s] = "fill"
  /\ GetSince(bound[s], version[s]) = {}
  /\ stream' = [stream EXCEPT ![s] = "wait"]
  /\ UNCHANGED <<brokerVars, op, syncerVars, handlerVars, bound, version, ready, changed, wire, drops>>

StreamWake(s) ==
  /\ stream[s] = "wait"
  /\ changed[s]
  /\ changed' = [changed EXCEPT ![s] = FALSE]
  /\ stream' = [stream EXCEPT ![s] = "fill"]
  /\ UNCHANGED <<brokerVars, op, syncerVars, handlerVars, bound, version, ready, wire, drops>>

\* Send the first ready record; Next drops it, and fills again after the last
StreamSend(s) ==
  /\ stream[s] = "send"
  /\ Len(wire[s]) < WireCap
  /\ \E r \in ready[s] :
       /\ \A x \in ready[s] : r.version <= x.version
       /\ wire' = [wire EXCEPT ![s] = Append(@, r)]
       /\ ready' = [ready EXCEPT ![s] = @ \ {r}]
  /\ stream' = [stream EXCEPT ![s] = IF ready'[s] = {} THEN "fill" ELSE "send"]
  /\ UNCHANGED <<brokerVars, op, syncerVars, handlerVars, bound, version, changed, drops>>

---------------------------------------------------------------------------
(* Syncer.init: SyncLatest, ClearRecords, UpdateRecords *)

\* the SyncLatest handler reads the current backend ...
SyncLatestCall(s) ==
  /\ phase[s] = "run"
  /\ serverVersion[s] = 0
  /\ phase' = [phase EXCEPT ![s] = "latest"]
  /\ asked' = [asked EXCEPT ![s] = cur]
  /\ UNCHANGED <<brokerVars, op, recordVersion, serverVersion, latest, handlerVars, streamVars, drops>>

\* mutant: the records are not filtered by type
SyncLatestUnfiltered(s) ==
  /\ phase[s] = "latest"
  /\ phase' = [phase EXCEPT ![s] = "received"]
  /\ latest' = [latest EXCEPT ![s] = [records |-> lookup[asked[s]],
                                      recordVersion |-> lastVersion[asked[s]],
                                      serverVersion |-> asked[s]]]
  /\ UNCHANGED <<brokerVars, op, recordVersion, serverVersion, asked, handlerVars, streamVars, drops>>

\* what InitialSync collects from the stream of a SyncLatest call
InitialSync(s) == [records |-> Filtered(s, lookup[asked[s]]),
                   recordVersion |-> lastVersion[asked[s]],
                   serverVersion |-> asked[s]]

\* ... then GetAll under the backend's lock; the records of the wanted type and
\* the versions are streamed to the syncer
SyncLatestGetAll(s) ==
  /\ phase[s] = "latest"
  /\ phase' = [phase EXCEPT ![s] = "received"]
  /\ latest' = [latest EXCEPT ![s] = InitialSync(s)]
  /\ UNCHANGED <<brokerVars, op, recordVersion, serverVersion, asked, handlerVars, streamVars, drops>>

\* init clears what the handler holds ...
ClearRecords(s) ==
  /\ phase[s] = "received"
  /\ phase' = [phase EXCEPT ![s] = "cleared"]
  /\ replica' = [replica EXCEPT ![s] = Empty]
  /\ UNCHANGED <<brokerVars, op, recordVersion, serverVersion, asked, latest, shown, streamVars, drops>>

\* mutant: the record version is not reset
UpdateRecordsKeep(s) ==
  /\ phase[s] = "cleared"
  /\ phase' = [phase EXCEPT ![s] = "run"]
  /\ serverVersion' = [serverVersion EXCEPT ![s] = latest[s].serverVersion]
  /\ asked' = [asked EXCEPT ![s] = 0]
  /\ latest' = [latest EXCEPT ![s] = Nothing]
  /\ replica' = [replica EXCEPT ![s] = latest[s].records]
  /\ shown' = [shown EXCEPT ![s] = [backend |-> latest[s].serverVersion,
                                    version |-> latest[s].recordVersion]]
  /\ UNCHANGED <<brokerVars, op, recordVersion, streamVars, drops>>

\* ... sets both versions and hands over the records
UpdateRecords(s) ==
  /\ phase[s] = "cleared"
  /\ phase' = [phase EXCEPT ![s] = "run"]
  /\ recordVersion' = [recordVersion EXCEPT ![s] = latest[s].recordVersion]
  /\ serverVersion' = [serverVersion EXCEPT ![s] = latest[s].serverVersion]
  /\ asked' = [asked EXCEPT ![s] = 0]
  /\ latest' = [latest EXCEPT ![s] = Nothing]
  /\ replica' = [replica EXCEPT ![s] = latest[s].records]
  /\ shown' = [shown EXCEPT ![s] = [backend |-> latest[s].serverVersion,
                                    version |-> latest[s].recordVersion]]
  /\ UNCHANGED <<brokerVars, op, streamVars, drops>>

---------------------------------------------------------------------------
(* Syncer.sync: the Sync call and its receive loop *)

\* the server compares versions and binds a stream to its backend
SyncOpen(s) ==
  /\ phase[s] = "run"
  /\ serverVersion[s] = cur
  /\ phase' = [phase EXCEPT ![s] = "syncing"]
  /\ stream' = [stream EXCEPT ![s] = "fill"]
  /\ bound' = [bound EXCEPT ![s] = cur]
  /\ version' = [version EXCEPT ![s] = recordVersion[s]]
  /\ UNCHANGED <<brokerVars, op, recordVersion, serverVersion, asked, latest, handlerVars,
                 ready, changed, wire, drops>>

\* mutants: the server version is kept, or reset to a value that is no version
SyncAbortedKeep(s) ==
  /\ phase[s] = "run"
  /\ serverVersion[s] \notin {0, cur}
  /\ UNCHANGED vars

SyncAbortedUnset(s) ==
  /\ phase[s] = "run"
  /\ serverVersion[s] \notin {0, cur}
  /\ serverVersion' = [serverVersion EXCEPT ![s] = -1]
  /\ UNCHANGED <<brokerVars, op, phase, recordVersion, asked, latest, handlerVars, streamVars, drops>>

\* Aborted: the server has another version, so the syncer starts over
SyncAborted(s) ==
  /\ phase[s] = "run"
  /\ serverVersion[s] \notin {0, cur}
  /\ serverVersion' = [serverVersion EXCEPT ![s] = 0]
  /\ UNCHANGED <<brokerVars, op, phase, recordVersion, asked, latest, handlerVars, streamVars, drops>>

\* mutant: the version of a received record is not compared
RecvUnchecked(s) ==
  LET r == Head(wire[s]) IN
  /\ phase[s] = "syncing"
  /\ wire[s] # <<>>
  /\ recordVersion' = [recordVersion EXCEPT ![s] = r.version]
  /\ replica' = [replica EXCEPT ![s] = IF r.key \in Wants[s] THEN Apply(@, r) ELSE @]
  /\ shown' = [shown EXCEPT ![s] = [backend |-> serverVersion[s], version |-> r.version]]
  /\ wire' = [wire EXCEPT ![s] = Tail(@)]
  /\ UNCHANGED <<brokerVars, op, phase, serverVersion, asked, latest,
                 stream, bound, version, ready, changed, drops>>

\* a received record is the next one: it is applied if its type is wanted
RecvNext(s) ==
  LET r == Head(wire[s]) IN
  /\ phase[s] = "syncing"
  /\ wire[s] # <<>>
  /\ recordVersion[s] = r.version - 1
  /\ recordVersion' = [recordVersion EXCEPT ![s] = r.version]
  /\ replica' = [replica EXCEPT ![s] = IF r.key \in Wants[s] THEN Apply(@, r) ELSE @]
  /\ shown' = [shown EXCEPT ![s] = [backend |-> serverVersion[s], version |-> r.version]]
  /\ wire' = [wire EXCEPT ![s] = Tail(@)]
  /\ UNCHANGED <<brokerVars, op, phase, serverVersion, asked, latest,
                 stream, bound, version, ready, changed, drops>>

\* a received record is not the next one: sync gives up and init follows
RecvGap(s) ==
  /\ phase[s] = "syncing"
  /\ wire[s] # <<>>
  /\ recordVersion[s] # Head(wire[s]).version - 1
  /\ phase' = [phase EXCEPT ![s] = "run"]
  /\ serverVersion' = [serverVersion EXCEPT ![s] = 0]
  /\ EndStreams({s})
  /\ UNCHANGED <<brokerVars, op, recordVersion, asked, latest, handlerVars, drops>>

\* the connection breaks: the call in progress fails and is made again
ConnectionLost(s) ==
  /\ drops < MaxDrops
  /\ drops' = drops + 1
  /\ phase[s] \in {"latest", "syncing"}
  /\ phase' = [phase EXCEPT ![s] = "run"]
  /\ EndStreams({s})
  /\ UNCHANGED <<brokerVars, op, recordVersion, serverVersion, asked, latest, handlerVars>>

---------------------------------------------------------------------------
ClientNext(c) == PutCall(c) \/ PutApply(c)

StreamNext(s) == StreamFill(s) \/ StreamWait(s) \/ StreamWake(s) \/ StreamSend(s)

SyncerNext(s) ==
  \/ SyncLatestCall(s) \/ SyncLatestGetAll(s) \/ ClearRecords(s) \/ UpdateRecords(s)
  \/ SyncOpen(s) \/ SyncAborted(s) \/ RecvNext(s) \/ RecvGap(s)

Next ==
  \/ \E c \in Clients : ClientNext(c)
  \/ \E s \in Syncers : StreamNext(s) \/ SyncerNext(s) \/ ConnectionLost(s)
  \/ RemoveChangesBefore
  \/ UpdateConfig
  \/ Restart

Spec == Init /\ [][Next]_vars

\* Handlers and syncers are goroutines that keep running; nothing obliges a
\* client to call, a configuration to change or a connection to break.
Fairness ==
  /\ \A c \in Clients : WF_vars(PutApply(c))
  /\ \A s \in Syncers : WF_vars(StreamNext(s)) /\ WF_vars(SyncerNext(s))

FairSpec == Spec /\ Fairness

---------------------------------------------------------------------------
(* Properties *)

\* the types of the variables
TypeOK ==
  /\ cur \in Backend
  /\ lastVersion \in [Backend -> Nat]
  /\ lookup \in [Backend -> Table]
  /\ changes \in [Backend -> SUBSET Record]
  /\ states \in [Backend -> Seq(Table)]
  /\ op \in [Clients -> 0..MaxBackends]
  /\ phase \in [Syncers -> {"run", "latest", "received", "cleared", "syncing"}]
  /\ recordVersion \in [Syncers -> Nat]
  /\ serverVersion \in [Syncers -> 0..MaxBackends]
  /\ asked \in [Syncers -> 0..MaxBackends]
  /\ latest \in [Syncers -> [records : Table, recordVersion : Nat, serverVersion : 0..MaxBackends]]
  /\ replica \in [Syncers -> Table]
  /\ shown \in [Syncers -> [backend : 0..MaxBackends, version : Nat]]
  /\ stream \in [Syncers -> {"closed", "fill", "wait", "send"}]
  /\ bound \in [Syncers -> 0..MaxBackends]
  /\ version \in [Syncers -> Nat]
  /\ ready \in [Syncers -> SUBSET Record]
  /\ changed \in [Syncers -> BOOLEAN]
  /\ wire \in [Syncers -> Seq(Record)]
  /\ restarts \in Nat
  /\ drops \in Nat

\* A syncer that follows the server's current backend, or that still reads the
\* stream of a replaced one, holds exactly the records of its type which that
\* backend held after the Put numbered recordVersion: nothing is missed, applied
\* twice or kept after a delete, whatever expires, breaks or restarts meanwhile
\* (syncer.go, sync and init).
ReplicaConsistent ==
  \A s \in Syncers :
    serverVersion[s] = cur \/ phase[s] = "syncing" =>
      replica[s] = Filtered(s, StateAt(states[serverVersion[s]], recordVersion[s]))

\* A stream that waits for the signal with no token in its channel has nothing
\* to fetch: no Put between fill and the wait is lost (stream.go, Next with
\* signal.go, Bind and Broadcast).
NoLostWakeup ==
  \A s \in Syncers :
    stream[s] = "wait" /\ ~ changed[s] => GetSince(bound[s], version[s]) = {}

\* What a handler shows never goes back, not even over a restarted sync: it
\* moves to a later version of the same backend or to a later backend
\* (syncer.go, init and sync).
MonotoneView ==
  [][\A s \in Syncers :
       \/ shown'[s].backend > shown[s].backend
       \/ /\ shown'[s].backend = shown[s].backend
          /\ shown'[s].version >= shown[s].version]_vars

\* the abstract state: the contents of each backend, and what handlers show
Copy == [s \in Syncers |-> [live |-> serverVersion[s] # 0, epoch |-> shown[s].backend,
                            version |-> shown[s].version, records |-> replica[s]]]

Replica == INSTANCE RecordReplica WITH
  Copies <- Syncers, Selects <- Wants, epoch <- cur, history <- states, copy <- Copy

\* The broker with its syncers implements the promise of RecordReplica: a
\* handler only ever shows what its backend held after some Put, one Put at a
\* time or reloaded from a snapshot that is no older (server.go Put, Sync and
\* SyncLatest with syncer.go init and sync).
ImplementsReplica == Replica!ReplicaSpec

\* Every syncer ends up with the records of the current backend once clients
\* stop writing, over restarts of the broker and broken connections (syncer.go,
\* Run; stream.go, Next).
Convergence ==
  <>[](\A s \in Syncers : replica[s] = Filtered(s, lookup[cur]))

\* "If the server version changes `ClearRecords` will be called and the process
\* will start over" (syncer.go:47).
StartsOver ==
  \A s \in Syncers : serverVersion[s] \notin {0, cur} ~> phase[s] = "cleared"
===========================================================================
