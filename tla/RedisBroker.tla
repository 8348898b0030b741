---------------------------- MODULE RedisBroker ----------------------------
(***************************************************************************)
(* The redis storage backend (pkg/storage/redis) under several databroker  *)
(* servers that share it, and the syncers of other services.               *)
(*                                                                         *)
(* Redis runs single commands and transactions one at a time.  A Put is an *)
(* optimistic transaction: it watches and reads the last version, and its  *)
(* EXEC fails if the version has changed since.  GetAll reads the version  *)
(* and then the records, with anything in between.  As in DataBroker the   *)
(* contents of a record are the version of its Put, and a table maps keys  *)
(* to versions.                                                            *)
(***************************************************************************)
EXTENDS Integers, Sequences, FiniteSets

CONSTANTS
  Clients,          \* callers of Put
  Servers,          \* databroker servers over the same redis
  Syncers,          \* users of databroker.Syncer
  Keys,             \* the (type, id) pairs of records
  ServerVersionKey, \* the record initVersion stores
  MaxTransactionRetries, \* maxTransactionRetries
  MaxPuts,          \* bound on the calls of Put
  MaxFaults,        \* bound on failing redis calls, lost connections and restarts
  Expires           \* whether old changes are removed

ASSUME KeysAssumption == ServerVersionKey \in Keys
ASSUME WritersAssumption == Clients \intersect Servers = {}
ASSUME BoundsAssumption ==
  /\ MaxTransactionRetries \in Nat \ {0} /\ MaxPuts \in Nat
  /\ MaxFaults \in Nat
ASSUME ExpiresAssumption == Expires \in BOOLEAN

VARIABLES
  lastVersion, \* redis: the last version key
  records,     \* redis: the records hash
  changes,     \* redis: the sorted set of changes
  stored,      \* the server version in the record of ServerVersionKey, 0 for none
  log,         \* history: the records committed, in order
  tables,      \* history: what the records hash held after each
  tx,          \* where each writer is in incrementVersion
  read,        \* the last version it read under WATCH
  tries,       \* the transactions it has tried
  record,      \* the record it puts
  server,      \* where each server is: init, saving or up
  version,     \* Server.version, random and here numbered as drawn, 0 for none
  drawn,       \* the versions drawn so far
  phase,       \* where each syncer is
  recordVersion, serverVersion, \* fields of the Syncer
  at,          \* the server its call is made to
  latest,      \* the last version its SyncLatest call has read
  loaded,      \* history: the last version when that call read the records
  replica,     \* the records its handler holds
  stream,      \* where the server side of its Sync call is: closed, query or wait
  position,    \* version of that recordStream
  changed,     \* whether its signal channel holds a token
  wire,        \* the record sent on the call and not yet received
  puts, faults

redisVars == <<lastVersion, records, changes, stored, log, tables>>
txVars == <<tx, read, tries, record>>
serverVars == <<server, version, drawn>>
syncerVars == <<phase, recordVersion, serverVersion, at, latest, loaded, replica>>
streamVars == <<stream, position, changed, wire>>
counters == <<puts, faults>>
vars == <<redisVars, txVars, serverVars, syncerVars, streamVars, counters>>

Writers == Clients \union Servers
NoServer == "none"
Table == [Keys -> Nat]
Empty == [k \in Keys |-> 0]
\* put numbers the Put calls, and tells the records of two of them apart
Record == [version : Nat, key : Keys, deleted : BOOLEAN, put : Nat]
NewRecord(k, del, p) == [version |-> 0, key |-> k, deleted |-> del, put |-> p]
NoRecord == NewRecord(ServerVersionKey, FALSE, 0)

Apply(table, r) == [table EXCEPT ![r.key] = IF r.deleted THEN 0 ELSE r.version]

\* what the records hash held after version v
StateAt(v) == IF v = 0 THEN Empty ELSE tables[v]

Init ==
  /\ lastVersion = 0 /\ records = Empty /\ changes = {} /\ stored = 0
  /\ log = <<>> /\ tables = <<>>
  /\ tx = [w \in Writers |-> "idle"]
  /\ read = [w \in Writers |-> 0]
  /\ tries = [w \in Writers |-> 0]
  /\ record = [w \in Writers |-> NoRecord]
  /\ server = [v \in Servers |-> "init"]
  /\ version = [v \in Servers |-> 0]
  /\ drawn = 0
  /\ phase = [s \in Syncers |-> "run"]
  /\ recordVersion = [s \in Syncers |-> 0]
  /\ serverVersion = [s \in Syncers |-> 0]
  /\ at = [s \in Syncers |-> NoServer]
  /\ latest = [s \in Syncers |-> 0]
  /\ loaded = [s \in Syncers |-> 0]
  /\ replica = [s \in Syncers |-> Empty]
  /\ stream = [s \in Syncers |-> "closed"]
  /\ position = [s \in Syncers |-> 0]
  /\ changed = [s \in Syncers |-> FALSE]
  /\ wire = [s \in Syncers |-> <<>>]
  /\ puts = 0 /\ faults = 0

---------------------------------------------------------------------------
(* Put: incrementVersion *)

\* a client's Put reaches a server
PutCall(c) ==
  /\ puts < MaxPuts
  /\ puts' = puts + 1
  /\ tx[c] = "idle"
  /\ \E v \in Servers : server[v] = "up"
  /\ \E k \in Keys \ {ServerVersionKey}, del \in BOOLEAN :
       record' = [record EXCEPT ![c] = NewRecord(k, del, puts + 1)]
  /\ tx' = [tx EXCEPT ![c] = "begin"]
  /\ UNCHANGED <<redisVars, read, tries, serverVars, syncerVars, streamVars, faults>>

\* WATCH and GET of the last version; a change between the two only makes EXEC
\* fail, as one after them does
TxRead(w) ==
  /\ tx[w] = "begin"
  /\ tx' = [tx EXCEPT ![w] = "exec"]
  /\ read' = [read EXCEPT ![w] = lastVersion]
  /\ tries' = [tries EXCEPT ![w] = @ + 1]
  /\ UNCHANGED <<redisVars, record, serverVars, syncerVars, streamVars, counters>>

\* the variables of the call are gone
EndTx(w) ==
  /\ tx' = [tx EXCEPT ![w] = "idle"]
  /\ read' = [read EXCEPT ![w] = 0]
  /\ tries' = [tries EXCEPT ![w] = 0]
  /\ record' = [record EXCEPT ![w] = NoRecord]

\* the writer's call returns; initVersion ends whatever became of its Put
Return(w) ==
  /\ EndTx(w)
  /\ server' = IF w \in Servers THEN [server EXCEPT ![w] = "up"] ELSE server

\* the commands of the transaction: the record, the change, the last version,
\* and the message to the servers, some of which may miss it
Commit(w) ==
  LET r == [version |-> read[w] + 1, key |-> record[w].key, deleted |-> record[w].deleted,
            put |-> record[w].put] IN
  /\ lastVersion' = read[w] + 1
  /\ records' = Apply(records, r)
  /\ changes' = changes \union {r}
  /\ stored' = IF w \in Servers THEN version[w] ELSE stored
  /\ log' = Append(log, r)
  /\ tables' = Append(tables, records')
  /\ \E heard \in SUBSET Servers :
       changed' = [s \in Syncers |-> changed[s] \/ (stream[s] # "closed" /\ at[s] \in heard)]

\* mutants: the version is not watched; a commit without an answer is retried
TxExecUnwatched(w) ==
  /\ tx[w] = "exec"
  /\ Commit(w)
  /\ Return(w)
  /\ UNCHANGED <<version, drawn, syncerVars, stream, position, wire, counters>>

TxExecRetried(w) ==
  /\ tx[w] = "exec"
  /\ lastVersion = read[w]
  /\ Commit(w)
  /\ \/ Return(w)
     \/ /\ tries[w] < MaxTransactionRetries
        /\ tx' = [tx EXCEPT ![w] = "begin"]
        /\ UNCHANGED <<read, tries, record, server>>
  /\ UNCHANGED <<version, drawn, syncerVars, stream, position, wire, counters>>

\* EXEC succeeds; whether or not the answer arrives, Put returns
TxExec(w) ==
  /\ tx[w] = "exec"
  /\ lastVersion = read[w]
  /\ Commit(w)
  /\ Return(w)
  /\ UNCHANGED <<version, drawn, syncerVars, stream, position, wire, counters>>

\* mutant: no limit
TxFailedForever(w) ==
  /\ tx[w] = "exec"
  /\ lastVersion # read[w]
  /\ tx' = [tx EXCEPT ![w] = "begin"]
  /\ UNCHANGED <<redisVars, read, tries, record, serverVars, syncerVars, streamVars, counters>>

\* TxFailedErr: another try, up to a limit
TxFailed(w) ==
  /\ tx[w] = "exec"
  /\ lastVersion # read[w]
  /\ \/ /\ tries[w] < MaxTransactionRetries
        /\ tx' = [tx EXCEPT ![w] = "begin"]
        /\ UNCHANGED <<read, tries, record, server>>
     \/ /\ tries[w] = MaxTransactionRetries
        /\ Return(w)
  /\ UNCHANGED <<redisVars, version, drawn, syncerVars, streamVars, counters>>

\* any other error ends the call
TxError(w) ==
  /\ faults < MaxFaults
  /\ faults' = faults + 1
  /\ tx[w] \in {"begin", "exec"}
  /\ Return(w)
  /\ UNCHANGED <<redisVars, version, drawn, syncerVars, streamVars,
                 puts>>

\* removeChangesBefore: the oldest change goes
RemoveChange ==
  /\ Expires
  /\ \E r \in changes :
       /\ \A x \in changes : r.version <= x.version
       /\ changes' = changes \ {r}
  /\ UNCHANGED <<lastVersion, records, stored, log, tables, txVars, serverVars, syncerVars, streamVars, counters>>

---------------------------------------------------------------------------
(* Server.initVersion, and restarts *)

\* the version of an earlier server is found, or a new one is drawn and put
InitVersion(v) ==
  /\ server[v] = "init"
  /\ \/ /\ stored # 0
        /\ version' = [version EXCEPT ![v] = stored]
        /\ server' = [server EXCEPT ![v] = "up"]
        /\ UNCHANGED <<drawn, txVars, puts>>
     \/ /\ stored = 0
        /\ drawn' = drawn + 1
        /\ version' = [version EXCEPT ![v] = drawn + 1]
        /\ server' = [server EXCEPT ![v] = "saving"]
        /\ tx' = [tx EXCEPT ![v] = "begin"]
        /\ record' = [record EXCEPT ![v] = NewRecord(ServerVersionKey, FALSE, puts + 1)]
        /\ puts' = puts + 1
        /\ UNCHANGED <<read, tries>>
  /\ UNCHANGED <<redisVars, syncerVars, streamVars, faults>>

\* the version cannot be read: the server runs without one
InitVersionFails(v) ==
  /\ faults < MaxFaults
  /\ faults' = faults + 1
  /\ server[v] = "init"
  /\ server' = [server EXCEPT ![v] = "up"]
  /\ UNCHANGED <<redisVars, txVars, version, drawn, syncerVars, streamVars, puts>>

\* the calls of the syncers in T end
EndCalls(T) ==
  /\ phase' = [s \in Syncers |-> IF s \in T THEN "run" ELSE phase[s]]
  /\ at' = [s \in Syncers |-> IF s \in T THEN NoServer ELSE at[s]]
  /\ stream' = [s \in Syncers |-> IF s \in T THEN "closed" ELSE stream[s]]
  /\ position' = [s \in Syncers |-> IF s \in T THEN 0 ELSE position[s]]
  /\ changed' = [s \in Syncers |-> s \notin T /\ changed[s]]
  /\ wire' = [s \in Syncers |-> IF s \in T THEN <<>> ELSE wire[s]]

\* a server is restarted, at any point of initVersion too
Restart(v) ==
  /\ faults < MaxFaults
  /\ faults' = faults + 1
  /\ server' = [server EXCEPT ![v] = "init"]
  /\ version' = [version EXCEPT ![v] = 0]
  /\ EndTx(v)
  /\ EndCalls({s \in Syncers : at[s] = v})
  /\ UNCHANGED <<redisVars, drawn,
                 recordVersion, serverVersion, latest, loaded, replica, puts>>

---------------------------------------------------------------------------
(* SyncLatest and GetAll *)

\* the version is read first; without one the pipeline fails and the syncer
\* tries again
GetAllVersion(s) ==
  /\ phase[s] = "run"
  /\ serverVersion[s] = 0
  /\ lastVersion # 0
  /\ \E v \in Servers : server[v] = "up" /\ at' = [at EXCEPT ![s] = v]
  /\ latest' = [latest EXCEPT ![s] = lastVersion]
  /\ phase' = [phase EXCEPT ![s] = "values"]
  /\ UNCHANGED <<redisVars, txVars, serverVars, recordVersion, serverVersion, loaded, replica,
                 streamVars, counters>>

\* mutant: the version is read after the records
GetAllValuesFirst(s) ==
  /\ phase[s] = "values"
  /\ \E v \in latest[s]..lastVersion :
       /\ replica' = [replica EXCEPT ![s] = StateAt(v)]
       /\ loaded' = [loaded EXCEPT ![s] = v]
  /\ recordVersion' = [recordVersion EXCEPT ![s] = lastVersion]
  /\ serverVersion' = [serverVersion EXCEPT ![s] = version[at[s]]]
  /\ latest' = [latest EXCEPT ![s] = 0]
  /\ phase' = [phase EXCEPT ![s] = "run"]
  /\ at' = [at EXCEPT ![s] = NoServer]
  /\ UNCHANGED <<redisVars, txVars, serverVars, streamVars, counters>>

\* then the records, which the syncer hands to its handler
GetAllValues(s) ==
  /\ phase[s] = "values"
  /\ replica' = [replica EXCEPT ![s] = records]
  /\ loaded' = [loaded EXCEPT ![s] = lastVersion]
  /\ recordVersion' = [recordVersion EXCEPT ![s] = latest[s]]
  /\ serverVersion' = [serverVersion EXCEPT ![s] = version[at[s]]]
  /\ latest' = [latest EXCEPT ![s] = 0]
  /\ phase' = [phase EXCEPT ![s] = "run"]
  /\ at' = [at EXCEPT ![s] = NoServer]
  /\ UNCHANGED <<redisVars, txVars, serverVars, streamVars, counters>>

---------------------------------------------------------------------------
(* Sync: the record stream of the server, and the syncer's end *)

SyncOpen(s) ==
  /\ phase[s] = "run"
  /\ serverVersion[s] # 0
  /\ \E v \in Servers :
       /\ server[v] = "up"
       /\ version[v] = serverVersion[s]
       /\ at' = [at EXCEPT ![s] = v]
  /\ phase' = [phase EXCEPT ![s] = "syncing"]
  /\ stream' = [stream EXCEPT ![s] = "query"]
  /\ position' = [position EXCEPT ![s] = recordVersion[s]]
  /\ UNCHANGED <<redisVars, txVars, serverVars, recordVersion, serverVersion, latest, loaded,
                 replica, changed, wire, counters>>

\* a server with another version aborts the call
SyncAborted(s) ==
  /\ phase[s] = "run"
  /\ serverVersion[s] # 0
  /\ \E v \in Servers : server[v] = "up" /\ version[v] # serverVersion[s]
  /\ serverVersion' = [serverVersion EXCEPT ![s] = 0]
  /\ UNCHANGED <<redisVars, txVars, serverVars, phase, recordVersion, at, latest, loaded, replica,
                 streamVars, counters>>

\* mutant: the range includes position
NextChangeFrom(s) ==
  {r \in changes : r.version >= position[s] /\
     \A x \in changes : x.version >= position[s] => r.version <= x.version}

\* the first change after position, if there is one
NextChange(s) ==
  {r \in changes : r.version > position[s] /\
     \A x \in changes : x.version > position[s] => r.version <= x.version}

\* Next finds a change, which Sync sends, or waits
StreamQuery(s) ==
  /\ stream[s] = "query"
  /\ wire[s] = <<>>
  /\ \/ /\ NextChange(s) = {}
        /\ stream' = [stream EXCEPT ![s] = "wait"]
        /\ UNCHANGED <<position, wire>>
     \/ \E r \in NextChange(s) :
          /\ wire' = [wire EXCEPT ![s] = <<r>>]
          /\ position' = [position EXCEPT ![s] = @ + 1]
          /\ UNCHANGED stream
  /\ UNCHANGED <<redisVars, txVars, serverVars, syncerVars, changed, counters>>

\* mutant: the ticker does not make Next check again
StreamSignalled(s) ==
  /\ stream[s] = "wait"
  /\ stream' = [stream EXCEPT ![s] = IF changed[s] THEN "query" ELSE "wait"]
  /\ changed' = [changed EXCEPT ![s] = FALSE]
  /\ UNCHANGED <<redisVars, txVars, serverVars, syncerVars, position, wire, counters>>

\* the signal, or the ticker whether or not there is a signal
StreamWake(s) ==
  /\ stream[s] = "wait"
  /\ stream' = [stream EXCEPT ![s] = "query"]
  /\ \/ changed' = [changed EXCEPT ![s] = FALSE]
     \/ UNCHANGED changed
  /\ UNCHANGED <<redisVars, txVars, serverVars, syncerVars, position, wire, counters>>

\* a query fails, or the connection of a call is lost
CallFails(s) ==
  /\ faults < MaxFaults
  /\ faults' = faults + 1
  /\ phase[s] # "run"
  /\ EndCalls({s})
  /\ UNCHANGED <<redisVars, txVars, serverVars, recordVersion, serverVersion, latest, loaded,
                 replica, puts>>

RecvNext(s) ==
  LET r == Head(wire[s]) IN
  /\ wire[s] # <<>>
  /\ recordVersion[s] = r.version - 1
  /\ recordVersion' = [recordVersion EXCEPT ![s] = r.version]
  /\ replica' = [replica EXCEPT ![s] = Apply(@, r)]
  /\ wire' = [wire EXCEPT ![s] = <<>>]
  /\ UNCHANGED <<redisVars, txVars, serverVars, phase, serverVersion, at, latest, loaded,
                 stream, position, changed, counters>>

\* a record that is not the next one: the syncer starts over
RecvGap(s) ==
  /\ wire[s] # <<>>
  /\ recordVersion[s] # Head(wire[s]).version - 1
  /\ serverVersion' = [serverVersion EXCEPT ![s] = 0]
  /\ EndCalls({s})
  /\ UNCHANGED <<redisVars, txVars, serverVars, recordVersion, latest, loaded, replica, counters>>

---------------------------------------------------------------------------
WriterNext(w) == TxRead(w) \/ TxExec(w) \/ TxFailed(w)
SyncerNext(s) ==
  \/ GetAllVersion(s) \/ GetAllValues(s) \/ SyncOpen(s) \/ SyncAborted(s)
  \/ StreamQuery(s) \/ StreamWake(s) \/ RecvNext(s) \/ RecvGap(s)

Next ==
  \/ \E c \in Clients : PutCall(c)
  \/ \E w \in Writers : WriterNext(w) \/ TxError(w)
  \/ \E v \in Servers : InitVersion(v) \/ InitVersionFails(v) \/ Restart(v)
  \/ \E s \in Syncers : SyncerNext(s) \/ CallFails(s)
  \/ RemoveChange

\* Servers, streams and syncers keep running and the ticker keeps ticking;
\* nothing obliges a client to call, redis to fail or a server to restart.
Fairness ==
  /\ \A w \in Writers : WF_vars(WriterNext(w))
  /\ \A v \in Servers : WF_vars(InitVersion(v))
  /\ \A s \in Syncers : WF_vars(SyncerNext(s))

Spec == Init /\ [][Next]_vars
FairSpec == Spec /\ Fairness

---------------------------------------------------------------------------
(* Properties *)

\* the types of the variables
TypeOK ==
  /\ lastVersion \in Nat /\ records \in Table /\ changes \subseteq Record
  /\ stored \in Nat /\ log \in Seq(Record) /\ tables \in Seq(Table)
  /\ tx \in [Writers -> {"idle", "begin", "exec"}]
  /\ read \in [Writers -> Nat]
  /\ tries \in [Writers -> 0..MaxTransactionRetries]
  /\ record \in [Writers -> Record]
  /\ server \in [Servers -> {"init", "saving", "up"}]
  /\ version \in [Servers -> Nat] /\ drawn \in Nat
  /\ phase \in [Syncers -> {"run", "values", "syncing"}]
  /\ recordVersion \in [Syncers -> Nat] /\ serverVersion \in [Syncers -> Nat]
  /\ at \in [Syncers -> Servers \union {NoServer}]
  /\ latest \in [Syncers -> Nat] /\ loaded \in [Syncers -> Nat]
  /\ replica \in [Syncers -> Table]
  /\ stream \in [Syncers -> {"closed", "query", "wait"}]
  /\ position \in [Syncers -> Nat] /\ changed \in [Syncers -> BOOLEAN]
  /\ wire \in [Syncers -> Seq(Record)] /\ \A s \in Syncers : Len(wire[s]) <= 1
  /\ puts \in Nat /\ faults \in 0..MaxFaults

\* Transactions are serial although writers on several servers run them at
\* once: no two records share a version, none is skipped, and the records and
\* the changes are those of the log (incrementVersion).
SerialCommits ==
  /\ lastVersion = Len(log) /\ lastVersion = Len(tables)
  /\ \A i \in 1..lastVersion : log[i].version = i /\ tables[i] = Apply(StateAt(i - 1), log[i])
  /\ records = StateAt(lastVersion)
  /\ \A r \in changes : r.version \in 1..lastVersion /\ r = log[r.version]

\* A Put writes its record at most once, over all the transactions it tries,
\* and one that is retried or gives up has written nothing (incrementVersion).
CommittedOnce ==
  /\ \A i, j \in 1..Len(log) : log[i].put = log[j].put => i = j
  /\ \A w \in Writers : tx[w] # "idle" => \A i \in 1..Len(log) : log[i].put # record[w].put

\* GetAll may return records newer than the version it returns.  The syncer
\* then receives the changes in between again, and until it has caught up each
\* record it holds is the one of its version or the one of the later load; from
\* then on it holds the records of its version (GetAll, Syncer.init and sync).
ReplicaSettles ==
  \A s \in Syncers : serverVersion[s] # 0 =>
    /\ \A k \in Keys :
         replica[s][k] \in {StateAt(recordVersion[s])[k], StateAt(loaded[s])[k]}
    /\ recordVersion[s] >= loaded[s] => replica[s] = StateAt(recordVersion[s])

\* A stream sends each record once and in order, whichever server it is at: a
\* syncer sees a gap only when the change that comes next has been removed
\* (recordStream.Next).
GapOnlyAfterRemoval ==
  \A s \in Syncers :
    wire[s] # <<>> /\ Head(wire[s]).version # recordVersion[s] + 1
      => /\ recordVersion[s] + 1 \in 1..lastVersion
         /\ \A r \in changes : r.version # recordVersion[s] + 1

\* When the servers agree on their version and no change is removed, every
\* syncer ends up with the records in redis, although the message that announces
\* a change may be lost (Next polls).
SyncersConverge ==
  /\ <>[](\A v \in Servers : server[v] = "up" /\ version[v] # 0 /\ version[v] = stored)
  /\ [](Cardinality(changes) = lastVersion)
  => \A s \in Syncers : <>[](replica[s] = records)
=============================================================================
