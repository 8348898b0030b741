------------------------- MODULE RedisBrokerProofs -------------------------
(***************************************************************************)
(* Proofs for RedisBroker, for any number of clients, servers, syncers,    *)
(* retries and faults: the type invariant, that the transactions of Put    *)
(* are serial and write a record once, that a copy settles, and that a     *)
(* syncer meets a gap only when a change has been removed.                 *)
(***************************************************************************)
EXTENDS RedisBroker, TLAPS

RedisTypes ==
  /\ lastVersion \in Nat /\ records \in Table /\ changes \subseteq Record
  /\ stored \in Nat /\ log \in Seq(Record) /\ tables \in Seq(Table)

TxTypes ==
  /\ tx \in [Writers -> {"idle", "begin", "exec"}]
  /\ read \in [Writers -> Nat]
  /\ tries \in [Writers -> 0..MaxTransactionRetries]
  /\ record \in [Writers -> Record]

ServerTypes ==
  /\ server \in [Servers -> {"init", "saving", "up"}]
  /\ version \in [Servers -> Nat] /\ drawn \in Nat

SyncerTypes ==
  /\ phase \in [Syncers -> {"run", "values", "syncing"}]
  /\ recordVersion \in [Syncers -> Nat] /\ serverVersion \in [Syncers -> Nat]
  /\ at \in [Syncers -> Servers \union {NoServer}]
  /\ latest \in [Syncers -> Nat] /\ loaded \in [Syncers -> Nat]
  /\ replica \in [Syncers -> Table]

StreamTypes ==
  /\ stream \in [Syncers -> {"closed", "query", "wait"}]
  /\ position \in [Syncers -> Nat] /\ changed \in [Syncers -> BOOLEAN]
  /\ wire \in [Syncers -> Seq(Record)] /\ \A s \in Syncers : Len(wire[s]) <= 1

\* the puts of the log and of the calls in progress are different calls
PutsInv ==
  /\ \A i \in 1..Len(log) : log[i].put <= puts
  /\ \A w \in Writers : record[w].put <= puts
  /\ \A w, x \in Writers :
       tx[w] # "idle" /\ tx[x] # "idle" /\ record[w].put = record[x].put => w = x

\* a writer tries again within the limit, and a server writes in initVersion only
TriesInv ==
  \A w \in Writers :
    /\ tx[w] = "begin" => tries[w] < MaxTransactionRetries
    /\ tx[w] = "idle" => tries[w] = 0
    /\ w \in Servers /\ server[w] # "saving" => tx[w] = "idle"

\* a call a syncer has in progress is at a server
AtInv == \A s \in Syncers : phase[s] = "values" => at[s] \in Servers

CallInv == PutsInv /\ TriesInv /\ CommittedOnce

IInv == TypeOK /\ AtInv /\ CallInv /\ SerialCommits

---------------------------------------------------------------------------
(* The operators *)

LEMMA TypeParts ==
  TypeOK <=> /\ RedisTypes /\ TxTypes /\ ServerTypes /\ SyncerTypes /\ StreamTypes
             /\ puts \in Nat /\ faults \in 0..MaxFaults
BY Zenon DEF TypeOK, RedisTypes, TxTypes, ServerTypes, SyncerTypes, StreamTypes

LEMMA TypePartsNext ==
  /\ RedisTypes' /\ TxTypes' /\ ServerTypes' /\ SyncerTypes' /\ StreamTypes'
  /\ puts' \in Nat /\ faults' \in 0..MaxFaults
  => TypeOK'
BY Zenon DEF TypeOK, RedisTypes, TxTypes, ServerTypes, SyncerTypes, StreamTypes

LEMMA TableFacts ==
  /\ Empty \in Table
  /\ NoRecord \in Record
  /\ \A k \in Keys, d \in BOOLEAN, p \in Nat : NewRecord(k, d, p) \in Record
  /\ \A t \in Table, r \in Record : Apply(t, r) \in Table
BY KeysAssumption, Zenon DEF Empty, Table, Record, NoRecord, NewRecord, Apply

---------------------------------------------------------------------------
(* Types, one lemma per group of actions *)

LEMMA UnchangedTypes ==
  /\ RedisTypes /\ UNCHANGED redisVars => RedisTypes'
  /\ TxTypes /\ UNCHANGED txVars => TxTypes'
  /\ ServerTypes /\ UNCHANGED serverVars => ServerTypes'
  /\ SyncerTypes /\ UNCHANGED syncerVars => SyncerTypes'
  /\ StreamTypes /\ UNCHANGED streamVars => StreamTypes'
BY Zenon DEF RedisTypes, TxTypes, ServerTypes, SyncerTypes, StreamTypes,
             redisVars, txVars, serverVars, syncerVars, streamVars

LEMMA EndTxTypes == ASSUME TxTypes, NEW w \in Writers, EndTx(w) PROVE TxTypes'
<1>1. 0 \in 0..MaxTransactionRetries
  BY BoundsAssumption
<1> QED
  BY <1>1, TableFacts, Zenon DEF TxTypes, EndTx

LEMMA ReturnTypes ==
  ASSUME TxTypes, ServerTypes, NEW w \in Writers, Return(w), UNCHANGED <<version, drawn>>
  PROVE  TxTypes' /\ ServerTypes'
<1>1. TxTypes'
  BY EndTxTypes, Zenon DEF Return
<1>2. ServerTypes'
  BY Zenon DEF ServerTypes, Return
<1> QED
  BY <1>1, <1>2, Zenon

\* the record a transaction writes
Written(w) ==
  [version |-> read[w] + 1, key |-> record[w].key, deleted |-> record[w].deleted,
   put |-> record[w].put]

LEMMA WrittenType ==
  ASSUME TxTypes, NEW w \in Writers
  PROVE  /\ Written(w) \in Record
         /\ Written(w).version = read[w] + 1
         /\ Written(w).put = record[w].put
<1>1. record[w] \in Record /\ read[w] \in Nat
  BY Zenon DEF TxTypes
<1> QED
  BY <1>1 DEF Written, Record

LEMMA CommitTypes ==
  ASSUME RedisTypes, TxTypes, ServerTypes, NEW w \in Writers, Commit(w)
  PROVE  RedisTypes'
<1> PICK r \in Record : r = Written(w)
  BY WrittenType, Zenon
<1>1. /\ lastVersion' = read[w] + 1 /\ records' = Apply(records, r)
      /\ changes' = changes \union {r} /\ log' = Append(log, r)
      /\ tables' = Append(tables, records')
      /\ stored' = IF w \in Servers THEN version[w] ELSE stored
  BY Zenon DEF Commit, Written
<1>2. lastVersion' \in Nat /\ stored' \in Nat
  BY <1>1 DEF RedisTypes, TxTypes, ServerTypes
<1>3. records' \in Table
  BY <1>1, TableFacts, Zenon DEF RedisTypes
<1>4. log' \in Seq(Record) /\ tables' \in Seq(Table) /\ changes' \subseteq Record
  BY <1>1, <1>3 DEF RedisTypes
<1> QED
  BY <1>2, <1>3, <1>4, Zenon DEF RedisTypes

LEMMA EndCallsTypes ==
  ASSUME SyncerTypes, StreamTypes, NEW T, EndCalls(T),
         UNCHANGED <<recordVersion, latest, loaded, replica>>,
         serverVersion' \in [Syncers -> Nat]
  PROVE  SyncerTypes' /\ StreamTypes'
<1>1. SyncerTypes'
  BY Zenon DEF SyncerTypes, EndCalls
<1>2. /\ stream' \in [Syncers -> {"closed", "query", "wait"}]
      /\ position' \in [Syncers -> Nat] /\ changed' \in [Syncers -> BOOLEAN]
  BY Zenon DEF StreamTypes, EndCalls
<1>3. wire' \in [Syncers -> Seq(Record)] /\ \A s \in Syncers : Len(wire'[s]) <= 1
  BY DEF StreamTypes, EndCalls
<1> QED
  BY <1>1, <1>2, <1>3, Zenon DEF StreamTypes

LEMMA WriterTypes ==
  ASSUME TypeOK, TriesInv, NEW w \in Writers, WriterNext(w) \/ TxError(w)
  PROVE  TypeOK'
<1>a. /\ RedisTypes /\ TxTypes /\ ServerTypes /\ SyncerTypes /\ StreamTypes
      /\ puts \in Nat /\ faults \in 0..MaxFaults
  BY TypeParts, Zenon
<1>1. CASE TxRead(w)
  <2>1. TxTypes'
    <3>1. tries[w] + 1 \in 0..MaxTransactionRetries
      BY <1>1, <1>a, BoundsAssumption DEF TxRead, TriesInv, TxTypes
    <3> QED
      BY <1>1, <1>a, <3>1, Zenon DEF TxRead, TxTypes, RedisTypes
  <2> QED
    BY <1>1, <1>a, <2>1, UnchangedTypes, TypePartsNext, Zenon DEF TxRead, counters
<1>2. CASE TxExec(w)
  <2>1. RedisTypes' /\ TxTypes' /\ ServerTypes' /\ SyncerTypes'
    BY <1>2, <1>a, CommitTypes, ReturnTypes, UnchangedTypes, Zenon DEF TxExec
  <2>2. StreamTypes'
    <3>1. changed' \in [Syncers -> BOOLEAN]
      BY <1>2, <1>a, Zenon DEF TxExec, Commit, StreamTypes
    <3> QED
      BY <1>2, <1>a, <3>1, Zenon DEF TxExec, StreamTypes
  <2> QED
    BY <1>2, <1>a, <2>1, <2>2, TypePartsNext, Zenon DEF TxExec, counters
<1>3. CASE TxFailed(w)
  <2>1. TxTypes' /\ ServerTypes'
    <3>1. CASE Return(w)
      BY <1>3, <1>a, <3>1, ReturnTypes, Zenon DEF TxFailed
    <3>2. CASE tx' = [tx EXCEPT ![w] = "begin"] /\ UNCHANGED <<read, tries, record, server>>
      BY <1>3, <1>a, <3>2, Zenon DEF TxFailed, TxTypes, ServerTypes
    <3> QED
      BY <1>3, <3>1, <3>2, Zenon DEF TxFailed
  <2> QED
    BY <1>3, <1>a, <2>1, UnchangedTypes, TypePartsNext, Zenon DEF TxFailed, counters
<1>4. CASE TxError(w)
  <2>1. faults' \in 0..MaxFaults
    BY <1>4, <1>a, BoundsAssumption DEF TxError
  <2> QED
    BY <1>4, <1>a, <2>1, ReturnTypes, UnchangedTypes, TypePartsNext, Zenon DEF TxError
<1> QED
  BY <1>1, <1>2, <1>3, <1>4, Zenon DEF WriterNext

LEMMA CallTypes ==
  ASSUME TypeOK, NEW c \in Clients, PutCall(c)
  PROVE  TypeOK'
<1>a. /\ RedisTypes /\ TxTypes /\ ServerTypes /\ SyncerTypes /\ StreamTypes
      /\ puts \in Nat /\ faults \in 0..MaxFaults /\ c \in Writers
  BY TypeParts, Zenon DEF Writers
<1>1. PICK k \in Keys, del \in BOOLEAN :
        record' = [record EXCEPT ![c] = NewRecord(k, del, puts + 1)]
  BY Zenon DEF PutCall
<1>2. NewRecord(k, del, puts + 1) \in Record /\ puts + 1 \in Nat
  BY <1>a, TableFacts
<1>3. record' \in [Writers -> Record]
  BY <1>a, <1>1, <1>2, Zenon DEF TxTypes
<1>4. tx' \in [Writers -> {"idle", "begin", "exec"}]
  BY <1>a, Zenon DEF PutCall, TxTypes
<1>5. TxTypes' /\ puts' \in Nat
  BY <1>a, <1>2, <1>3, <1>4, Zenon DEF TxTypes, PutCall
<1> QED
  BY <1>a, <1>5, UnchangedTypes, TypePartsNext, Zenon DEF PutCall

LEMMA ServerTypesStep ==
  ASSUME TypeOK, NEW v \in Servers, InitVersion(v) \/ InitVersionFails(v) \/ Restart(v)
  PROVE  TypeOK'
<1>a. /\ RedisTypes /\ TxTypes /\ ServerTypes /\ SyncerTypes /\ StreamTypes
      /\ puts \in Nat /\ faults \in 0..MaxFaults /\ v \in Writers
  BY TypeParts, Zenon DEF Writers
<1>b. NewRecord(ServerVersionKey, FALSE, puts + 1) \in Record /\ puts + 1 \in Nat
  <2>1. puts + 1 \in Nat /\ FALSE \in BOOLEAN
    BY <1>a
  <2> QED
    BY <2>1, TableFacts, KeysAssumption, Zenon
<1>c. faults < MaxFaults /\ faults' = faults + 1 => faults' \in 0..MaxFaults
  BY <1>a, BoundsAssumption
<1>1. CASE InitVersion(v)
  <2>1. ServerTypes'
    <3>1. CASE /\ version' = [version EXCEPT ![v] = stored]
               /\ server' = [server EXCEPT ![v] = "up"] /\ UNCHANGED drawn
      BY <1>a, <3>1, Zenon DEF ServerTypes, RedisTypes
    <3>2. CASE /\ drawn' = drawn + 1
               /\ version' = [version EXCEPT ![v] = drawn + 1]
               /\ server' = [server EXCEPT ![v] = "saving"]
      BY <1>a, <3>2 DEF ServerTypes
    <3> QED
      BY <1>1, <3>1, <3>2, Zenon DEF InitVersion
  <2>2. TxTypes' /\ puts' \in Nat
    <3>1. CASE UNCHANGED <<drawn, txVars, puts>>
      BY <1>a, <3>1, UnchangedTypes, Zenon
    <3>2. CASE /\ tx' = [tx EXCEPT ![v] = "begin"]
               /\ record' = [record EXCEPT ![v] = NewRecord(ServerVersionKey, FALSE, puts + 1)]
               /\ puts' = puts + 1
               /\ UNCHANGED <<read, tries>>
      BY <1>a, <1>b, <3>2, Zenon DEF TxTypes
    <3> QED
      BY <1>1, <3>1, <3>2, Zenon DEF InitVersion
  <2> QED
    BY <1>1, <1>a, <2>1, <2>2, UnchangedTypes, TypePartsNext, Zenon DEF InitVersion
<1>2. CASE InitVersionFails(v)
  <2>1. ServerTypes'
    BY <1>2, <1>a, Zenon DEF InitVersionFails, ServerTypes
  <2> QED
    BY <1>2, <1>a, <1>c, <2>1, UnchangedTypes, TypePartsNext, Zenon DEF InitVersionFails
<1>3. CASE Restart(v)
  <2>1. ServerTypes'
    BY <1>3, <1>a, Zenon DEF Restart, ServerTypes
  <2>2. TxTypes'
    BY <1>3, <1>a, EndTxTypes, Zenon DEF Restart
  <2>3. serverVersion' \in [Syncers -> Nat]
    BY <1>3, <1>a, Zenon DEF Restart, SyncerTypes
  <2>4. SyncerTypes' /\ StreamTypes'
    BY <1>3, <1>a, <2>3, EndCallsTypes, Zenon DEF Restart
  <2> QED
    BY <1>3, <1>a, <1>c, <2>1, <2>2, <2>4, UnchangedTypes, TypePartsNext, Zenon DEF Restart
<1> QED
  BY <1>1, <1>2, <1>3, Zenon

LEMMA SyncerTypesStep ==
  ASSUME TypeOK, AtInv, NEW s \in Syncers, SyncerNext(s) \/ CallFails(s)
  PROVE  TypeOK'
<1>a. /\ RedisTypes /\ TxTypes /\ ServerTypes /\ SyncerTypes /\ StreamTypes
      /\ puts \in Nat /\ faults \in 0..MaxFaults
  BY TypeParts, Zenon
<1>1. CASE GetAllVersion(s)
  <2>1. SyncerTypes'
    <3>1. PICK v \in Servers : at' = [at EXCEPT ![s] = v]
      BY <1>1, Zenon DEF GetAllVersion
    <3> QED
      BY <1>1, <1>a, <3>1, Zenon DEF GetAllVersion, SyncerTypes, RedisTypes
  <2> QED
    BY <1>1, <1>a, <2>1, UnchangedTypes, TypePartsNext, Zenon DEF GetAllVersion, counters
<1>2. CASE GetAllValues(s)
  <2>1. SyncerTypes'
    <3>1. version[at[s]] \in Nat
      BY <1>2, <1>a, Zenon DEF GetAllValues, AtInv, ServerTypes
    <3> QED
      BY <1>2, <1>a, <3>1, Zenon DEF GetAllValues, SyncerTypes, RedisTypes
  <2> QED
    BY <1>2, <1>a, <2>1, UnchangedTypes, TypePartsNext, Zenon DEF GetAllValues, counters
<1>3. CASE SyncOpen(s)
  <2>1. SyncerTypes'
    <3>1. PICK v \in Servers : at' = [at EXCEPT ![s] = v]
      BY <1>3, Zenon DEF SyncOpen
    <3> QED
      BY <1>3, <1>a, <3>1, Zenon DEF SyncOpen, SyncerTypes
  <2>2. StreamTypes'
    BY <1>3, <1>a, Zenon DEF SyncOpen, StreamTypes, SyncerTypes
  <2> QED
    BY <1>3, <1>a, <2>1, <2>2, UnchangedTypes, TypePartsNext, Zenon DEF SyncOpen, counters
<1>4. CASE SyncAborted(s)
  <2>1. SyncerTypes'
    BY <1>4, <1>a, Zenon DEF SyncAborted, SyncerTypes
  <2> QED
    BY <1>4, <1>a, <2>1, UnchangedTypes, TypePartsNext, Zenon DEF SyncAborted, counters
<1>5. CASE StreamQuery(s)
  <2>1. StreamTypes'
    <3>1. CASE stream' = [stream EXCEPT ![s] = "wait"] /\ UNCHANGED <<position, wire>>
      BY <1>5, <1>a, <3>1, Zenon DEF StreamQuery, StreamTypes
    <3>2. ASSUME NEW r \in NextChange(s), wire' = [wire EXCEPT ![s] = <<r>>],
                 position' = [position EXCEPT ![s] = @ + 1], UNCHANGED stream
          PROVE  StreamTypes'
      <4>1. r \in Record
        BY <1>a, Zenon DEF NextChange, RedisTypes
      <4>2. <<r>> \in Seq(Record) /\ Len(<<r>>) <= 1
        BY <4>1
      <4>3. UNCHANGED changed
        BY <1>5, Zenon DEF StreamQuery
      <4> QED
        BY <1>a, <3>2, <4>2, <4>3 DEF StreamTypes
    <3> QED
      BY <1>5, <3>1, <3>2, Zenon DEF StreamQuery
  <2> QED
    BY <1>5, <1>a, <2>1, UnchangedTypes, TypePartsNext, Zenon DEF StreamQuery, counters
<1>6. CASE StreamWake(s)
  <2>1. StreamTypes'
    BY <1>6, <1>a, Zenon DEF StreamWake, StreamTypes
  <2> QED
    BY <1>6, <1>a, <2>1, UnchangedTypes, TypePartsNext, Zenon DEF StreamWake, counters
<1>7. CASE RecvNext(s)
  <2>1. PICK r \in Record : r = Head(wire[s])
    BY <1>7, <1>a DEF RecvNext, StreamTypes
  <2>2. r.version \in Nat /\ Apply(replica[s], r) \in Table
    BY <1>a, TableFacts, Zenon DEF SyncerTypes, Record
  <2>3. SyncerTypes'
    BY <1>7, <1>a, <2>1, <2>2, Zenon DEF RecvNext, SyncerTypes
  <2>4. StreamTypes'
    BY <1>7, <1>a DEF RecvNext, StreamTypes
  <2> QED
    BY <1>7, <1>a, <2>3, <2>4, UnchangedTypes, TypePartsNext, Zenon DEF RecvNext, counters
<1>8. CASE RecvGap(s)
  <2>1. serverVersion' \in [Syncers -> Nat]
    BY <1>8, <1>a, Zenon DEF RecvGap, SyncerTypes
  <2>2. SyncerTypes' /\ StreamTypes'
    BY <1>8, <1>a, <2>1, EndCallsTypes, Zenon DEF RecvGap
  <2> QED
    BY <1>8, <1>a, <2>2, UnchangedTypes, TypePartsNext, Zenon DEF RecvGap, counters
<1>9. CASE CallFails(s)
  <2>1. serverVersion' \in [Syncers -> Nat]
    BY <1>9, <1>a, Zenon DEF CallFails, SyncerTypes
  <2>2. SyncerTypes' /\ StreamTypes'
    BY <1>9, <1>a, <2>1, EndCallsTypes, Zenon DEF CallFails
  <2>3. faults' \in 0..MaxFaults
    BY <1>9, <1>a, BoundsAssumption DEF CallFails
  <2> QED
    BY <1>9, <1>a, <2>2, <2>3, UnchangedTypes, TypePartsNext, Zenon DEF CallFails
<1> QED
  BY <1>1, <1>2, <1>3, <1>4, <1>5, <1>6, <1>7, <1>8, <1>9, Zenon DEF SyncerNext

LEMMA NextTypes == TypeOK /\ TriesInv /\ AtInv /\ [Next]_vars => TypeOK'
<1> SUFFICES ASSUME TypeOK, TriesInv, AtInv, [Next]_vars PROVE TypeOK'
  BY Zenon
<1>a. /\ RedisTypes /\ TxTypes /\ ServerTypes /\ SyncerTypes /\ StreamTypes
      /\ puts \in Nat /\ faults \in 0..MaxFaults
  BY TypeParts, Zenon
<1>1. CASE RemoveChange
  <2>1. RedisTypes'
    BY <1>1, <1>a, Zenon DEF RemoveChange, RedisTypes
  <2> QED
    BY <1>1, <1>a, <2>1, UnchangedTypes, TypePartsNext, Zenon DEF RemoveChange, counters
<1>2. CASE UNCHANGED vars
  BY <1>2, <1>a, UnchangedTypes, TypePartsNext, Zenon DEF vars, counters
<1> QED
  BY <1>1, <1>2, CallTypes, WriterTypes, ServerTypesStep, SyncerTypesStep, Zenon DEF Next

---------------------------------------------------------------------------
(* Calls of Put: how one begins, goes on, ends and commits *)

\* writer w begins a Put, with a number of its own
LEMMA BeginInv ==
  ASSUME TypeOK, CallInv, NEW w \in Writers, tx[w] = "idle",
         tx' = [tx EXCEPT ![w] = "begin"], NEW k \in Keys, NEW del \in BOOLEAN,
         record' = [record EXCEPT ![w] = NewRecord(k, del, puts + 1)],
         puts' = puts + 1, UNCHANGED <<tries, log>>,
         \A v \in Servers : IF v = w THEN server'[v] = "saving" ELSE server'[v] = server[v]
  PROVE  CallInv'
<1>a. TxTypes /\ RedisTypes /\ puts \in Nat
  BY TypeParts, Zenon
<1>b. /\ tx'[w] = "begin" /\ record'[w].put = puts + 1
      /\ \A x \in Writers \ {w} : tx'[x] = tx[x] /\ record'[x] = record[x]
  BY <1>a, Zenon DEF TxTypes, NewRecord
<1>c. /\ \A i \in 1..Len(log) : log[i].put \in Nat /\ log[i].put <= puts
      /\ \A x \in Writers : record[x].put \in Nat /\ record[x].put <= puts
  <2>1. /\ \A i \in 1..Len(log) : log[i] \in Record
        /\ \A x \in Writers : record[x] \in Record
    BY <1>a DEF RedisTypes, TxTypes
  <2> QED
    BY <2>1, Zenon DEF CallInv, PutsInv, Record
<1>1. PutsInv'
  <2>1. \A i \in 1..Len(log') : log'[i].put <= puts'
    BY <1>a, <1>c
  <2>2. \A x \in Writers : record'[x].put <= puts'
    BY <1>a, <1>b, <1>c
  <2>3. \A x \in Writers \ {w} : record'[x].put # puts + 1
    BY <1>a, <1>b, <1>c
  <2>4. ASSUME NEW x \in Writers, NEW y \in Writers, tx'[x] # "idle", tx'[y] # "idle",
               record'[x].put = record'[y].put
        PROVE  x = y
    <3>1. CASE x = w \/ y = w
      BY <1>b, <2>3, <2>4, <3>1
    <3>2. CASE x # w /\ y # w
      <4>1. tx[x] # "idle" /\ tx[y] # "idle" /\ record[x].put = record[y].put
        BY <1>b, <2>4, <3>2, Zenon
      <4> QED
        BY <4>1, Zenon DEF CallInv, PutsInv
    <3> QED
      BY <3>1, <3>2, Zenon
  <2> QED
    BY <2>1, <2>2, <2>4, Zenon DEF PutsInv
<1>2. TriesInv'
  <2>1. tries[w] = 0 /\ tries[w] < MaxTransactionRetries
    BY BoundsAssumption DEF CallInv, TriesInv
  <2> SUFFICES ASSUME NEW x \in Writers
               PROVE  /\ tx'[x] = "begin" => tries[x] < MaxTransactionRetries
                      /\ tx'[x] = "idle" => tries[x] = 0
                      /\ x \in Servers /\ server'[x] # "saving" => tx'[x] = "idle"
    BY Zenon DEF TriesInv
  <2>2. CASE x = w
    BY <1>b, <2>1, <2>2, Zenon
  <2>3. CASE x # w
    BY <1>b, <2>3, Zenon DEF CallInv, TriesInv
  <2> QED
    BY <2>2, <2>3, Zenon
<1>3. CommittedOnce'
  <2>1. \A i \in 1..Len(log) : log[i].put # puts + 1
    BY <1>a, <1>c
  <2>2. ASSUME NEW x \in Writers, tx'[x] # "idle", NEW i \in 1..Len(log)
        PROVE  log[i].put # record'[x].put
    <3>1. CASE x = w
      BY <1>b, <2>1, <3>1, Zenon
    <3>2. CASE x # w
      <4>1. tx[x] # "idle" /\ record'[x].put = record[x].put
        BY <1>b, <2>2, <3>2, Zenon
      <4>2. log[i].put # record[x].put
        BY <4>1, Zenon DEF CallInv, CommittedOnce
      <4> QED
        BY <4>1, <4>2, Zenon
    <3> QED
      BY <3>1, <3>2, Zenon
  <2> QED
    BY <2>2, Zenon DEF CallInv, CommittedOnce
<1> QED
  BY <1>1, <1>2, <1>3, Zenon DEF CallInv

\* a writer goes on with its Put
LEMMA GoOnInv ==
  ASSUME TypeOK, CallInv, NEW w \in Writers, tx[w] # "idle", NEW to \in {"begin", "exec"},
         tx' = [tx EXCEPT ![w] = to], tries' \in [Writers -> Nat],
         \A x \in Writers \ {w} : tries'[x] = tries[x],
         to = "begin" => tries'[w] < MaxTransactionRetries,
         UNCHANGED <<record, log, puts, server>>
  PROVE  CallInv'
<1>a. TxTypes
  BY TypeParts, Zenon
<1>b. tx'[w] = to /\ to # "idle" /\ \A x \in Writers \ {w} : tx'[x] = tx[x]
  BY <1>a, Zenon DEF TxTypes
<1>1. PutsInv'
  <2>1. \A x \in Writers : tx'[x] # "idle" => tx[x] # "idle"
    BY <1>b, Zenon
  <2> QED
    BY <2>1, Zenon DEF CallInv, PutsInv
<1>2. TriesInv'
  <2> SUFFICES ASSUME NEW x \in Writers
               PROVE  /\ tx'[x] = "begin" => tries'[x] < MaxTransactionRetries
                      /\ tx'[x] = "idle" => tries'[x] = 0
                      /\ x \in Servers /\ server[x] # "saving" => tx'[x] = "idle"
    BY Zenon DEF TriesInv
  <2>1. CASE x = w
    BY <1>b, <2>1, Zenon DEF CallInv, TriesInv
  <2>2. CASE x # w
    BY <1>b, <2>2, Zenon DEF CallInv, TriesInv
  <2> QED
    BY <2>1, <2>2, Zenon
<1>3. CommittedOnce'
  <2>1. \A x \in Writers : tx'[x] # "idle" => tx[x] # "idle"
    BY <1>b, Zenon
  <2> QED
    BY <2>1, Zenon DEF CallInv, CommittedOnce
<1> QED
  BY <1>1, <1>2, <1>3, Zenon DEF CallInv

\* a writer's Put ends, with its record written or not
LEMMA EndInv ==
  ASSUME TypeOK, CallInv, NEW w \in Writers, EndTx(w), UNCHANGED puts,
         \/ UNCHANGED log
         \/ tx[w] # "idle" /\ log' = Append(log, Written(w)),
         \A v \in Servers \ {w} : server'[v] = server[v]
  PROVE  CallInv'
<1>a. TxTypes /\ RedisTypes /\ puts \in Nat
  BY TypeParts, Zenon
<1>b. /\ tx'[w] = "idle" /\ tries'[w] = 0 /\ record'[w].put = 0
      /\ \A x \in Writers \ {w} :
           tx'[x] = tx[x] /\ tries'[x] = tries[x] /\ record'[x] = record[x]
  BY <1>a, Zenon DEF EndTx, TxTypes, NoRecord, NewRecord
<1>c. /\ \A x \in Writers : record[x].put \in Nat /\ record[x].put <= puts
      /\ \A x, y \in Writers :
           tx[x] # "idle" /\ tx[y] # "idle" /\ record[x].put = record[y].put => x = y
  BY <1>a, Zenon DEF CallInv, PutsInv, TxTypes, Record
<1>1. TriesInv'
  <2> SUFFICES ASSUME NEW x \in Writers
               PROVE  /\ tx'[x] = "begin" => tries'[x] < MaxTransactionRetries
                      /\ tx'[x] = "idle" => tries'[x] = 0
                      /\ x \in Servers /\ server'[x] # "saving" => tx'[x] = "idle"
    BY Zenon DEF TriesInv
  <2>1. CASE x = w
    BY <1>b, <2>1, Zenon
  <2>2. CASE x # w
    BY <1>b, <2>2, Zenon DEF CallInv, TriesInv
  <2> QED
    BY <2>1, <2>2, Zenon
<1>2. /\ \A x \in Writers : record'[x].put <= puts
      /\ \A x, y \in Writers :
           tx'[x] # "idle" /\ tx'[y] # "idle" /\ record'[x].put = record'[y].put => x = y
  BY <1>a, <1>b, <1>c
<1>3. CASE UNCHANGED log
  <2>1. PutsInv'
    BY <1>2, <1>3, Zenon DEF CallInv, PutsInv
  <2>2. CommittedOnce'
    <3>1. ASSUME NEW x \in Writers, tx'[x] # "idle", NEW i \in 1..Len(log)
          PROVE  log[i].put # record'[x].put
      <4>1. tx[x] # "idle" /\ record'[x].put = record[x].put
        BY <1>b, <3>1, Zenon
      <4>2. log[i].put # record[x].put
        BY <4>1, Zenon DEF CallInv, CommittedOnce
      <4> QED
        BY <4>1, <4>2, Zenon
    <3> QED
      BY <1>3, <3>1, Zenon DEF CallInv, CommittedOnce
  <2> QED
    BY <1>1, <2>1, <2>2, Zenon DEF CallInv
<1>4. CASE tx[w] # "idle" /\ log' = Append(log, Written(w))
  <2>1. PICK r \in Record : r = Written(w) /\ r.put = record[w].put
    BY <1>a, WrittenType, Zenon
  <2>2. log' = Append(log, r) /\ log \in Seq(Record)
    BY <1>4, <1>a, <2>1, Zenon DEF RedisTypes
  <2>3. /\ Len(log') = Len(log) + 1 /\ Len(log) \in Nat
        /\ \A i \in 1..Len(log) : log'[i] = log[i]
        /\ log'[Len(log) + 1] = r
    BY <2>2
  <2>4. \A i \in 1..Len(log) : log[i].put <= puts /\ log[i].put # r.put
    BY <1>4, <2>1, ZenonT(60) DEF CallInv, PutsInv, CommittedOnce
  <2>5. \A i \in 1..Len(log') : i \in 1..Len(log) \/ i = Len(log) + 1
    BY <2>3
  <2>6. PutsInv'
    <3>1. \A i \in 1..Len(log') : log'[i].put <= puts
      BY <1>c, <2>1, <2>3, <2>4, <2>5, Zenon
    <3> QED
      BY <1>2, <3>1, Zenon DEF PutsInv
  <2>7. CommittedOnce'
    <3>1. ASSUME NEW i \in 1..Len(log'), NEW j \in 1..Len(log'), log'[i].put = log'[j].put
          PROVE  i = j
      <4>1. CASE i \in 1..Len(log) /\ j \in 1..Len(log)
        BY <2>3, <3>1, <4>1, Zenon DEF CallInv, CommittedOnce
      <4>2. CASE i = Len(log) + 1 \/ j = Len(log) + 1
        BY <2>3, <2>4, <2>5, <3>1, <4>2, Zenon
      <4> QED
        BY <2>5, <4>1, <4>2, Zenon
    <3>2. ASSUME NEW x \in Writers, tx'[x] # "idle", NEW i \in 1..Len(log')
          PROVE  log'[i].put # record'[x].put
      <4>1. x # w /\ tx[x] # "idle" /\ record'[x] = record[x]
        BY <1>b, <3>2, Zenon
      <4>2. r.put # record[x].put
        BY <1>4, <1>c, <2>1, <4>1, Zenon
      <4>3. CASE i \in 1..Len(log)
        BY <2>3, <4>1, <4>3, Zenon DEF CallInv, CommittedOnce
      <4>4. CASE i = Len(log) + 1
        BY <2>3, <4>1, <4>2, <4>4, Zenon
      <4> QED
        BY <2>5, <4>3, <4>4, Zenon
    <3> QED
      BY <3>1, <3>2, Zenon DEF CommittedOnce
  <2> QED
    BY <1>1, <2>6, <2>7, Zenon DEF CallInv
<1> QED
  BY <1>3, <1>4, Zenon

---------------------------------------------------------------------------
(* The log *)

LEMMA QuietSerial ==
  ASSUME SerialCommits, UNCHANGED <<lastVersion, records, log, tables>>, changes' \subseteq changes
  PROVE  SerialCommits'
BY Zenon DEF SerialCommits, StateAt

LEMMA CommitSerial ==
  ASSUME TypeOK, SerialCommits, NEW w \in Writers, Commit(w), lastVersion = read[w]
  PROVE  SerialCommits'
<1>a. RedisTypes /\ TxTypes
  BY TypeParts, Zenon
<1>b. PICK n \in Nat : n = lastVersion
  BY <1>a, Zenon DEF RedisTypes
<1>c. PICK r \in Record : r = Written(w) /\ r.version = n + 1
  BY <1>a, <1>b, WrittenType, Zenon
<1>d. PICK t \in Table : t = Apply(records, r)
  BY <1>a, TableFacts, Zenon DEF RedisTypes
<1>e. /\ lastVersion' = n + 1 /\ records' = t /\ changes' = changes \union {r}
      /\ log' = Append(log, r) /\ tables' = Append(tables, t)
  BY <1>b, <1>c, <1>d, Zenon DEF Commit, Written
<1>f. /\ log \in Seq(Record) /\ tables \in Seq(Table) /\ Len(log) = n /\ Len(tables) = n
      /\ \A i \in 1..n : log[i].version = i /\ tables[i] = Apply(StateAt(i - 1), log[i])
      /\ records = StateAt(n)
      /\ \A x \in changes : x.version \in 1..n /\ x = log[x.version]
  BY <1>a, <1>b, Zenon DEF RedisTypes, SerialCommits
<1>g. /\ Len(log') = n + 1 /\ Len(tables') = n + 1
      /\ \A i \in 1..n : log'[i] = log[i] /\ tables'[i] = tables[i]
      /\ log'[n + 1] = r /\ tables'[n + 1] = t
  BY <1>e, <1>f
<1>h. \A i \in 0..n : StateAt(i)' = StateAt(i)
  BY <1>g DEF StateAt
<1>1. ASSUME NEW i \in 1..(n + 1)
      PROVE  log'[i].version = i /\ tables'[i] = Apply(StateAt(i - 1)', log'[i])
  <2>1. CASE i \in 1..n
    <3>1. StateAt(i - 1)' = StateAt(i - 1) /\ log'[i] = log[i] /\ tables'[i] = tables[i]
      BY <1>g, <1>h, <2>1
    <3> QED
      BY <1>f, <2>1, <3>1, Zenon
  <2>2. CASE i = n + 1
    <3>1. StateAt(i - 1)' = records
      <4>1. i - 1 = n /\ n \in 0..n
        BY <2>2
      <4> QED
        BY <1>f, <1>h, <4>1, Zenon
    <3> QED
      BY <1>c, <1>d, <1>g, <2>2, <3>1, Zenon
  <2> QED
    BY <2>1, <2>2
<1>2. records' = StateAt(n + 1)'
  BY <1>e, <1>g DEF StateAt
<1>3. \A x \in changes' : x.version \in 1..(n + 1) /\ x = log'[x.version]
  BY <1>c, <1>e, <1>f, <1>g
<1> QED
  BY <1>1, <1>2, <1>3, <1>e, <1>g, Zenon DEF SerialCommits

---------------------------------------------------------------------------
(* Every step *)

LEMMA EndCallsAt ==
  ASSUME TypeOK, AtInv, NEW T, EndCalls(T) PROVE AtInv'
BY Zenon DEF AtInv, EndCalls, TypeOK

LEMMA NextAt == TypeOK /\ AtInv /\ [Next]_vars => AtInv'
<1> SUFFICES ASSUME TypeOK, AtInv, [Next]_vars PROVE AtInv'
  BY Zenon
<1>1. CASE UNCHANGED <<phase, at>>
  BY <1>1, Zenon DEF AtInv
<1>2. ASSUME NEW v \in Servers, Restart(v) PROVE AtInv'
  BY <1>2, EndCallsAt, Zenon DEF Restart
<1>3. ASSUME NEW s \in Syncers, SyncerNext(s) \/ CallFails(s) PROVE AtInv'
  <2>1. CASE GetAllVersion(s) \/ GetAllValues(s) \/ SyncOpen(s)
    <3>1. CASE GetAllVersion(s)
      BY <3>1, Zenon DEF GetAllVersion, AtInv, TypeOK
    <3>2. CASE GetAllValues(s)
      BY <3>2, Zenon DEF GetAllValues, AtInv, TypeOK
    <3>3. CASE SyncOpen(s)
      BY <3>3, Zenon DEF SyncOpen, AtInv, TypeOK
    <3> QED
      BY <2>1, <3>1, <3>2, <3>3, Zenon
  <2>2. CASE SyncAborted(s) \/ StreamQuery(s) \/ StreamWake(s) \/ RecvNext(s)
    BY <2>2, <1>1, Zenon DEF SyncAborted, StreamQuery, StreamWake, RecvNext, syncerVars
  <2>3. CASE RecvGap(s) \/ CallFails(s)
    BY <2>3, EndCallsAt, Zenon DEF RecvGap, CallFails
  <2> QED
    BY <1>3, <2>1, <2>2, <2>3, Zenon DEF SyncerNext
<1>4. ASSUME NEW w \in Writers, WriterNext(w) \/ TxError(w) PROVE AtInv'
  BY <1>1, <1>4, Zenon DEF WriterNext, TxRead, TxExec, TxFailed, TxError, syncerVars
<1>5. ASSUME NEW c \in Clients, PutCall(c) PROVE AtInv'
  BY <1>1, <1>5, Zenon DEF PutCall, syncerVars
<1>6. ASSUME NEW v \in Servers, InitVersion(v) \/ InitVersionFails(v) PROVE AtInv'
  BY <1>1, <1>6, Zenon DEF InitVersion, InitVersionFails, syncerVars
<1>7. CASE RemoveChange \/ UNCHANGED vars
  BY <1>1, <1>7, Zenon DEF RemoveChange, syncerVars, vars
<1> QED
  BY <1>2, <1>3, <1>4, <1>5, <1>6, <1>7, Zenon DEF Next

\* steps that touch neither a call of Put nor the log
LEMMA QuietInv ==
  ASSUME CallInv, SerialCommits, UNCHANGED <<txVars, server, puts>>,
         UNCHANGED <<lastVersion, records, log, tables>>, changes' \subseteq changes
  PROVE  CallInv' /\ SerialCommits'
<1>1. CallInv'
  BY Zenon DEF CallInv, PutsInv, TriesInv, CommittedOnce, txVars
<1> QED
  BY <1>1, QuietSerial, Zenon

LEMMA WriterInv ==
  ASSUME TypeOK, CallInv, SerialCommits, NEW w \in Writers, WriterNext(w) \/ TxError(w)
  PROVE  CallInv' /\ SerialCommits'
<1>a. TxTypes /\ ServerTypes
  BY TypeParts, Zenon
<1>b. Return(w) => EndTx(w) /\ \A v \in Servers \ {w} : server'[v] = server[v]
  BY <1>a, Zenon DEF Return, ServerTypes
<1>c. changes' = changes => changes' \subseteq changes
  BY Zenon
<1>d. UNCHANGED redisVars => SerialCommits' /\ UNCHANGED log
  BY <1>c, QuietSerial, Zenon DEF redisVars
<1>1. CASE TxRead(w)
  <2>1. /\ tx[w] # "idle" /\ tx' = [tx EXCEPT ![w] = "exec"] /\ "exec" \in {"begin", "exec"}
        /\ UNCHANGED <<redisVars, record, puts, server>>
    BY <1>1, Zenon DEF TxRead, serverVars, counters
  <2>2. tries' \in [Writers -> Nat] /\ \A x \in Writers \ {w} : tries'[x] = tries[x]
    BY <1>1, <1>a DEF TxRead, TxTypes
  <2>3. "exec" = "begin" => tries'[w] < MaxTransactionRetries
    BY Zenon
  <2> QED
    BY <1>d, <2>1, <2>2, <2>3, GoOnInv, Zenon
<1>2. CASE TxExec(w)
  <2>1. log' = Append(log, Written(w))
    BY <1>2, Zenon DEF TxExec, Commit, Written
  <2>2. tx[w] # "idle"
    BY <1>2, Zenon DEF TxExec
  <2>3. CallInv'
    BY <1>2, <1>b, <2>1, <2>2, EndInv, Zenon DEF TxExec, counters
  <2> QED
    BY <1>2, <2>3, CommitSerial, Zenon DEF TxExec
<1>3. CASE TxFailed(w)
  <2>1. tx[w] # "idle" /\ UNCHANGED <<redisVars, puts>>
    BY <1>3, Zenon DEF TxFailed, counters
  <2>2. CASE Return(w)
    BY <1>b, <1>d, <2>1, <2>2, EndInv, Zenon
  <2>3. CASE /\ tries[w] < MaxTransactionRetries /\ tx' = [tx EXCEPT ![w] = "begin"]
             /\ UNCHANGED <<read, tries, record, server>>
    <3>1. tries' \in [Writers -> Nat] /\ \A x \in Writers \ {w} : tries'[x] = tries[x]
      BY <1>a, <2>3 DEF TxTypes
    <3>2. "begin" \in {"begin", "exec"} /\ tries'[w] < MaxTransactionRetries
      BY <2>3, Zenon
    <3> QED
      BY <1>d, <2>1, <2>3, <3>1, <3>2, GoOnInv, Zenon
  <2> QED
    BY <1>3, <2>2, <2>3, Zenon DEF TxFailed
<1>4. CASE TxError(w)
  BY <1>4, <1>b, <1>d, EndInv, Zenon DEF TxError
<1> QED
  BY <1>1, <1>2, <1>3, <1>4, Zenon DEF WriterNext

LEMMA CallerInv ==
  ASSUME TypeOK, CallInv, SerialCommits,
         \/ \E c \in Clients : PutCall(c)
         \/ \E v \in Servers : InitVersion(v) \/ InitVersionFails(v) \/ Restart(v)
  PROVE  CallInv' /\ SerialCommits'
<1>a. TxTypes /\ ServerTypes
  BY TypeParts, Zenon
<1>d. UNCHANGED redisVars => SerialCommits' /\ UNCHANGED log
  <2>1. changes' = changes => changes' \subseteq changes
    BY Zenon
  <2> QED
    BY <2>1, QuietSerial, Zenon DEF redisVars
<1>1. ASSUME NEW c \in Clients, PutCall(c) PROVE CallInv' /\ SerialCommits'
  <2>1. c \in Writers /\ \A v \in Servers : IF v = c THEN server'[v] = "saving" ELSE server'[v] = server[v]
    BY <1>1, WritersAssumption, Zenon DEF PutCall, serverVars, Writers
  <2>2. PICK k \in Keys, del \in BOOLEAN :
          record' = [record EXCEPT ![c] = NewRecord(k, del, puts + 1)]
    BY <1>1, Zenon DEF PutCall
  <2> QED
    BY <1>1, <1>d, <2>1, <2>2, BeginInv, Zenon DEF PutCall
<1>2. ASSUME NEW v \in Servers, InitVersion(v) PROVE CallInv' /\ SerialCommits'
  <2>a. v \in Writers /\ server[v] = "init" /\ UNCHANGED redisVars
    BY <1>2, Zenon DEF InitVersion, Writers
  <2>b. tx[v] = "idle"
    BY <2>a, Zenon DEF CallInv, TriesInv
  <2>1. CASE server' = [server EXCEPT ![v] = "up"] /\ UNCHANGED <<txVars, puts>>
    <3>1. TriesInv'
      <4>1. \A x \in Servers : server'[x] # "saving" => tx[x] = "idle"
        <5>1. \A x \in Servers : server[x] # "saving" => tx[x] = "idle"
          BY Zenon DEF CallInv, TriesInv, Writers
        <5>2. \A x \in Servers : x # v => server'[x] = server[x]
          BY <1>a, <2>1, Zenon DEF ServerTypes
        <5> QED
          BY <2>b, <5>1, <5>2, Zenon
      <4> QED
        BY <2>1, <4>1, Zenon DEF CallInv, TriesInv, txVars
    <3>2. PutsInv' /\ CommittedOnce'
      BY <1>d, <2>a, <2>1, Zenon DEF CallInv, PutsInv, CommittedOnce, txVars
    <3> QED
      BY <1>d, <2>a, <3>1, <3>2, Zenon DEF CallInv
  <2>2. CASE /\ server' = [server EXCEPT ![v] = "saving"]
             /\ tx' = [tx EXCEPT ![v] = "begin"]
             /\ record' = [record EXCEPT ![v] = NewRecord(ServerVersionKey, FALSE, puts + 1)]
             /\ puts' = puts + 1
             /\ UNCHANGED <<read, tries>>
    <3>1. \A x \in Servers : IF x = v THEN server'[x] = "saving" ELSE server'[x] = server[x]
      BY <1>a, <2>2, Zenon DEF ServerTypes
    <3>2. ServerVersionKey \in Keys /\ FALSE \in BOOLEAN
      BY KeysAssumption, Zenon
    <3> QED
      BY <1>d, <2>a, <2>b, <2>2, <3>1, <3>2, BeginInv, Zenon
  <2> QED
    BY <1>2, <2>1, <2>2, Zenon DEF InitVersion
<1>3. ASSUME NEW v \in Servers, InitVersionFails(v) PROVE CallInv' /\ SerialCommits'
  <2>1. tx[v] = "idle" /\ UNCHANGED <<redisVars, txVars, puts>>
    BY <1>3, Zenon DEF InitVersionFails, CallInv, TriesInv, Writers
  <2>2. \A x \in Servers : server'[x] # "saving" => tx[x] = "idle"
    <3>1. \A x \in Servers : server[x] # "saving" => tx[x] = "idle"
      BY Zenon DEF CallInv, TriesInv, Writers
    <3>2. \A x \in Servers : x # v => server'[x] = server[x]
      BY <1>3, <1>a, Zenon DEF InitVersionFails, ServerTypes
    <3> QED
      BY <2>1, <3>1, <3>2, Zenon
  <2>3. TriesInv'
    BY <2>1, <2>2, Zenon DEF CallInv, TriesInv, txVars
  <2>4. PutsInv' /\ CommittedOnce'
    BY <1>d, <2>1, Zenon DEF CallInv, PutsInv, CommittedOnce, txVars
  <2> QED
    BY <1>d, <2>1, <2>3, <2>4, Zenon DEF CallInv
<1>4. ASSUME NEW v \in Servers, Restart(v) PROVE CallInv' /\ SerialCommits'
  <2>1. v \in Writers /\ \A x \in Servers \ {v} : server'[x] = server[x]
    BY <1>4, <1>a, Zenon DEF Restart, ServerTypes, Writers
  <2> QED
    BY <1>4, <1>d, <2>1, EndInv, Zenon DEF Restart
<1> QED
  BY <1>1, <1>2, <1>3, <1>4, Zenon

LEMMA InitInv == Init => IInv
<1> SUFFICES ASSUME Init PROVE IInv
  BY Zenon
<1>1. TypeOK
  <2>1. 0 \in 0..MaxTransactionRetries /\ 0 \in 0..MaxFaults
    BY BoundsAssumption
  <2> QED
    BY <2>1, TableFacts DEF Init, TypeOK
<1>2. AtInv /\ SerialCommits
  BY SMTT(30) DEF Init, AtInv, SerialCommits, StateAt
<1>3. CallInv
  BY DEF Init, CallInv, PutsInv, TriesInv, CommittedOnce, NoRecord, NewRecord, Writers
<1> QED
  BY <1>1, <1>2, <1>3, Zenon DEF IInv

LEMMA NextInv == IInv /\ [Next]_vars => IInv'
<1> SUFFICES ASSUME IInv, [Next]_vars PROVE IInv'
  BY Zenon
<1>a. TypeOK /\ AtInv /\ CallInv /\ SerialCommits /\ TriesInv
  BY Zenon DEF IInv, CallInv
<1>b. changes' = changes => changes' \subseteq changes
  BY Zenon
<1>1. ASSUME NEW s \in Syncers, SyncerNext(s) \/ CallFails(s) PROVE CallInv' /\ SerialCommits'
  <2>1. UNCHANGED <<redisVars, txVars, serverVars, puts>>
    BY <1>1, Zenon DEF SyncerNext, GetAllVersion, GetAllValues, SyncOpen, SyncAborted, StreamQuery,
                       StreamWake, RecvNext, RecvGap, CallFails, counters
  <2> QED
    BY <1>a, <1>b, <2>1, QuietInv, Zenon DEF redisVars, serverVars
<1>2. CASE RemoveChange
  <2>1. changes' \subseteq changes
    BY <1>2, Zenon DEF RemoveChange
  <2> QED
    BY <1>2, <1>a, <2>1, NextTypes, NextAt, QuietInv, Zenon DEF RemoveChange, serverVars, counters, IInv
<1>3. CASE UNCHANGED vars
  BY <1>3, <1>a, <1>b, NextTypes, NextAt, QuietInv, Zenon DEF vars, redisVars, serverVars, counters, IInv
<1>4. CASE \E w \in Writers : WriterNext(w) \/ TxError(w)
  BY <1>4, <1>a, NextTypes, NextAt, WriterInv, Zenon DEF IInv
<1>5. CASE \/ \E c \in Clients : PutCall(c)
           \/ \E v \in Servers : InitVersion(v) \/ InitVersionFails(v) \/ Restart(v)
  BY <1>5, <1>a, NextTypes, NextAt, CallerInv, Zenon DEF IInv
<1>6. CASE \E s \in Syncers : SyncerNext(s) \/ CallFails(s)
  BY <1>1, <1>6, <1>a, NextTypes, NextAt, Zenon DEF IInv
<1> QED
  BY <1>2, <1>3, <1>4, <1>5, <1>6, Zenon DEF Next

LEMMA Invariance == Spec => []IInv
BY InitInv, NextInv, PTL DEF Spec

---------------------------------------------------------------------------
(* Theorems *)

\* The variables of RedisBroker keep their types (redis.go, stream.go).
THEOREM TypeCorrect == Spec => []TypeOK
<1>1. IInv => TypeOK
  BY Zenon DEF IInv
<1> QED
  BY <1>1, Invariance, PTL

\* The transactions of Put are serial, whatever the writers and the faults
\* (redis.go, incrementVersion).
THEOREM Serial == Spec => []SerialCommits
<1>1. IInv => SerialCommits
  BY Zenon DEF IInv
<1> QED
  BY <1>1, Invariance, PTL

\* A Put writes its record at most once however often it is retried
\* (redis.go, incrementVersion).
THEOREM WrittenOnce == Spec => []CommittedOnce
<1>1. IInv => CommittedOnce
  BY Zenon DEF IInv, CallInv
<1> QED
  BY <1>1, Invariance, PTL

---------------------------------------------------------------------------
(* The syncers *)

\* a stream at the version of its syncer, or one ahead with a record on the wire
StreamOf(s) ==
  /\ stream[s] = "closed" => wire[s] = <<>>
  /\ phase[s] # "syncing" => stream[s] = "closed"
  /\ stream[s] # "closed" => position[s] = recordVersion[s] + Len(wire[s])

\* a record on the wire is one of the log that the syncer lacks; a change before
\* it that the syncer lacks as well has been removed
WireOf(s) ==
  wire[s] # <<>> =>
    LET r == Head(wire[s]) IN
    /\ r.version \in 1..lastVersion /\ r = log[r.version]
    /\ r.version > recordVersion[s]
    /\ r.version # recordVersion[s] + 1 => \A c \in changes : c.version # recordVersion[s] + 1

\* the versions a syncer has seen have been committed
VersionsOf(s) ==
  recordVersion[s] <= lastVersion /\ loaded[s] <= lastVersion /\ latest[s] <= lastVersion

SettledOf(s) ==
  serverVersion[s] # 0 =>
    /\ \A k \in Keys : replica[s][k] \in {StateAt(recordVersion[s])[k], StateAt(loaded[s])[k]}
    /\ recordVersion[s] >= loaded[s] => replica[s] = StateAt(recordVersion[s])

SyncerOf(s) == StreamOf(s) /\ WireOf(s) /\ VersionsOf(s) /\ SettledOf(s)
SyncersInv == \A s \in Syncers : SyncerOf(s)

\* Redis only grows, but for the changes that are removed: committed versions keep
\* their records, and a new change has a new version (incrementVersion).
Grows ==
  /\ lastVersion \in Nat /\ lastVersion' \in Nat /\ lastVersion <= lastVersion'
  /\ \A i \in 0..lastVersion : StateAt(i)' = StateAt(i)
  /\ \A i \in 1..lastVersion : log'[i] = log[i]
  /\ \A c \in changes' : c \in changes \/ c.version = lastVersion + 1

LEMMA StepGrows == ASSUME IInv, [Next]_vars PROVE Grows
<1>a. RedisTypes /\ TxTypes /\ SerialCommits
  BY TypeParts, Zenon DEF IInv
<1>n. lastVersion \in Nat
  BY <1>a, Zenon DEF RedisTypes
<1>1. ASSUME UNCHANGED <<lastVersion, log, tables>>, changes' \subseteq changes PROVE Grows
  BY <1>1, <1>n DEF Grows, StateAt
<1>2. ASSUME NEW w \in Writers, TxExec(w) PROVE Grows
  <2>1. lastVersion = read[w] /\ Commit(w)
    BY <1>2, Zenon DEF TxExec
  <2>2. PICK r \in Record : r = Written(w) /\ r.version = lastVersion + 1
    BY <1>a, <2>1, WrittenType, Zenon
  <2>3. /\ lastVersion' = lastVersion + 1 /\ changes' = changes \union {r} /\ log' = Append(log, r)
        /\ tables' = Append(tables, records') /\ records' = Apply(records, r)
    BY <2>1, <2>2, Zenon DEF Commit, Written
  <2>4. records' \in Table
    BY <1>a, <2>3, TableFacts, Zenon DEF RedisTypes
  <2>5. /\ log \in Seq(Record) /\ tables \in Seq(Table)
        /\ Len(log) = lastVersion /\ Len(tables) = lastVersion
    BY <1>a, Zenon DEF RedisTypes, SerialCommits
  <2>6. \A i \in 1..lastVersion : log'[i] = log[i] /\ tables'[i] = tables[i]
    BY <1>n, <2>3, <2>4, <2>5
  <2>7. \A i \in 0..lastVersion : StateAt(i)' = StateAt(i)
    BY <1>n, <2>6 DEF StateAt
  <2>8. \A c \in changes' : c \in changes \/ c.version = lastVersion + 1
    BY <2>2, <2>3, Zenon
  <2>9. lastVersion' \in Nat /\ lastVersion <= lastVersion'
    BY <1>n, <2>3
  <2> QED
    BY <1>n, <2>6, <2>7, <2>8, <2>9, Zenon DEF Grows
<1>3. CASE RemoveChange
  <2>1. changes' \subseteq changes
    BY <1>3, Zenon DEF RemoveChange
  <2> QED
    BY <1>1, <1>3, <2>1, Zenon DEF RemoveChange
<1>4. UNCHANGED redisVars => Grows
  <2>1. changes' = changes => changes' \subseteq changes
    BY Zenon
  <2> QED
    BY <1>1, <2>1, Zenon DEF redisVars
<1>5. ASSUME NEW w \in Writers, TxRead(w) \/ TxFailed(w) \/ TxError(w) PROVE Grows
  BY <1>4, <1>5, Zenon DEF TxRead, TxFailed, TxError
<1>6. CASE \/ \E c \in Clients : PutCall(c)
           \/ \E v \in Servers : InitVersion(v) \/ InitVersionFails(v) \/ Restart(v)
           \/ UNCHANGED vars
  BY <1>4, <1>6, Zenon DEF PutCall, InitVersion, InitVersionFails, Restart, vars
<1>7. ASSUME NEW s \in Syncers, SyncerNext(s) \/ CallFails(s) PROVE Grows
  BY <1>4, <1>7, Zenon DEF SyncerNext, GetAllVersion, GetAllValues, SyncOpen, SyncAborted, StreamQuery,
                           StreamWake, RecvNext, RecvGap, CallFails
<1> QED
  BY <1>2, <1>3, <1>5, <1>6, <1>7, Zenon DEF Next, WriterNext

\* A committed version has a table, and the next is one record away.
LEMMA StateFacts ==
  ASSUME IInv
  PROVE  /\ \A i \in 0..lastVersion : StateAt(i) \in Table
         /\ \A i \in 1..lastVersion : log[i] \in Record /\ StateAt(i) = Apply(StateAt(i - 1), log[i])
         /\ records = StateAt(lastVersion)
<1>a. RedisTypes /\ SerialCommits
  BY TypeParts, Zenon DEF IInv
<1>1. \A i \in 1..lastVersion : tables[i] \in Table /\ log[i] \in Record
  <2>1. tables \in Seq(Table) /\ log \in Seq(Record) /\ Len(tables) = lastVersion /\ Len(log) = lastVersion
    BY <1>a, Zenon DEF RedisTypes, SerialCommits
  <2> QED
    BY <2>1
<1> QED
  BY <1>a, <1>1, TableFacts DEF SerialCommits, StateAt, RedisTypes

\* A syncer without a step of its own keeps its invariant.
LEMMA SyncerKept ==
  ASSUME IInv, Grows, NEW s \in Syncers, SyncerOf(s),
         phase'[s] = phase[s], recordVersion'[s] = recordVersion[s], serverVersion'[s] = serverVersion[s],
         latest'[s] = latest[s], loaded'[s] = loaded[s], replica'[s] = replica[s],
         stream'[s] = stream[s], position'[s] = position[s], wire'[s] = wire[s]
  PROVE  SyncerOf(s)'
<1>a. SyncerTypes /\ StreamTypes
  BY TypeParts, Zenon DEF IInv
<1>b. recordVersion[s] \in Nat /\ loaded[s] \in Nat /\ latest[s] \in Nat
  BY <1>a, Zenon DEF SyncerTypes
<1>1. StreamOf(s)'
  BY ZenonT(60) DEF SyncerOf, StreamOf
<1>2. VersionsOf(s)'
  BY <1>b DEF SyncerOf, VersionsOf, Grows
<1>3. SettledOf(s)'
  <2>1. recordVersion[s] \in 0..lastVersion /\ loaded[s] \in 0..lastVersion
    BY <1>b DEF SyncerOf, VersionsOf, Grows
  <2>2. StateAt(recordVersion[s])' = StateAt(recordVersion[s]) /\ StateAt(loaded[s])' = StateAt(loaded[s])
    BY <2>1, Zenon DEF Grows, StateAt
  <2> QED
    BY <2>2, Zenon DEF SyncerOf, SettledOf
<1>4. WireOf(s)'
  <2> SUFFICES ASSUME wire[s] # <<>>
               PROVE  LET r == Head(wire[s]) IN
                      /\ r.version \in 1..lastVersion' /\ r = log'[r.version]
                      /\ r.version > recordVersion[s]
                      /\ r.version # recordVersion[s] + 1 => \A c \in changes' : c.version # recordVersion[s] + 1
    BY Zenon DEF WireOf
  <2> DEFINE r == Head(wire[s])
  <2>1. /\ r.version \in 1..lastVersion /\ r = log[r.version]
        /\ r.version > recordVersion[s]
        /\ r.version # recordVersion[s] + 1 => \A c \in changes : c.version # recordVersion[s] + 1
    BY Zenon DEF SyncerOf, WireOf
  <2> HIDE DEF r
  <2>2. r.version \in 1..lastVersion' /\ r = log'[r.version]
    BY <2>1 DEF Grows
  <2>3. ASSUME r.version # recordVersion[s] + 1, NEW c \in changes' PROVE c.version # recordVersion[s] + 1
    BY <1>b, <2>1, <2>3 DEF Grows
  <2> QED
    BY <2>1, <2>2, <2>3, Zenon DEF r
<1> QED
  BY <1>1, <1>2, <1>3, <1>4, Zenon DEF SyncerOf

\* A call that ends takes its stream and the record on its wire with it.
LEMMA SyncerEnds ==
  ASSUME IInv, Grows, SyncersInv, NEW T, EndCalls(T),
         UNCHANGED <<recordVersion, latest, loaded, replica>>,
         NEW s \in Syncers, serverVersion'[s] \in {serverVersion[s], 0}, s \notin T => serverVersion'[s] = serverVersion[s]
  PROVE  SyncerOf(s)'
<1>o. SyncerOf(s)
  BY Zenon DEF SyncersInv
<1>1. CASE s \notin T
  <2>1. /\ phase'[s] = phase[s] /\ stream'[s] = stream[s] /\ position'[s] = position[s] /\ wire'[s] = wire[s]
    BY <1>1, Zenon DEF EndCalls
  <2> QED
    BY <1>1, <1>o, <2>1, SyncerKept, Zenon
<1>2. CASE s \in T
  <2>1. phase'[s] = "run" /\ stream'[s] = "closed" /\ wire'[s] = <<>>
    BY <1>2, Zenon DEF EndCalls
  <2>2. recordVersion[s] \in 0..lastVersion /\ loaded[s] \in 0..lastVersion /\ latest[s] \in 0..lastVersion
    BY <1>o, TypeParts DEF IInv, SyncerTypes, SyncerOf, VersionsOf, Grows
  <2>3. StateAt(recordVersion[s])' = StateAt(recordVersion[s]) /\ StateAt(loaded[s])' = StateAt(loaded[s])
    BY <2>2, Zenon DEF Grows, StateAt
  <2>4. SettledOf(s)'
    BY <1>o, <2>3, Zenon DEF SyncerOf, SettledOf
  <2>5. VersionsOf(s)'
    BY <2>2 DEF VersionsOf, Grows
  <2> QED
    BY <2>1, <2>4, <2>5, Zenon DEF SyncerOf, StreamOf, WireOf
<1> QED
  BY <1>1, <1>2, Zenon

\* The record on the wire, when it is the next, brings the copy one version on:
\* its key is set to that version, and the others are as they were (sync).
LEMMA SyncerReceives == ASSUME IInv, NEW s \in Syncers, SyncerOf(s), RecvNext(s) PROVE SyncerOf(s)'
<1>a. SyncerTypes /\ StreamTypes /\ RedisTypes
  BY TypeParts, Zenon DEF IInv
<1>b. PICK n \in Nat : n = recordVersion[s]
  BY <1>a, Zenon DEF SyncerTypes
<1>c. PICK m \in Nat : m = lastVersion
  BY <1>a, Zenon DEF RedisTypes
<1>r. PICK r \in Record : r = Head(wire[s])
  BY <1>a, SMTT(60) DEF RecvNext, StreamTypes
<1>1. r.version = n + 1 /\ n + 1 \in 1..m /\ r = log[n + 1]
  BY <1>b, <1>c, <1>r DEF RecvNext, SyncerOf, WireOf, Record
<1>2. /\ recordVersion'[s] = n + 1 /\ replica'[s] = Apply(replica[s], r) /\ wire'[s] = <<>>
      /\ UNCHANGED <<lastVersion, tables, log, changes, phase, serverVersion, latest, loaded, stream, position>>
  BY <1>a, <1>r, <1>1, Zenon DEF RecvNext, SyncerTypes, StreamTypes, redisVars
<1>3. Len(wire[s]) = 1
  <2>1. PICK q \in Seq(Record) : q = wire[s] /\ q # <<>> /\ Len(q) <= 1
    BY <1>a, Zenon DEF RecvNext, StreamTypes
  <2>2. Len(q) \in Nat /\ Len(q) # 0
    BY <2>1
  <2>3. \A x \in Nat : x # 0 /\ x <= 1 => x = 1
    OBVIOUS
  <2> QED
    BY <2>1, <2>2, <2>3, Zenon
<1>4. StreamOf(s)'
  BY <1>b, <1>2, <1>3, SMTT(60) DEF SyncerOf, StreamOf
<1>5. WireOf(s)' /\ VersionsOf(s)'
  BY <1>c, <1>1, <1>2 DEF SyncerOf, WireOf, VersionsOf
<1>6. SettledOf(s)'
  <2> SUFFICES ASSUME serverVersion[s] # 0
               PROVE  /\ \A k \in Keys : replica'[s][k] \in {StateAt(n + 1)[k], StateAt(loaded[s])[k]}
                      /\ n + 1 >= loaded[s] => replica'[s] = StateAt(n + 1)
    BY <1>2, Zenon DEF SettledOf, StateAt
  <2>1. /\ StateAt(n) \in Table /\ StateAt(n + 1) \in Table /\ StateAt(n + 1) = Apply(StateAt(n), r)
    BY <1>c, <1>1, StateFacts
  <2>2. replica[s] \in Table /\ loaded[s] \in Nat /\ r.key \in Keys
    BY <1>a, Zenon DEF SyncerTypes, Record
  <2>3. /\ \A k \in Keys : replica[s][k] \in {StateAt(n)[k], StateAt(loaded[s])[k]}
        /\ n >= loaded[s] => replica[s] = StateAt(n)
    BY <1>b, Zenon DEF SyncerOf, SettledOf
  <2>4. \A k \in Keys : IF k = r.key THEN replica'[s][k] = StateAt(n + 1)[k]
                        ELSE StateAt(n + 1)[k] = StateAt(n)[k] /\ replica'[s][k] = replica[s][k]
    BY <1>2, <2>1, <2>2, Zenon DEF Apply, Table
  <2>5. \A k \in Keys : replica'[s][k] \in {StateAt(n + 1)[k], StateAt(loaded[s])[k]}
    BY <2>3, <2>4, Zenon
  <2>6. replica'[s] \in Table
    BY <1>2, <2>2, TableFacts, Zenon
  <2>7. ASSUME n + 1 >= loaded[s] PROVE replica'[s] = StateAt(n + 1)
    <3>1. CASE n + 1 = loaded[s]
      BY <2>1, <2>5, <2>6, <3>1 DEF Table
    <3>2. CASE n >= loaded[s]
      BY <1>2, <2>1, <2>3, <3>2, Zenon
    <3> QED
      BY <2>2, <2>7, <3>1, <3>2
  <2> QED
    BY <2>5, <2>7, Zenon
<1> QED
  BY <1>4, <1>5, <1>6, Zenon DEF SyncerOf

\* Next sends the first change after the version of the syncer; if it is not the
\* next one, the next one has been removed (recordStream.Next).
LEMMA SyncerQueries == ASSUME IInv, NEW s \in Syncers, SyncerOf(s), StreamQuery(s) PROVE SyncerOf(s)'
<1>a. SyncerTypes /\ StreamTypes /\ RedisTypes
  BY TypeParts, Zenon DEF IInv
<1>b. PICK n \in Nat : n = recordVersion[s]
  BY <1>a, Zenon DEF SyncerTypes
<1>1. /\ UNCHANGED <<lastVersion, tables, log, changes, phase, recordVersion, serverVersion, latest, loaded, replica>>
      /\ stream[s] = "query" /\ wire[s] = <<>> /\ position[s] = n
  BY <1>b DEF StreamQuery, redisVars, syncerVars, SyncerOf, StreamOf
<1>2. SettledOf(s)' /\ VersionsOf(s)'
  BY <1>1, Zenon DEF SyncerOf, SettledOf, VersionsOf, StateAt
<1>3. CASE stream' = [stream EXCEPT ![s] = "wait"] /\ UNCHANGED <<position, wire>>
  <2>1. stream'[s] = "wait" /\ wire'[s] = <<>> /\ position'[s] = n
    BY <1>1, <1>3, <1>a, Zenon DEF StreamTypes
  <2>2. StreamOf(s)'
    BY <1>1, <1>b, <2>1, Zenon DEF SyncerOf, StreamOf
  <2> QED
    BY <1>2, <2>1, <2>2, Zenon DEF SyncerOf, WireOf
<1>4. ASSUME NEW r \in NextChange(s), wire' = [wire EXCEPT ![s] = <<r>>],
             position' = [position EXCEPT ![s] = @ + 1], UNCHANGED stream
      PROVE  SyncerOf(s)'
  <2>1. wire'[s] = <<r>> /\ position'[s] = n + 1 /\ Head(<<r>>) = r /\ Len(<<r>>) = 1
    BY <1>1, <1>4, <1>a DEF StreamTypes
  <2>2. StreamOf(s)'
    BY <1>1, <1>4, <1>b, <2>1, Zenon DEF SyncerOf, StreamOf
  <2>3. r \in changes /\ r \in Record /\ r.version > n /\ \A x \in changes : x.version > n => r.version <= x.version
    BY <1>1, <1>4, <1>a, Zenon DEF NextChange, RedisTypes
  <2>4. r.version \in 1..lastVersion /\ r = log[r.version]
    BY <2>3, Zenon DEF IInv, SerialCommits
  <2>5. ASSUME r.version # n + 1, NEW c \in changes PROVE c.version # n + 1
    BY <2>3, <2>5 DEF Record
  <2>6. WireOf(s)'
    BY <1>1, <1>b, <2>1, <2>3, <2>4, <2>5, Zenon DEF WireOf
  <2> QED
    BY <1>2, <2>2, <2>6, Zenon DEF SyncerOf
<1> QED
  BY <1>3, <1>4, Zenon DEF StreamQuery

\* Every step preserves the invariant of the syncers.
LEMMA SyncersStep == ASSUME IInv, SyncersInv, [Next]_vars PROVE SyncersInv'
<1>g. Grows
  BY StepGrows, Zenon
<1>a. SyncerTypes /\ StreamTypes /\ RedisTypes
  BY TypeParts, Zenon DEF IInv
<1>0. ASSUME UNCHANGED <<syncerVars, stream, position, wire>> PROVE SyncersInv'
  BY <1>0, <1>g, SyncerKept, Zenon DEF SyncersInv, syncerVars
<1>1. CASE \/ \E c \in Clients : PutCall(c)
           \/ \E w \in Writers : WriterNext(w) \/ TxError(w)
           \/ \E v \in Servers : InitVersion(v) \/ InitVersionFails(v)
           \/ RemoveChange \/ UNCHANGED vars
  BY <1>0, <1>1, Zenon DEF PutCall, WriterNext, TxRead, TxExec, TxFailed, TxError, InitVersion,
                           InitVersionFails, RemoveChange, vars, streamVars
<1>2. ASSUME NEW v \in Servers, Restart(v) PROVE SyncersInv'
  <2>1. \A s \in Syncers : serverVersion'[s] \in {serverVersion[s], 0} /\ serverVersion'[s] = serverVersion[s]
    BY <1>2, Zenon DEF Restart
  <2> QED
    BY <1>2, <1>g, <2>1, SyncerEnds, Zenon DEF Restart, SyncersInv
<1>3. ASSUME NEW s \in Syncers, SyncerNext(s) \/ CallFails(s) PROVE SyncersInv'
  <2>o. SyncerOf(s)
    BY Zenon DEF SyncersInv
  <2>1. ASSUME NEW x \in Syncers \ {s} PROVE SyncerOf(x)'
    <3>o. SyncerOf(x)
      BY Zenon DEF SyncersInv
    <3>1. CASE RecvGap(s) \/ CallFails(s)
      <4>1. x \in Syncers /\ x \notin {s} /\ serverVersion'[x] = serverVersion[x]
        BY <1>a, <3>1, Zenon DEF RecvGap, CallFails, SyncerTypes
      <4>2. EndCalls({s}) /\ UNCHANGED <<recordVersion, latest, loaded, replica>>
        BY <3>1, Zenon DEF RecvGap, CallFails
      <4> QED
        BY <1>g, <4>1, <4>2, SyncerEnds, Zenon
    <3>2. CASE GetAllVersion(s) \/ GetAllValues(s) \/ SyncOpen(s) \/ SyncAborted(s)
               \/ StreamQuery(s) \/ StreamWake(s) \/ RecvNext(s)
      <4>1. /\ phase'[x] = phase[x] /\ recordVersion'[x] = recordVersion[x] /\ serverVersion'[x] = serverVersion[x]
            /\ latest'[x] = latest[x] /\ loaded'[x] = loaded[x] /\ replica'[x] = replica[x]
            /\ stream'[x] = stream[x] /\ position'[x] = position[x] /\ wire'[x] = wire[x]
        BY <1>a, <3>2, SMTT(60) DEF GetAllVersion, GetAllValues, SyncOpen, SyncAborted, StreamQuery, StreamWake, RecvNext,
                          syncerVars, streamVars, SyncerTypes, StreamTypes
      <4> QED
        BY <1>g, <3>o, <4>1, SyncerKept, ZenonT(60)
    <3> QED
      BY <1>3, <3>1, <3>2, Zenon DEF SyncerNext
  <2>2. CASE RecvGap(s) \/ CallFails(s)
    <3>1. serverVersion'[s] \in {serverVersion[s], 0} /\ s \in {s}
      BY <1>a, <2>2, Zenon DEF RecvGap, CallFails, SyncerTypes
    <3>2. EndCalls({s}) /\ UNCHANGED <<recordVersion, latest, loaded, replica>>
      BY <2>2, Zenon DEF RecvGap, CallFails
    <3> QED
      BY <1>g, <2>1, <3>1, <3>2, SyncerEnds, Zenon DEF SyncersInv
  <2>3. CASE GetAllVersion(s)
    <3>1. /\ phase'[s] = "values" /\ latest'[s] = lastVersion /\ stream[s] = "closed"
          /\ UNCHANGED <<lastVersion, tables, log, changes, recordVersion, serverVersion, loaded, replica, stream, position, wire>>
      BY <1>a, <2>3, <2>o, Zenon DEF GetAllVersion, SyncerTypes, redisVars, streamVars, SyncerOf, StreamOf
    <3>o. lastVersion <= lastVersion
      BY <1>a DEF RedisTypes
    <3>2. StreamOf(s)' /\ VersionsOf(s)'
      BY <2>o, <3>1, <3>o, Zenon DEF SyncerOf, StreamOf, VersionsOf
    <3>3. SettledOf(s)' /\ WireOf(s)'
      BY <2>o, <3>1, Zenon DEF SyncerOf, SettledOf, WireOf, StateAt
    <3> QED
      BY <2>1, <3>2, <3>3, Zenon DEF SyncersInv, SyncerOf
  <2>4. CASE GetAllValues(s)
    <3>1. /\ phase'[s] = "run" /\ latest'[s] = 0 /\ replica'[s] = records
          /\ loaded'[s] = lastVersion /\ recordVersion'[s] = latest[s]
          /\ UNCHANGED <<lastVersion, tables, log, changes, stream, position, wire>>
          /\ phase[s] = "values"
      BY <1>a, <2>4, Zenon DEF GetAllValues, SyncerTypes, redisVars, streamVars
    <3>2. stream[s] = "closed" /\ wire[s] = <<>>
      BY <2>o, <3>1, Zenon DEF SyncerOf, StreamOf
    <3>3. StreamOf(s)' /\ WireOf(s)'
      BY <3>1, <3>2, Zenon DEF StreamOf, WireOf
    <3>4. latest[s] \in Nat /\ lastVersion \in Nat /\ latest[s] <= lastVersion
      BY <1>a, <2>o, Zenon DEF SyncerOf, VersionsOf, SyncerTypes, RedisTypes
    <3>o. lastVersion <= lastVersion /\ 0 <= lastVersion
      BY <3>4
    <3>5. VersionsOf(s)'
      BY <3>1, <3>4, <3>o, Zenon DEF VersionsOf
    <3>6. SettledOf(s)'
      <4>1. records = StateAt(lastVersion) /\ \A i \in 0..lastVersion : StateAt(i)' = StateAt(i)
        BY <1>g, StateFacts, Zenon DEF Grows
      <4>2. recordVersion'[s] >= loaded'[s] => recordVersion'[s] = lastVersion
        BY <3>1, <3>4
      <4>3. StateAt(lastVersion)' = records
        BY <3>1, <3>4, <4>1, Zenon DEF StateAt
      <4> QED
        BY <3>1, <4>2, <4>3, Zenon DEF SettledOf
    <3> QED
      BY <2>1, <3>3, <3>5, <3>6, Zenon DEF SyncersInv, SyncerOf
  <2>5. CASE SyncOpen(s)
    <3>1. /\ phase'[s] = "syncing" /\ stream'[s] = "query" /\ position'[s] = recordVersion[s] /\ phase[s] = "run"
          /\ UNCHANGED <<lastVersion, tables, log, changes, recordVersion, serverVersion, latest, loaded, replica, wire>>
      BY <1>a, <2>5, Zenon DEF SyncOpen, SyncerTypes, StreamTypes, redisVars
    <3>2. wire[s] = <<>> /\ recordVersion[s] \in Nat
      BY <1>a, <2>o, <3>1, Zenon DEF SyncerOf, StreamOf, SyncerTypes
    <3>3. StreamOf(s)' /\ WireOf(s)'
      BY <3>1, <3>2 DEF StreamOf, WireOf
    <3>4. SettledOf(s)' /\ VersionsOf(s)'
      BY <2>o, <3>1, Zenon DEF SyncerOf, SettledOf, VersionsOf, StateAt
    <3> QED
      BY <2>1, <3>3, <3>4, Zenon DEF SyncersInv, SyncerOf
  <2>6. CASE SyncAborted(s)
    <3>1. /\ serverVersion'[s] = 0
          /\ UNCHANGED <<lastVersion, tables, log, changes, phase, recordVersion, latest, loaded, replica, stream, position, wire>>
      BY <1>a, <2>6, Zenon DEF SyncAborted, SyncerTypes, streamVars, redisVars
    <3>2. SettledOf(s)'
      BY <3>1, Zenon DEF SettledOf
    <3>3. StreamOf(s)' /\ WireOf(s)' /\ VersionsOf(s)'
      BY <2>o, <3>1, Zenon DEF SyncerOf, StreamOf, WireOf, VersionsOf
    <3> QED
      BY <2>1, <3>2, <3>3, Zenon DEF SyncersInv, SyncerOf
  <2>7. CASE StreamQuery(s)
    BY <2>1, <2>o, <2>7, SyncerQueries, Zenon DEF SyncersInv
  <2>8. CASE StreamWake(s)
    <3>1. /\ stream[s] # "closed" /\ stream'[s] # "closed"
          /\ UNCHANGED <<lastVersion, tables, log, changes, phase, recordVersion, serverVersion, latest, loaded, replica, position, wire>>
      BY <1>a, <2>8, Zenon DEF StreamWake, StreamTypes, syncerVars, redisVars
    <3>2. StreamOf(s)'
      BY <2>o, <3>1, Zenon DEF SyncerOf, StreamOf
    <3>3. SettledOf(s)' /\ WireOf(s)' /\ VersionsOf(s)'
      BY <2>o, <3>1, Zenon DEF SyncerOf, SettledOf, WireOf, VersionsOf, StateAt
    <3> QED
      BY <2>1, <3>2, <3>3, Zenon DEF SyncersInv, SyncerOf
  <2>9. CASE RecvNext(s)
    BY <2>1, <2>o, <2>9, SyncerReceives, Zenon DEF SyncersInv
  <2> QED
    BY <1>3, <2>2, <2>3, <2>4, <2>5, <2>6, <2>7, <2>8, <2>9, Zenon DEF SyncerNext
<1> QED
  BY <1>1, <1>2, <1>3, Zenon DEF Next

LEMMA InitSyncers == Init => SyncersInv
BY DEF Init, SyncersInv, SyncerOf, StreamOf, WireOf, VersionsOf, SettledOf

LEMMA SyncersInvariance == Spec => []SyncersInv
BY InitSyncers, SyncersStep, Invariance, PTL DEF Spec

\* A copy holds the records of its version as soon as it has caught up with the
\* load it began with, and a mixture of the two before that (redis.go, GetAll;
\* syncer.go, init and sync).
THEOREM Settles == Spec => []ReplicaSettles
<1>1. SyncersInv => ReplicaSettles
  BY Zenon DEF SyncersInv, SyncerOf, SettledOf, ReplicaSettles
<1> QED
  BY <1>1, SyncersInvariance, PTL

\* A syncer meets a gap only when the change that comes next has been removed
\* (stream.go, Next).
THEOREM NoGap == Spec => []GapOnlyAfterRemoval
<1>1. ASSUME IInv, SyncersInv PROVE GapOnlyAfterRemoval
  <2> SUFFICES ASSUME NEW s \in Syncers, wire[s] # <<>>, Head(wire[s]).version # recordVersion[s] + 1
               PROVE  /\ recordVersion[s] + 1 \in 1..lastVersion
                      /\ \A r \in changes : r.version # recordVersion[s] + 1
    BY Zenon DEF GapOnlyAfterRemoval
  <2>1. /\ Head(wire[s]).version \in 1..lastVersion /\ Head(wire[s]).version > recordVersion[s]
        /\ \A r \in changes : r.version # recordVersion[s] + 1
    BY <1>1 DEF SyncersInv, SyncerOf, WireOf
  <2>2. recordVersion[s] \in Nat /\ lastVersion \in Nat
    BY <1>1, TypeParts DEF IInv, SyncerTypes, RedisTypes
  <2> QED
    BY <2>1, <2>2
<1> QED
  BY <1>1, Invariance, SyncersInvariance, PTL
=============================================================================
