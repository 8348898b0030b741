--------------------------- MODULE ConfigPipeline ---------------------------
(***************************************************************************)
(* How a configuration reaches the services.  A file is read by the        *)
(* FileOrEnvironmentSource, merged with the records of the databroker by   *)
(* the ConfigSource, passed on by the FileWatcherSource (which also fires  *)
(* when a certificate file changes) and by the autocert manager (which     *)
(* adds certificates and renews them), and applied by the OnConfigChange   *)
(* of every service.                                                       *)
(*                                                                         *)
(* Five kinds of goroutine work on it: the one that runs                   *)
(* internal/cmd/pomerium.Run, viper's watch of the file, a syncer for each *)
(* databroker the configuration has named, the file watcher, the renewal   *)
(* ticker.  A source holds its lock while it triggers its listeners, so    *)
(* the stage a goroutine is in also says which locks it holds.             *)
(***************************************************************************)
EXTENDS Naturals, Sequences, FiniteSets

CONSTANTS
    Content,      \* file id -> the properties of the file that decide a step
    First,        \* the id of the file at startup
    Brokers,      \* databroker addresses a file may name
    Data,         \* contents of the databroker's config record
    MaxEdits,     \* bound on edits of the file
    MaxEvents,    \* bound on edits, puts, touches, renewals and faults together
    MaxEarly      \* bound on those that happen before Run has set up the services

Ids == DOMAIN Content

\* `valid`: newOptionsFromConfig accepts the file; `key`: the shared key, 0 if
\* absent; `broker`: the databroker url; `ca`: the CA of connections loads;
\* `cookie`, `idp`: cookie secret and identity provider are usable; `trace`:
\* the tracing provider; `metrics`: a metrics address is set; `autocert`: it
\* is enabled.
ASSUME ContentAssumption ==
    /\ First \in Ids
    /\ Content[First].valid /\ Content[First].ca
    /\ Content[First].cookie /\ Content[First].idp
    /\ \A i \in Ids : /\ Content[i].broker \in Brokers
                      /\ Content[i].trace \in {"", "zipkin", "unknown"}
                      /\ Content[i].key \in Nat /\ Content[i].ca \in BOOLEAN
    /\ {"none", "invalid"} \subseteq Data
    /\ Brokers \cap {"main", "file", "watch", "renew", "none"} = {}

VARIABLES
    file,         \* the configuration file and whether viper has an event of it
    records,      \* broker -> the data of its config record, "none" if absent
    certVersion,  \* version of the watched certificate files
    sources,      \* what the sources hold: see TypeOK
    pc, arg,      \* goroutine -> the stage it is in, the configuration in hand
    listening,    \* the sources that have a listener registered
    svc,          \* what the services hold
    budget,       \* edits, and events of every kind, so far
    missed        \* how a configuration has been missed (history)

vars == <<file, records, certVersion, sources, pc, arg, listening, svc, budget, missed>>

Threads == {"main", "file", "watch", "renew"} \cup Brokers
None == [id |-> 0, key |-> 0, db |-> "none"]
Loaded == [id : Ids, key : Nat \ {0}, db : Data]
Config == {None} \cup Loaded

\* Goroutines that pass through the ConfigSource's rebuild hold its lock until
\* all listeners have returned; every goroutine that is below the
\* FileWatcherSource's check holds that lock; the renewal holds the manager's.
csFree == \A t \in Threads \ {"main", "watch", "renew"} : pc[t] \notin {"check", "update", "get"}
fwFree == \A t \in Threads : pc[t] \notin {"update", "get"}
acFree == pc["renew"] # "reading"

Goto(t, stage) == pc' = [pc EXCEPT ![t] = stage]
Carry(t, stage, c) == Goto(t, stage) /\ arg' = [arg EXCEPT ![t] = c]
Event(edits) ==
    /\ budget.events < IF pc["main"] = "run" THEN MaxEvents ELSE MaxEarly
    /\ budget.edits + edits <= MaxEdits
    /\ budget' = [edits |-> budget.edits + edits, events |-> budget.events + 1]

-----------------------------------------------------------------------------
\* Options.

\* Mutant: a missing shared key stays missing.
LoadWithoutKey(id) == [id |-> id, db |-> "none", key |-> Content[id].key]

\* newOptionsFromConfig of a file that validates.  Validate makes up a shared
\* key when the file has none, a new one on every load.
Load(id) ==
    [id |-> id, db |-> "none",
     key |-> IF Content[id].key = 0 THEN 100 + budget.edits ELSE Content[id].key]

\* The settings and routes of the databroker's records over the file's.
Merge(c, data) == [c EXCEPT !.db = data]

\* What a gRPC connection to the databroker is made from.
ConnOptions(c) == <<Content[c.id].broker, c.key, Content[c.id].ca>>

-----------------------------------------------------------------------------
\* The listeners, each the whole of an OnConfigChange.  `ok` says which calls
\* to the outside succeed: the identity provider's discovery document, and
\* writing and starting envoy.

LogManager(s, c) == [s EXCEPT !.log = c]

HTTPTransport(s, c) == [s EXCEPT !.transport = [cfg |-> c, pool |-> Content[c.id].ca]]

MetricsManager(s, c) == [s EXCEPT !.metrics = Content[c.id].metrics]

\* A provider that is not known is an error.
NewTracingOptions(c) == IF Content[c.id].trace = "unknown" THEN {} ELSE {Content[c.id].trace}

TraceManager(s, c) ==
    IF NewTracingOptions(c) = {} THEN s ELSE [s EXCEPT !.trace = Content[c.id].trace]

\* The resources are built from the configuration, certificates included, and
\* offered to envoy.
ControlPlane(s, c) == [s EXCEPT !.xds = c, !.certs = certVersion]

\* A new envoy takes over from the running one.
runEnvoy(s) == [s EXCEPT !.envoy = [trace |-> s.envoyOptions, epoch |-> @.epoch + 1]]

\* A new envoy is started when the options of the bootstrap differ from the
\* last ones, which are stored before the start is tried.
Envoy(s, c, ok) ==
    IF NewTracingOptions(c) \subseteq {s.envoyOptions} THEN s
    ELSE LET stored == [s EXCEPT !.envoyOptions = Content[c.id].trace]
         IN  IF ok.envoy THEN runEnvoy(stored) ELSE stored

\* Mutant: a connection is reused for every key as long as the address is the
\* same.
ConnByAddress(conn, c) ==
    IF conn.options[1] = Content[c.id].broker THEN conn
    ELSE IF Content[c.id].ca
    THEN [options |-> ConnOptions(c), number |-> conn.number + 1, open |-> TRUE]
    ELSE [conn EXCEPT !.open = FALSE]

\* One connection is shared under the name "databroker".  Other options close
\* it; when no new one can be made the closed one stays on record.
GetGRPCClientConn(conn, c) ==
    IF conn.options = ConnOptions(c) THEN conn
    ELSE IF Content[c.id].ca
    THEN [options |-> ConnOptions(c), number |-> conn.number + 1, open |-> TRUE]
    ELSE [conn EXCEPT !.open = FALSE]

\* NewGRPCClientConn needs the CA.
Connects(conn, c) == conn.options = ConnOptions(c) \/ Content[c.id].ca

\* The services' own checks of the options.
authenticateValidates(c) == Content[c.id].cookie /\ Content[c.id].idp
proxyValidates(c) == Content[c.id].cookie

newAuthenticateStateFromConfig(s, c) ==
    LET conn == GetGRPCClientConn(s.conn, c)
    IN  IF ~authenticateValidates(c) THEN s
        ELSE [s EXCEPT !.conn = conn,
                       !.authenticate = IF Connects(s.conn, c)
                                        THEN [cfg |-> c, client |-> conn.number] ELSE @]

updateProvider(s, c, ok) ==
    [s EXCEPT !.provider = IF ok.idp /\ Content[c.id].idp THEN c.id ELSE @]

\* The state and the provider are replaced independently of each other.
Authenticate(s, c, ok) == updateProvider(newAuthenticateStateFromConfig(s, c), c, ok)

newAuthorizeStateFromConfig(s, c) ==
    LET conn == GetGRPCClientConn(s.conn, c)
    IN  [s EXCEPT !.conn = conn,
                  !.authorize = IF Connects(s.conn, c)
                                THEN [cfg |-> c, client |-> conn.number] ELSE @]

Authorize(s, c) == newAuthorizeStateFromConfig(s, c)

\* The identity manager and the directory provider are replaced together, or
\* not at all.
updateDataBroker(s, c, ok) ==
    [s EXCEPT !.manager = IF ok.idp /\ Content[c.id].idp THEN c.id ELSE @]

setKey(s, c) == [s EXCEPT !.brokerKey = c.key]

\* The key the server demands is replaced in any case.
DataBroker(s, c, ok) == setKey(updateDataBroker(s, c, ok), c)

metricsURL(c) == Content[c.id].metrics

\* The running reporter is cancelled first and only replaced if the new
\* configuration has a metrics address and a connection.
Reporter(s, c) ==
    IF ~metricsURL(c) THEN [s EXCEPT !.reporter = 0]
    ELSE LET conn == GetGRPCClientConn(s.conn, c)
         IN  [s EXCEPT !.conn = conn,
                       !.reporter = IF Connects(s.conn, c) THEN conn.number ELSE 0]

newProxyStateFromConfig(s, c) == IF proxyValidates(c) THEN [s EXCEPT !.proxyState = c] ELSE s

Proxy(s, c) == newProxyStateFromConfig([s EXCEPT !.proxyRouter = c], c)

\* The listeners of the autocert manager, called in the order Run registers
\* them: each set holds the one state its listener leaves.
Apply(s0, c, ok) ==
    LET transport    == {HTTPTransport(s, c)   : s \in {s0}}
        metrics      == {MetricsManager(s, c)  : s \in transport}
        trace        == {TraceManager(s, c)    : s \in metrics}
        controlplane == {ControlPlane(s, c)    : s \in trace}
        envoy        == {Envoy(s, c, ok)       : s \in controlplane}
        authenticate == {Authenticate(s, c, ok) : s \in envoy}
        authorize    == {Authorize(s, c)       : s \in authenticate}
        databroker   == {DataBroker(s, c, ok)  : s \in authorize}
        reporter     == {Reporter(s, c)        : s \in databroker}
        proxy        == {Proxy(s, c)           : s \in reporter}
    IN  CHOOSE s \in proxy : TRUE

-----------------------------------------------------------------------------
\* FileOrEnvironmentSource.

\* The file on disk is replaced.
EditFile(id) ==
    /\ Event(1)
    /\ file' = [file EXCEPT !.content = id, !.event = TRUE]
    /\ UNCHANGED <<records, certVersion, sources, pc, arg, listening, svc, missed>>

\* onConfigChange: a file that does not load triggers the configuration of the
\* startup, which src.config still holds, again.
onConfigChange ==
    /\ pc["file"] = "idle" /\ file.event
    /\ LET valid == Content[file.content].valid
           c     == IF valid THEN Load(file.content) ELSE sources.startup
       IN  /\ file' = [file EXCEPT !.event = FALSE, !.good = IF valid THEN c.id ELSE @]
           /\ IF "file" \in listening
              THEN /\ Carry("file", "loaded", c)
                   /\ missed' = IF valid THEN missed \ {"reverted", "unheard"}
                                ELSE IF sources.underlying \in {None, sources.startup} THEN missed
                                ELSE missed \cup {"reverted"}
              ELSE /\ missed' = IF c = sources.startup THEN missed ELSE missed \cup {"unheard"}
                   /\ UNCHANGED <<pc, arg>>
    /\ UNCHANGED <<records, certVersion, sources, listening, svc, budget>>

-----------------------------------------------------------------------------
\* ConfigSource.

\* The listener NewConfigSource registers stores the configuration under the
\* lock, releases it, and rebuilds.
setUnderlying ==
    /\ pc["file"] = "loaded" /\ csFree
    /\ sources' = [sources EXCEPT !.underlying = arg["file"]]
    /\ Goto("file", "rebuild")
    /\ UNCHANGED <<file, records, certVersion, arg, listening, svc, budget, missed>>

\* Mutant: the syncer is started for the first configuration only.
runUpdaterOnce(src) ==
    IF src.syncer # "none" THEN src
    ELSE [src EXCEPT !.hash = ConnOptions(src.underlying), !.init = TRUE,
                     !.syncer = Content[src.underlying.id].broker]

\* runUpdater: options of the connection that differ from the last ones cancel
\* the syncer and start another, if the connection can be made.
runUpdater(src) ==
    LET c == src.underlying
    IN  IF src.hash = ConnOptions(c) THEN src
        ELSE [src EXCEPT !.hash = ConnOptions(c),
                         !.syncer = IF Content[c.id].ca THEN Content[c.id].broker ELSE "none",
                         !.init = Content[c.id].ca]

\* rebuild, up to the call of the listeners: a record that does not validate
\* leaves the computed configuration as it is.
rebuild(t) ==
    /\ pc[t] = "rebuild" /\ csFree
    /\ LET src == runUpdater(sources)
           c   == Merge(src.underlying, src.dbConfigs)
       IN  IF src.dbConfigs = "invalid"
           THEN /\ sources' = src
                /\ Goto(t, IF t = "main" THEN "newFileWatcher" ELSE "idle")
                /\ UNCHANGED <<arg, svc, missed>>
           ELSE /\ sources' = [src EXCEPT !.computed = c]
                /\ missed' = missed \ {"cleared"}
                /\ IF t # "main" /\ "check" \in listening
                   THEN Carry(t, "check", c) /\ svc' = LogManager(svc, c)
                   ELSE /\ Goto(t, IF t = "main" THEN "newFileWatcher" ELSE "idle")
                        /\ UNCHANGED <<arg, svc>>
    /\ UNCHANGED <<file, records, certVersion, listening, budget>>

\* The config record of a databroker is put, replaced or deleted.
PutConfig(b, data) ==
    /\ data # records[b]
    /\ Event(0)
    /\ records' = [records EXCEPT ![b] = data]
    /\ UNCHANGED <<file, certVersion, sources, pc, arg, listening, svc, missed>>

\* A syncer, on its first contact, has read all records and clears the
\* handler; nothing is rebuilt, nor by UpdateRecords for an empty batch.
ClearRecords(b) ==
    /\ pc[b] = "idle" /\ sources.syncer = b /\ sources.init /\ csFree
    /\ sources' = [sources EXCEPT !.init = FALSE, !.dbConfigs = "none", !.seen = "none"]
    /\ IF records[b] = "none"
       THEN /\ missed' = IF sources.computed = Merge(sources.underlying, "none") THEN missed
                         ELSE missed \cup {"cleared"}
            /\ UNCHANGED <<pc, arg>>
       ELSE Carry(b, "apply", [None EXCEPT !.db = records[b]]) /\ UNCHANGED missed
    /\ UNCHANGED <<file, records, certVersion, listening, svc, budget>>

\* Afterwards its stream brings every change of the records.
syncChange(b) ==
    /\ pc[b] = "idle" /\ sources.syncer = b /\ ~sources.init
    /\ records[b] # sources.seen
    /\ Carry(b, "apply", [None EXCEPT !.db = records[b]])
    /\ UNCHANGED <<file, records, certVersion, sources, listening, svc, budget, missed>>

\* UpdateRecords of a batch: the handler's map is updated and everything is
\* rebuilt.  The handler is not told that its syncer has been cancelled.
UpdateRecords(b) ==
    /\ pc[b] = "apply" /\ csFree
    /\ sources' = [sources EXCEPT !.dbConfigs = arg[b].db,
                                  !.seen = IF sources.syncer = b THEN arg[b].db ELSE @]
    /\ Goto(b, "rebuild")
    /\ missed' = IF sources.syncer = b THEN missed \ {"late"} ELSE missed \cup {"late"}
    /\ UNCHANGED <<file, records, certVersion, arg, listening, svc, budget>>

-----------------------------------------------------------------------------
\* FileWatcherSource.

\* One of the watched files changes; every change is signalled, and signals
\* coalesce in a channel of one.
TouchFile ==
    /\ Event(0)
    /\ certVersion' = certVersion + 1
    /\ sources' = [sources EXCEPT !.signal = (sources.watched # None)]
    /\ UNCHANGED <<file, records, pc, arg, listening, svc, missed>>

\* The watcher's goroutine reads the underlying configuration, and only then
\* waits for the lock of check.
watcherSignal ==
    /\ pc["watch"] = "idle" /\ sources.signal /\ csFree
    /\ sources' = [sources EXCEPT !.signal = FALSE]
    /\ Carry("watch", "check", sources.computed)
    /\ UNCHANGED <<file, records, certVersion, listening, svc, budget, missed>>

\* check, up to the call of the listeners.
check(t) ==
    /\ pc[t] = "check" /\ fwFree
    /\ sources' = [sources EXCEPT !.watched = arg[t]]
    /\ Goto(t, IF "update" \in listening THEN "update"
               ELSE IF t = "main" THEN "newManager" ELSE "idle")
    /\ missed' = IF arg[t] = sources.computed
                 THEN missed \ (IF t = "main" THEN {"stale"} ELSE {"stale", "startup"})
                 ELSE IF sources.watched = sources.computed THEN missed \cup {"stale"}
                 ELSE missed
    /\ UNCHANGED <<file, records, certVersion, arg, listening, svc, budget>>

-----------------------------------------------------------------------------
\* autocert.Manager.

\* updateAutocert: with autocert enabled the certificates of all host names
\* are obtained or renewed, and one that fails ends it.
updateAutocert(c, ok) == Content[c.id].autocert => ok

\* What fails is drawn from the budget of faults.
Fault(ok) == IF ok THEN UNCHANGED budget ELSE Event(0)

\* The listener: update stores the configuration even when it fails, and a
\* failure triggers no listener.
update(t) ==
    /\ pc[t] = "update" /\ acFree
    /\ \E ok \in BOOLEAN :
          /\ Fault(ok)
          /\ ok \/ Content[arg[t].id].autocert
          /\ sources' = [sources EXCEPT !.manager = arg[t]]
          /\ Goto(t, IF updateAutocert(arg[t], ok) /\ "get" \in listening THEN "get" ELSE "idle")
          /\ missed' = IF ok THEN missed ELSE missed \cup {"autocert"}
    /\ UNCHANGED <<file, records, certVersion, arg, listening, svc>>

\* The outcomes of the listeners' calls to the outside.
Outcomes == [idp : BOOLEAN, envoy : BOOLEAN]
AllOk == [idp |-> TRUE, envoy |-> TRUE]

\* mgr.GetConfig and mgr.Trigger: every listener is called, then every lock on
\* the way is released.
deliver(t) ==
    /\ pc[t] = "get" /\ acFree
    /\ \E ok \in Outcomes :
          /\ Fault(ok = AllOk)
          /\ svc' = Apply(svc, sources.manager, ok)
          /\ missed' = (missed \ {"autocert", "idp"})
                         \cup {f \in {"idp", "envoy"} : ~ok[f]}
    /\ Goto(t, "idle")
    /\ UNCHANGED <<file, records, certVersion, sources, arg, listening>>

\* renewConfigCerts takes the manager's lock; when some certificate needs
\* renewal it goes on, with the lock, to the lock of the FileWatcherSource.
renewConfigCerts ==
    /\ pc["renew"] = "idle" /\ listening = {"file", "check", "update", "get"}
    /\ Content[sources.manager.id].autocert
    /\ Event(0)
    /\ Goto("renew", "reading")
    /\ UNCHANGED <<file, records, certVersion, sources, arg, listening, svc, missed>>

\* An error ends the goroutine that renews for good.
finishRenewal ==
    /\ pc["renew"] = "reading" /\ fwFree
    /\ \E ok \in BOOLEAN :
          /\ Fault(ok)
          /\ ok \/ Content[sources.watched.id].autocert
          /\ IF updateAutocert(sources.watched, ok)
             THEN /\ sources' = [sources EXCEPT !.manager = sources.watched]
                  /\ svc' = Apply(svc, sources.watched, AllOk)
                  /\ Goto("renew", "idle")
             ELSE Goto("renew", "ended") /\ UNCHANGED <<sources, svc>>
    /\ UNCHANGED <<file, records, certVersion, arg, listening, missed>>

-----------------------------------------------------------------------------
\* pomerium.Run builds the pipeline from the source to the services while the
\* goroutines of the parts it has built already run.

\* NewConfigSource: the listener is registered before the configuration is
\* read and rebuilt, FileOrEnvironmentSource.GetConfig being the startup's.
NewConfigSource ==
    /\ \/ /\ pc["main"] = "newConfigSource"
          /\ listening' = {"file"}
          /\ Goto("main", "setUnderlying")
          /\ UNCHANGED <<sources, missed>>
       \/ /\ pc["main"] = "setUnderlying"
          /\ sources' = [sources EXCEPT !.underlying = sources.startup]
          /\ Goto("main", "rebuild")
          /\ missed' = IF sources.underlying \in {None, sources.startup}
                       THEN missed ELSE missed \cup {"unheard"}
          /\ UNCHANGED listening
    /\ UNCHANGED <<file, records, certVersion, arg, svc, budget>>

\* The log manager and the FileWatcherSource register with the ConfigSource,
\* then read it.
NewFileWatcherSource ==
    /\ pc["main"] = "newFileWatcher" /\ csFree
    /\ listening' = listening \cup {"check"}
    /\ svc' = LogManager(svc, sources.computed)
    /\ Carry("main", "check", sources.computed)
    /\ UNCHANGED <<file, records, certVersion, sources, budget, missed>>

\* newManager updates from the configuration it reads and registers after it.
newManager ==
    /\ \/ /\ pc["main"] = "newManager" /\ fwFree
          /\ sources' = [sources EXCEPT !.manager = sources.watched]
          /\ Goto("main", "register")
          /\ UNCHANGED <<listening, missed, arg>>
       \/ /\ pc["main"] = "register" /\ fwFree
          /\ listening' = listening \cup {"update"}
          /\ Goto("main", "services")
          /\ missed' = IF sources.manager = sources.watched THEN missed
                       ELSE missed \cup {"startup"}
          /\ UNCHANGED <<sources, arg>>
    /\ UNCHANGED <<file, records, certVersion, svc, budget>>

\* Every service is created, registered, and given the current configuration.
setupServices ==
    /\ \/ /\ pc["main"] = "services" /\ acFree
          /\ listening' = listening \cup {"get"}
          /\ Carry("main", "apply", sources.manager)
          /\ UNCHANGED <<svc, missed>>
       \/ /\ pc["main"] = "apply"
          /\ svc' = [Apply(svc, arg["main"], AllOk) EXCEPT !.localKey = arg["main"].key]
          /\ Goto("main", "run")
          /\ missed' = IF arg["main"] = sources.manager \/ \E t \in Threads : pc[t] = "get"
                       THEN missed ELSE missed \cup {"startup"}
          /\ UNCHANGED <<listening, arg>>
    /\ UNCHANGED <<file, records, certVersion, sources, budget>>

-----------------------------------------------------------------------------
Init ==
    /\ file = [content |-> First, good |-> First, event |-> FALSE]
    /\ records \in [Brokers -> Data \ {"invalid"}]
    /\ certVersion = 0
    /\ budget = [edits |-> 0, events |-> 0]
    /\ sources = [startup    |-> [id |-> First, db |-> "none",
                                  key |-> IF Content[First].key = 0 THEN 100
                                          ELSE Content[First].key],
                  underlying |-> None, dbConfigs |-> "none", computed |-> None,
                  hash |-> <<"none", 0, FALSE>>, syncer |-> "none", init |-> FALSE,
                  seen |-> "none", watched |-> None, signal |-> FALSE, manager |-> None]
    /\ pc = [t \in Threads |-> IF t = "main" THEN "newConfigSource" ELSE "idle"]
    /\ arg = [t \in Threads |-> None]
    /\ listening = {}
    /\ svc = [log |-> None, transport |-> [cfg |-> None, pool |-> FALSE], metrics |-> FALSE,
              trace |-> "", xds |-> None, certs |-> 0,
              envoyOptions |-> "unset", envoy |-> [trace |-> "unset", epoch |-> 0],
              conn |-> [options |-> <<"none", 0, FALSE>>, number |-> 0, open |-> FALSE],
              authenticate |-> [cfg |-> None, client |-> 0], provider |-> 0,
              authorize |-> [cfg |-> None, client |-> 0],
              manager |-> 0, brokerKey |-> 0, localKey |-> 0, reporter |-> 0,
              proxyRouter |-> None, proxyState |-> None]
    /\ missed = {}

Run == NewConfigSource \/ NewFileWatcherSource \/ newManager \/ setupServices

FileStep == onConfigChange \/ setUnderlying
SyncStep(b) == ClearRecords(b) \/ syncChange(b) \/ UpdateRecords(b)
SourceStep(t) == rebuild(t) \/ check(t) \/ update(t) \/ deliver(t)

Next ==
    \/ \E id \in Ids : EditFile(id)
    \/ \E b \in Brokers, data \in Data : PutConfig(b, data)
    \/ TouchFile
    \/ renewConfigCerts
    \/ Run
    \/ FileStep
    \/ \E b \in Brokers : SyncStep(b)
    \/ watcherSignal
    \/ \E t \in Threads : SourceStep(t)
    \/ finishRenewal

\* Every goroutine that can go on does; nobody has to edit, put or touch, and
\* the ticker's renewals are not relied on.
Fairness ==
    /\ WF_vars(Run) /\ WF_vars(FileStep) /\ WF_vars(watcherSignal) /\ WF_vars(finishRenewal)
    /\ \A b \in Brokers : WF_vars(SyncStep(b))
    /\ \A t \in Threads : WF_vars(SourceStep(t))

Spec == Init /\ [][Next]_vars /\ Fairness

-----------------------------------------------------------------------------
Stages == {"idle", "loaded", "rebuild", "check", "update", "get", "apply", "reading", "ended",
           "newConfigSource", "setUnderlying", "newFileWatcher", "newManager", "register",
           "services", "run"}

Sources ==
    [startup : Loaded, underlying : Config, computed : Config, watched : Config, manager : Config,
     dbConfigs : Data, seen : Data, syncer : Brokers \cup {"none"}, init : BOOLEAN, signal : BOOLEAN,
     hash : (Brokers \cup {"none"}) \X Nat \X BOOLEAN]

\* A syncer carries the record it has read, the others a configuration.
Carried == Config \cup [id : {0}, key : {0}, db : Data]

Ways == {"unheard", "startup", "reverted", "cleared", "late", "stale", "autocert", "idp", "envoy"}

\* The variables hold what the code keeps in them.
TypeOK ==
    /\ file \in [content : Ids, good : Ids, event : BOOLEAN]
    /\ records \in [Brokers -> Data]
    /\ certVersion \in Nat /\ budget \in [edits : Nat, events : Nat]
    /\ pc \in [Threads -> Stages]
    /\ arg \in [Threads -> Carried]
    /\ sources \in Sources
    /\ listening \subseteq {"file", "check", "update", "get"}
    /\ missed \subseteq Ways

\* The renewal holds the manager's lock and waits for the FileWatcherSource's;
\* whoever holds that one waits for the manager's.
Interlocked == pc["renew"] = "reading" /\ ~fwFree

\* The file read last that was valid can be applied by every service, and the
\* records of its databroker are valid as well.
Acceptable ==
    LET a == Content[file.good]
    IN  /\ a.ca /\ a.cookie /\ a.idp /\ a.trace # "unknown"
        /\ records[a.broker] # "invalid"

\* What the services should then run with.
Target == [id |-> file.good, key |-> sources.underlying.key,
           db |-> records[Content[file.good].broker]]

Current ==
    LET a == Content[file.good]
    IN  /\ \A c \in {svc.log, svc.transport.cfg, svc.xds, svc.authenticate.cfg, svc.authorize.cfg,
                     svc.proxyRouter, svc.proxyState} : c = Target
        /\ svc.transport.pool /\ svc.metrics = a.metrics /\ svc.trace = a.trace
        /\ svc.certs = certVersion /\ svc.envoy.trace = a.trace
        /\ svc.provider = Target.id /\ svc.manager = Target.id /\ svc.brokerKey = Target.key
        /\ svc.reporter = IF a.metrics THEN svc.conn.number ELSE 0

\* Once edits of the file, puts of config records and changes of certificate
\* files stop, every service comes to run with the last valid file, the
\* records of the databroker it names and the certificates on disk, unless
\* the renewal interlocks with a change, or the last configuration was missed
\* in one of the ways that `missed` records and no later one has made good.
Settles ==
    <>[](missed = {} /\ Acceptable /\ svc.conn.open /\ ~Interlocked => Current)

\* "Pomerium can hot-reload route configuration details, authorization policy,
\* certificates, and other proxy settings" (docs/reference/readme.md): the
\* same, whatever the renewal does.
HotReloads == <>[](missed = {} /\ Acceptable /\ svc.conn.open => Current)

\* A service whose state was built from the configuration that was applied
\* last holds the shared connection to the databroker, not one that another
\* service's update has closed, and signs its calls with the key that the
\* databroker demands (grpc.GetGRPCClientConn).
ClientsOpen ==
    svc.conn.open =>
        \A s \in {svc.authenticate, svc.authorize} :
            s.cfg = svc.xds => s.client = svc.conn.number /\ svc.conn.options[2] = svc.brokerKey
=============================================================================
