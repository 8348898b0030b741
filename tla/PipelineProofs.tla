--------------------------- MODULE PipelineProofs ---------------------------
(***************************************************************************)
(* Proofs about the configuration pipeline and the registry, for every set *)
(* of files, databrokers and records and any number of events.             *)
(*                                                                         *)
(* ClientsOpen holds after the listeners of one configuration have run, in *)
(* the order Run registers them, whatever they found (ApplyOpens).  It     *)
(* needs that the configuration is one that was loaded, not the empty one  *)
(* the sources start with; that is what Staged shows of every goroutine    *)
(* while Run is still putting the chain together.                          *)
(***************************************************************************)
EXTENDS MCConfigPipeline, Integers, TLAPS

\* What every listener may rely on in the services' state.
ServicesInv(s) ==
    /\ DOMAIN s = {"log", "transport", "metrics", "trace", "xds", "certs", "envoyOptions", "envoy", "conn",
                   "authenticate", "provider", "authorize", "manager", "brokerKey", "localKey",
                   "reporter", "proxyRouter", "proxyState"}
    /\ DOMAIN s.conn = {"options", "number", "open"}
    /\ s.authenticate.cfg = None \/ authenticateValidates(s.authenticate.cfg)

\* Before the first rebuild nothing has been read from a databroker and
\* nothing passed on.
Unbuilt ==
    /\ sources.dbConfigs = "none" /\ sources.syncer = "none"
    /\ sources.watched = None /\ ~sources.signal
    /\ \A b \in Brokers : pc[b] = "idle"
    /\ \A t \in Threads : pc[t] # "check"
    /\ pc["main"] \in {"newConfigSource", "setUnderlying", "rebuild"}

\* A goroutine never passes on the configuration that stands for "none yet".
Staged ==
    /\ pc["file"] = "loaded" => arg["file"] \in Loaded
    /\ \A t \in Threads : pc[t] = "rebuild" => sources.underlying \in Loaded
    /\ \A t \in Threads : pc[t] \in {"check", "update"} => arg[t] \in Loaded
    /\ \A t \in Threads : pc[t] = "get" => sources.manager \in Loaded
    /\ pc["main"] = "apply" => arg["main"] \in Loaded
    /\ sources.computed \in Loaded => sources.underlying \in Loaded
    /\ sources.computed \notin Loaded => Unbuilt
    /\ pc["main"] \in {"newManager", "register", "services", "apply", "run"} => sources.watched \in Loaded
    /\ pc["main"] \in {"register", "services", "apply", "run"} => sources.manager \in Loaded
    /\ "get" \in listening => sources.watched \in Loaded
    /\ pc["renew"] = "reading" => sources.watched \in Loaded

\* ClientsOpen, of a state of the services.
Open(s) ==
    s.conn.open =>
        \A x \in {s.authenticate, s.authorize} :
            x.cfg = s.xds => x.client = s.conn.number /\ s.conn.options[2] = s.brokerKey

\* The inductive invariant.
PipelineInv == TypeOK /\ Staged /\ ServicesInv(svc) /\ Open(svc)

-----------------------------------------------------------------------------
\* The listeners run one after the other (ChangeDispatcher.Trigger).
LEMMA Applied ==
    ASSUME NEW s, NEW c, NEW ok
    PROVE  Apply(s, c, ok) =
             Proxy(Reporter(DataBroker(Authorize(Authenticate(Envoy(ControlPlane(TraceManager(
               MetricsManager(HTTPTransport(s, c), c), c), c), c, ok), c, ok), c), c, ok), c), c)
BY Zenon DEF Apply

\* The listeners before the authenticate service leave the connection and its
\* clients alone, and the control plane has taken the configuration.
LEMMA FirstFive ==
    ASSUME NEW s, NEW c, NEW ok, ServicesInv(s)
    PROVE  LET r == Envoy(ControlPlane(TraceManager(MetricsManager(HTTPTransport(s, c), c), c), c), c, ok)
           IN  /\ ServicesInv(r) /\ r.xds = c /\ r.conn = s.conn /\ r.authenticate = s.authenticate
<1> DEFINE Same(r, x) == /\ DOMAIN r = DOMAIN x /\ r.conn = x.conn /\ r.authenticate = x.authenticate
<1> DEFINE a == HTTPTransport(s, c)
<1> DEFINE b == MetricsManager(a, c)
<1> DEFINE d == TraceManager(b, c)
<1> DEFINE e == ControlPlane(d, c)
<1> DEFINE f == Envoy(e, c, ok)
<1>1. Same(a, s)
  BY Zenon DEF HTTPTransport, ServicesInv
<1>2. Same(b, s)
  <2> HIDE DEF a
  <2> QED BY <1>1, Zenon DEF MetricsManager, ServicesInv
<1>3. Same(d, s)
  <2> HIDE DEF b
  <2> QED BY <1>2, Zenon DEF TraceManager, ServicesInv
<1>4. Same(e, s) /\ e.xds = c
  <2> HIDE DEF d
  <2> QED BY <1>3, Zenon DEF ControlPlane, ServicesInv
<1>5. Same(f, s) /\ f.xds = c
  <2> HIDE DEF e
  <2> QED BY <1>4, Zenon DEF Envoy, runEnvoy, ServicesInv
<1> HIDE DEF f
<1>6. ServicesInv(f) /\ f.xds = c /\ f.conn = s.conn /\ f.authenticate = s.authenticate
  BY <1>5, Zenon DEF ServicesInv
<1> QED BY <1>6, Zenon DEF f

\* GetGRPCClientConn: the record of the connection is the one asked for, or
\* closed if none can be made.
LEMMA Conn ==
    ASSUME NEW conn, NEW c, DOMAIN conn = {"options", "number", "open"}
    PROVE  LET r == GetGRPCClientConn(conn, c)
           IN  /\ DOMAIN r = {"options", "number", "open"}
               /\ Connects(conn, c) => r.options = ConnOptions(c)
               /\ ~Connects(conn, c) => ~r.open /\ ~Connects(r, c)
               /\ conn.options = ConnOptions(c) => r = conn
BY Zenon DEF GetGRPCClientConn, Connects

\* The connection is the one of c, or closed for good.
Settled(s, c) ==
    \/ s.conn.options = ConnOptions(c)
    \/ ~s.conn.open /\ ~Connects(s.conn, c)

\* A service's state that was built from c uses the recorded connection.
Holds(x, s, c) == x.cfg = c => x.client = s.conn.number

\* After Authenticate.OnConfigChange a state built from c holds the recorded
\* connection, unless that one is closed.
LEMMA Authenticated ==
    ASSUME NEW s, NEW c \in Loaded, NEW ok, ServicesInv(s)
    PROVE  LET r == Authenticate(s, c, ok)
           IN  /\ ServicesInv(r) /\ r.xds = s.xds
               /\ r.authenticate.cfg = c => Settled(r, c) /\ (r.conn.open => Holds(r.authenticate, r, c))
<1> DEFINE conn == GetGRPCClientConn(s.conn, c)
<1> DEFINE a == newAuthenticateStateFromConfig(s, c)
<1> DEFINE r == updateProvider(a, c, ok)
<1>c. c # None
  BY DEF Loaded, None
<1>1. DOMAIN s.conn = {"options", "number", "open"}
  BY Zenon DEF ServicesInv
<1>2. /\ DOMAIN conn = {"options", "number", "open"}
      /\ Connects(s.conn, c) => conn.options = ConnOptions(c)
      /\ ~Connects(s.conn, c) => ~conn.open /\ ~Connects(conn, c)
  BY <1>1, Conn, Zenon
<1>3. /\ ServicesInv(a) /\ a.xds = s.xds
      /\ a.authenticate.cfg = c => Settled(a, c) /\ (a.conn.open => Holds(a.authenticate, a, c))
  <2>1. CASE ~authenticateValidates(c)
    <3>1. a = s
      BY <2>1, Zenon DEF newAuthenticateStateFromConfig
    <3>2. s.authenticate.cfg # c
      BY <2>1, <1>c, Zenon DEF ServicesInv
    <3> QED BY <3>1, <3>2, Zenon
  <2>2. CASE authenticateValidates(c)
    <3> HIDE DEF conn
    <3>1. a = [s EXCEPT !.conn = conn,
                        !.authenticate = IF Connects(s.conn, c)
                                         THEN [cfg |-> c, client |-> conn.number] ELSE @]
      BY <2>2, Zenon DEF newAuthenticateStateFromConfig, conn
    <3>2. /\ DOMAIN a = DOMAIN s /\ a.xds = s.xds /\ a.conn = conn
          /\ a.authenticate = IF Connects(s.conn, c) THEN [cfg |-> c, client |-> conn.number] ELSE s.authenticate
      BY <3>1, Zenon DEF ServicesInv
    <3> HIDE DEF a
    <3>3. a.authenticate.cfg = None \/ authenticateValidates(a.authenticate.cfg)
      BY <3>2, <2>2 DEF ServicesInv
    <3> QED BY <3>2, <3>3, <1>2 DEF ServicesInv, Settled, Holds
  <2> QED BY <2>1, <2>2, Zenon
<1> HIDE DEF a
<1>4. DOMAIN r = DOMAIN a /\ r.xds = a.xds /\ r.conn = a.conn /\ r.authenticate = a.authenticate
  BY <1>3, Zenon DEF updateProvider, ServicesInv
<1> HIDE DEF r
<1>5. /\ ServicesInv(r) /\ r.xds = s.xds
      /\ r.authenticate.cfg = c => Settled(r, c) /\ (r.conn.open => Holds(r.authenticate, r, c))
  BY <1>3, <1>4, Zenon DEF ServicesInv, Settled, Holds
<1> QED BY <1>5, Zenon DEF r, a, Authenticate

\* Authorize.OnConfigChange, next, takes the same connection or closes it.
LEMMA Authorized ==
    ASSUME NEW s, NEW c, ServicesInv(s),
           s.authenticate.cfg = c => Settled(s, c) /\ (s.conn.open => Holds(s.authenticate, s, c))
    PROVE  LET r == Authorize(s, c)
           IN  /\ ServicesInv(r) /\ r.xds = s.xds /\ Settled(r, c)
               /\ r.conn.open => Holds(r.authenticate, r, c) /\ Holds(r.authorize, r, c)
<1> DEFINE conn == GetGRPCClientConn(s.conn, c)
<1> DEFINE r == Authorize(s, c)
<1>1. DOMAIN s.conn = {"options", "number", "open"}
  BY Zenon DEF ServicesInv
<1>2. /\ DOMAIN conn = {"options", "number", "open"}
      /\ Connects(s.conn, c) => conn.options = ConnOptions(c)
      /\ ~Connects(s.conn, c) => ~conn.open /\ ~Connects(conn, c)
      /\ s.conn.options = ConnOptions(c) => conn = s.conn
  BY <1>1, Conn, Zenon
<1> HIDE DEF conn
<1>3. r = [s EXCEPT !.conn = conn,
                    !.authorize = IF Connects(s.conn, c) THEN [cfg |-> c, client |-> conn.number] ELSE @]
  BY Zenon DEF Authorize, newAuthorizeStateFromConfig, conn
<1>4. /\ DOMAIN r = DOMAIN s /\ r.xds = s.xds /\ r.conn = conn /\ r.authenticate = s.authenticate
      /\ r.authorize = IF Connects(s.conn, c) THEN [cfg |-> c, client |-> conn.number] ELSE s.authorize
  BY <1>3, Zenon DEF ServicesInv
<1> HIDE DEF r
<1>5. ServicesInv(r)
  BY <1>2, <1>4, Zenon DEF ServicesInv
<1>6. Settled(r, c)
  BY <1>2, <1>4, Zenon DEF Settled
<1>7. r.conn.open => Connects(s.conn, c) /\ conn.options = ConnOptions(c)
  BY <1>2, <1>4, Zenon
<1>8. r.conn.open => Holds(r.authorize, r, c)
  BY <1>7, <1>4 DEF Holds
<1>9. r.conn.open => Holds(r.authenticate, r, c)
  BY <1>7, <1>4, <1>2, Zenon DEF Holds, Settled
<1> QED BY <1>4, <1>5, <1>6, <1>8, <1>9, Zenon DEF r

\* The listeners after the authorization service leave the clients alone.
LEMMA LastThree ==
    ASSUME NEW s, NEW c, NEW ok, ServicesInv(s), Settled(s, c),
           s.conn.open => Holds(s.authenticate, s, c) /\ Holds(s.authorize, s, c),
           NEW r, r = Proxy(Reporter(DataBroker(s, c, ok), c), c)
    PROVE  /\ ServicesInv(r) /\ r.xds = s.xds /\ Settled(r, c) /\ r.brokerKey = c.key
           /\ r.conn.open => Holds(r.authenticate, r, c) /\ Holds(r.authorize, r, c)
<1> DEFINE a == DataBroker(s, c, ok)
<1> DEFINE conn == GetGRPCClientConn(a.conn, c)
<1> DEFINE b == Reporter(a, c)
<1> DEFINE Same(x, y) == /\ DOMAIN x = DOMAIN y /\ x.xds = y.xds
                         /\ x.authenticate = y.authenticate /\ x.authorize = y.authorize
<1>0. r = Proxy(b, c)
  BY Zenon
<1>1. Same(a, s) /\ a.brokerKey = c.key /\ a.conn = s.conn
  BY Zenon DEF DataBroker, updateDataBroker, setKey, ServicesInv
<1>2. DOMAIN a.conn = {"options", "number", "open"}
  BY <1>1, Zenon DEF ServicesInv
<1> HIDE DEF a
<1>3. /\ DOMAIN conn = {"options", "number", "open"}
      /\ Connects(a.conn, c) => conn.options = ConnOptions(c)
      /\ ~Connects(a.conn, c) => ~conn.open /\ ~Connects(conn, c)
      /\ a.conn.options = ConnOptions(c) => conn = a.conn
  BY <1>2, Conn, Zenon
<1> HIDE DEF conn
<1>4. Same(b, a) /\ b.brokerKey = a.brokerKey /\ b.conn \in {a.conn, conn}
  BY <1>1, Zenon DEF Reporter, ServicesInv, conn
<1> HIDE DEF b
<1>5. Same(r, b) /\ r.brokerKey = b.brokerKey /\ r.conn = b.conn
  BY <1>0, <1>1, <1>4, ZenonT(60) DEF Proxy, newProxyStateFromConfig, ServicesInv
<1>6. ServicesInv(r) /\ r.xds = s.xds /\ r.brokerKey = c.key
  BY <1>1, <1>3, <1>4, <1>5, ZenonT(60) DEF ServicesInv
<1>7. Settled(r, c)
  BY <1>1, <1>3, <1>4, <1>5, Zenon DEF Settled
<1>8. r.conn.open => r.conn.number = s.conn.number /\ s.conn.open
  BY <1>1, <1>3, <1>4, <1>5, Zenon DEF Settled
<1>9. r.conn.open => Holds(r.authenticate, r, c) /\ Holds(r.authorize, r, c)
  BY <1>1, <1>4, <1>5, <1>8, ZenonT(60) DEF Holds
<1> QED BY <1>6, <1>7, <1>9, Zenon

\* A configuration that has been applied to all services leaves the clients
\* with the shared connection.
LEMMA ApplyOpens ==
    ASSUME NEW s, NEW c \in Loaded, NEW ok, ServicesInv(s)
    PROVE  ServicesInv(Apply(s, c, ok)) /\ Open(Apply(s, c, ok))
<1> DEFINE five == Envoy(ControlPlane(TraceManager(MetricsManager(HTTPTransport(s, c), c), c), c), c, ok)
<1> DEFINE six == Authenticate(five, c, ok)
<1> DEFINE seven == Authorize(six, c)
<1>10. PICK ten : ten = Proxy(Reporter(DataBroker(seven, c, ok), c), c)
  BY Zenon
<1>1. ServicesInv(five) /\ five.xds = c
  BY FirstFive
<1> HIDE DEF five
<1>2. /\ ServicesInv(six) /\ six.xds = c
      /\ six.authenticate.cfg = c => Settled(six, c) /\ (six.conn.open => Holds(six.authenticate, six, c))
  BY <1>1, Authenticated, Zenon
<1> HIDE DEF six
<1>3. /\ ServicesInv(seven) /\ seven.xds = c /\ Settled(seven, c)
      /\ seven.conn.open => Holds(seven.authenticate, seven, c) /\ Holds(seven.authorize, seven, c)
  BY <1>2, Authorized, Zenon
<1> HIDE DEF seven
<1>4. /\ ServicesInv(ten) /\ ten.xds = c /\ Settled(ten, c) /\ ten.brokerKey = c.key
      /\ ten.conn.open => Holds(ten.authenticate, ten, c) /\ Holds(ten.authorize, ten, c)
  BY <1>3, <1>10, LastThree, SMTT(30)
<1>5. ten.conn.open => ten.conn.options[2] = c.key
  BY <1>4 DEF Settled, ConnOptions
<1>6. Open(ten)
  BY <1>4, <1>5, Zenon DEF Open, Holds
<1>7. Apply(s, c, ok) = ten
  BY <1>10, Applied, Zenon DEF five, six, seven
<1> QED BY <1>4, <1>6, <1>7, Zenon

-----------------------------------------------------------------------------
\* The budget stays a pair of counters.
LEMMA Counted ==
    ASSUME NEW n \in Nat, budget \in [edits : Nat, events : Nat], Event(n)
    PROVE  budget' \in [edits : Nat, events : Nat]
<1>1. budget' = [edits |-> budget.edits + n, events |-> budget.events + 1]
  BY Zenon DEF Event
<1> QED BY <1>1

\* A fault is counted as an event.
LEMMA Faults ==
    ASSUME NEW ok, budget \in [edits : Nat, events : Nat], Fault(ok)
    PROVE  budget' \in [edits : Nat, events : Nat]
<1>1. 0 \in Nat
  BY Zenon
<1> QED BY <1>1, Counted, Zenon DEF Fault

\* The kinds of configuration, and what Merge and a syncer make of them.
LEMMA Kinds ==
    /\ Loaded \subseteq Config /\ Config \subseteq Carried /\ None \in Config
    /\ \A c \in Loaded, d \in Data : Merge(c, d) \in Loaded
    /\ \A d \in Data : [None EXCEPT !.db = d] \in Carried
    /\ None \notin Loaded
    /\ \A c \in Config : c \in Loaded \/ c = None
    /\ \A c \in Carried : c.db \in Data
<1>1. "none" \in Data
  BY ContentAssumption, Zenon
<1> QED BY <1>1 DEF Loaded, Config, Carried, None, Merge

\* The names of the sources' fields.
Field == {"startup", "underlying", "computed", "watched", "manager", "dbConfigs", "seen", "syncer",
          "init", "signal", "hash"}

\* The fields of the sources, and the replacement of one of them.
LEMMA Fields ==
    ASSUME NEW s \in Sources
    PROVE  /\ DOMAIN s = Field
           /\ s.startup \in Loaded /\ s.dbConfigs \in Data
           /\ s.underlying \in Config /\ s.computed \in Config /\ s.watched \in Config /\ s.manager \in Config
           /\ \A c \in Config : /\ [s EXCEPT !.underlying = c] \in Sources
                                /\ [s EXCEPT !.computed = c] \in Sources
                                /\ [s EXCEPT !.watched = c] \in Sources
                                /\ [s EXCEPT !.manager = c] \in Sources
BY Zenon DEF Sources, Field

\* A file that loads has a shared key (Options.Validate makes one up).
LEMMA LoadOK ==
    ASSUME NEW i \in Ids, budget \in [edits : Nat, events : Nat]
    PROVE  Load(i) \in Loaded
<1>1. Content[i].key \in Nat /\ "none" \in Data
  BY ContentAssumption, Zenon
<1> QED BY <1>1 DEF Load, Loaded

\* runUpdater touches the syncer and its hash only.
LEMMA UpdaterOK ==
    ASSUME NEW s \in Sources, s.underlying \in Loaded
    PROVE  /\ runUpdater(s) \in Sources
           /\ \A f \in Field \ {"hash", "syncer", "init"} : runUpdater(s)[f] = s[f]
<1> DEFINE c == s.underlying
<1>1. c.id \in Ids /\ c.key \in Nat
  BY Zenon DEF Loaded
<1>2. Content[c.id].broker \in Brokers /\ Content[c.id].ca \in BOOLEAN
  BY <1>1, ContentAssumption, Zenon
<1>3. ConnOptions(c) \in (Brokers \cup {"none"}) \X Nat \X BOOLEAN
  BY <1>1, <1>2, Zenon DEF ConnOptions
<1> DEFINE h == ConnOptions(c)
<1> DEFINE b == IF Content[c.id].ca THEN Content[c.id].broker ELSE "none"
<1> DEFINE i == Content[c.id].ca
<1>4. b \in Brokers \cup {"none"} /\ i \in BOOLEAN
  BY <1>2, Zenon
<1>5. runUpdater(s) = IF s.hash = h THEN s ELSE [s EXCEPT !.hash = h, !.syncer = b, !.init = i]
  BY Zenon DEF runUpdater
<1> HIDE DEF h, b, i, c
<1>6. h \in (Brokers \cup {"none"}) \X Nat \X BOOLEAN
  BY <1>3, Zenon DEF h
<1>7. [s EXCEPT !.hash = h, !.syncer = b, !.init = i] \in Sources
  BY <1>4, <1>6, Zenon DEF Sources
<1>8. \A f \in Field \ {"hash", "syncer", "init"} : [s EXCEPT !.hash = h, !.syncer = b, !.init = i][f] = s[f]
  BY Fields, Zenon
<1> QED BY <1>5, <1>7, <1>8, Zenon

\* Every step keeps the types.
LEMMA TypeStep ==
    ASSUME TypeOK, Staged, [Next]_vars
    PROVE  TypeOK'
<1>s. sources \in Sources /\ pc \in [Threads -> Stages] /\ arg \in [Threads -> Carried] /\ budget \in [edits : Nat, events : Nat]
  BY Zenon DEF TypeOK
<1>t. {"main", "file", "watch", "renew"} \subseteq Threads /\ Brokers \subseteq Threads
  BY Zenon DEF Threads
<1>f. /\ sources.startup \in Config /\ sources.underlying \in Config /\ sources.computed \in Config
      /\ sources.watched \in Config /\ sources.manager \in Config
      /\ \A c \in Config : /\ [sources EXCEPT !.underlying = c] \in Sources
                           /\ [sources EXCEPT !.computed = c] \in Sources
                           /\ [sources EXCEPT !.watched = c] \in Sources
                           /\ [sources EXCEPT !.manager = c] \in Sources
  BY <1>s, Fields, Kinds, Zenon
<1>g. ASSUME NEW t \in Threads, pc[t] \in {"check", "update"} PROVE arg[t] \in Config
  BY <1>g, Kinds, Zenon DEF Staged
<1>n. 0 \in Nat /\ 1 \in Nat
  BY Zenon
<1>1. ASSUME NEW id \in Ids, EditFile(id) PROVE TypeOK'
  <2>b. budget' \in [edits : Nat, events : Nat]
    BY <1>s, <1>n, <1>1, Counted, Zenon DEF EditFile
  <2> QED BY <1>1, <2>b, Zenon DEF TypeOK, EditFile
<1>2. ASSUME NEW b \in Brokers, NEW data \in Data, PutConfig(b, data) PROVE TypeOK'
  <2>b. budget' \in [edits : Nat, events : Nat]
    BY <1>s, <1>n, <1>2, Counted, Zenon DEF PutConfig
  <2> QED BY <1>2, <2>b, Zenon DEF TypeOK, PutConfig
<1>3. CASE TouchFile
  <2>b. budget' \in [edits : Nat, events : Nat]
    BY <1>s, <1>n, <1>3, Counted, Zenon DEF TouchFile
  <2>s. sources' \in Sources
    BY <1>s, <1>3, Fields, Kinds, ZenonT(60) DEF TouchFile, Staged, Sources
  <2> QED BY <1>3, <2>b, <2>s DEF TypeOK, TouchFile
<1>4. CASE renewConfigCerts
  <2>b. budget' \in [edits : Nat, events : Nat]
    BY <1>s, <1>n, <1>4, Counted, Zenon DEF renewConfigCerts
  <2>p. pc' \in [Threads -> Stages]
    BY <1>s, <1>t, <1>4, Zenon DEF renewConfigCerts, Goto, Carry, Stages
  <2> QED BY <1>4, <2>b, <2>p, Zenon DEF TypeOK, renewConfigCerts
<1>5. CASE NewConfigSource
  <2>m. missed' \subseteq Ways
    BY <1>5, Zenon DEF NewConfigSource, TypeOK, Ways, Carry, Goto
  <2>s. sources' \in Sources
    BY <1>s, <1>5, <1>f, Zenon DEF NewConfigSource
  <2>p. pc' \in [Threads -> Stages]
    BY <1>s, <1>t, <1>5, Zenon DEF NewConfigSource, Goto, Carry, Stages
  <2>l. listening' \subseteq {"file", "check", "update", "get"}
    BY <1>5, Zenon DEF NewConfigSource, TypeOK
  <2> QED BY <1>5, <2>m, <2>s, <2>p, <2>l, Zenon DEF TypeOK, NewConfigSource
<1>6. CASE NewFileWatcherSource
  <2>p. pc' \in [Threads -> Stages]
    BY <1>s, <1>t, <1>6, Zenon DEF NewFileWatcherSource, Goto, Carry, Stages
  <2>a. arg' \in [Threads -> Carried]
    BY <1>s, <1>t, <1>6, Fields, Kinds, Zenon DEF NewFileWatcherSource, Goto, Carry, Staged
  <2>l. listening' \subseteq {"file", "check", "update", "get"}
    BY <1>6, Zenon DEF NewFileWatcherSource, TypeOK
  <2> QED BY <1>6, <2>p, <2>a, <2>l, Zenon DEF TypeOK, NewFileWatcherSource
<1>7. CASE newManager
  <2>m. missed' \subseteq Ways
    BY <1>7, Zenon DEF newManager, TypeOK, Ways, Carry, Goto
  <2>s. sources' \in Sources
    BY <1>s, <1>7, <1>f, Zenon DEF newManager
  <2>p. pc' \in [Threads -> Stages]
    BY <1>s, <1>t, <1>7, Zenon DEF newManager, Goto, Carry, Stages
  <2>l. listening' \subseteq {"file", "check", "update", "get"}
    BY <1>7, Zenon DEF newManager, TypeOK
  <2> QED BY <1>7, <2>m, <2>s, <2>p, <2>l, Zenon DEF TypeOK, newManager
<1>8. CASE setupServices
  <2>m. missed' \subseteq Ways
    BY <1>8, Zenon DEF setupServices, TypeOK, Ways, Carry, Goto
  <2>p. pc' \in [Threads -> Stages]
    BY <1>s, <1>t, <1>8, Zenon DEF setupServices, Goto, Carry, Stages
  <2>a. arg' \in [Threads -> Carried]
    BY <1>s, <1>t, <1>8, Fields, Kinds, Zenon DEF setupServices, Goto, Carry, Staged
  <2>l. listening' \subseteq {"file", "check", "update", "get"}
    BY <1>8, Zenon DEF setupServices, TypeOK
  <2> QED BY <1>8, <2>m, <2>p, <2>a, <2>l, Zenon DEF TypeOK, setupServices
<1>9. CASE onConfigChange
  <2>m. missed' \subseteq Ways
    BY <1>9, Zenon DEF onConfigChange, TypeOK, Ways, Carry, Goto
  <2>p. pc' \in [Threads -> Stages]
    BY <1>s, <1>t, <1>9, Zenon DEF onConfigChange, Goto, Carry, Stages
  <2>a. arg' \in [Threads -> Carried]
    <3>1. /\ file.content \in Ids /\ Load(file.content) \in Loaded /\ sources.startup \in Loaded
      BY <1>s, LoadOK, Fields, Zenon DEF TypeOK
    <3>2. PICK c \in Carried : arg' \in {arg, [arg EXCEPT !["file"] = c]}
      BY <1>9, <3>1, Kinds, Zenon DEF onConfigChange, Carry
    <3> QED BY <3>2, <1>s, <1>t, Zenon
  <2>f. file' \in [content : Ids, good : Ids, event : BOOLEAN]
    BY <1>9, Zenon DEF onConfigChange, TypeOK, Load
  <2> QED BY <1>9, <2>m, <2>p, <2>a, <2>f, Zenon DEF TypeOK, onConfigChange
<1>10. CASE setUnderlying
  <2>s. sources' \in Sources
    BY <1>s, <1>10, Fields, Kinds, Zenon DEF setUnderlying, Staged, Sources
  <2>p. pc' \in [Threads -> Stages]
    BY <1>s, <1>t, <1>10, Zenon DEF setUnderlying, Goto, Carry, Stages
  <2> QED BY <1>10, <2>s, <2>p, Zenon DEF TypeOK, setUnderlying
<1>11. ASSUME NEW b \in Brokers, ClearRecords(b) PROVE TypeOK'
  <2>m. missed' \subseteq Ways
    BY <1>11, Zenon DEF ClearRecords, TypeOK, Ways, Carry, Goto
  <2>s. sources' \in Sources
    <3>1. "none" \in Data
      BY ContentAssumption, Zenon
    <3>2. sources' = [sources EXCEPT !.init = FALSE, !.dbConfigs = "none", !.seen = "none"]
      BY <1>11, Zenon DEF ClearRecords
    <3> QED BY <3>1, <3>2, <1>s, Zenon DEF Sources
  <2>p. pc' \in [Threads -> Stages]
    BY <1>s, <1>t, <1>11, Zenon DEF ClearRecords, Goto, Carry, Stages
  <2>a. arg' \in [Threads -> Carried]
    <3>1. records[b] \in Data
      BY Zenon DEF TypeOK
    <3>2. PICK c \in Carried : arg' \in {arg, [arg EXCEPT ![b] = c]}
      BY <1>11, <3>1, Kinds, Zenon DEF ClearRecords, Carry
    <3> QED BY <3>2, <1>s, <1>t, Zenon
  <2> QED BY <1>11, <2>m, <2>s, <2>p, <2>a, Zenon DEF TypeOK, ClearRecords
<1>12. ASSUME NEW b \in Brokers, syncChange(b) PROVE TypeOK'
  <2>p. pc' \in [Threads -> Stages]
    BY <1>s, <1>t, <1>12, Zenon DEF syncChange, Goto, Carry, Stages
  <2>a. arg' \in [Threads -> Carried]
    <3>1. records[b] \in Data
      BY Zenon DEF TypeOK
    <3>2. PICK c \in Carried : arg' = [arg EXCEPT ![b] = c]
      BY <1>12, <3>1, Kinds, Zenon DEF syncChange, Carry
    <3> QED BY <3>2, <1>s, <1>t, Zenon
  <2> QED BY <1>12, <2>p, <2>a, Zenon DEF TypeOK, syncChange
<1>13. ASSUME NEW b \in Brokers, UpdateRecords(b) PROVE TypeOK'
  <2>m. missed' \subseteq Ways
    BY <1>13, Zenon DEF UpdateRecords, TypeOK, Ways, Carry, Goto
  <2>s. sources' \in Sources
    <3>1. arg[b] \in Carried
      BY <1>s, <1>t, Zenon
    <3>2. arg[b].db \in Data
      BY <3>1, Kinds, Zenon
    <3>3. sources.seen \in Data
      BY <1>s, Zenon DEF Sources
    <3>4. PICK d \in Data, e \in Data : sources' = [sources EXCEPT !.dbConfigs = d, !.seen = e]
      BY <1>13, <3>2, <3>3, Zenon DEF UpdateRecords
    <3> QED BY <3>4, <1>s, Zenon DEF Sources
  <2>p. pc' \in [Threads -> Stages]
    BY <1>s, <1>t, <1>13, Zenon DEF UpdateRecords, Goto, Carry, Stages
  <2> QED BY <1>13, <2>m, <2>s, <2>p, Zenon DEF TypeOK, UpdateRecords
<1>14. CASE watcherSignal
  <2>s. sources' \in Sources
    BY <1>s, <1>14, Fields, Kinds, ZenonT(60) DEF watcherSignal, Staged, Sources
  <2>p. pc' \in [Threads -> Stages]
    BY <1>s, <1>t, <1>14, Zenon DEF watcherSignal, Goto, Carry, Stages
  <2>a. arg' \in [Threads -> Carried]
    BY <1>s, <1>t, <1>14, Fields, Kinds, Zenon DEF watcherSignal, Goto, Carry, Staged
  <2> QED BY <1>14, <2>s, <2>p, <2>a, Zenon DEF TypeOK, watcherSignal
<1>15. ASSUME NEW t \in Threads, rebuild(t) PROVE TypeOK'
  <2>m. missed' \subseteq Ways
    BY <1>15, Zenon DEF rebuild, TypeOK, Ways, Carry, Goto
  <2>1. sources.underlying \in Loaded
    BY <1>15, Zenon DEF rebuild, Staged
  <2> DEFINE src == runUpdater(sources)
  <2> DEFINE d == Merge(src.underlying, src.dbConfigs)
  <2>2. src \in Sources /\ d \in Loaded
    <3>1. src \in Sources /\ src.underlying = sources.underlying
      BY <1>s, <2>1, UpdaterOK, Zenon DEF Field
    <3>2. src.dbConfigs \in Data
      BY <3>1, Fields, Zenon
    <3> QED BY <3>1, <3>2, <2>1, Kinds, Zenon
  <2>3. /\ sources' \in {src, [src EXCEPT !.computed = d]}
        /\ arg' \in {arg, [arg EXCEPT ![t] = d]}
    BY <1>15, Zenon DEF rebuild, Carry
  <2> HIDE DEF src, d
  <2>s. sources' \in Sources
    <3>1. d \in Config
      BY <2>2, Kinds, Zenon
    <3>2. [src EXCEPT !.computed = d] \in Sources
      BY <2>2, <3>1, Fields, Zenon
    <3> QED BY <2>2, <2>3, <3>2, Zenon
  <2>p. pc' \in [Threads -> Stages]
    BY <1>s, <1>t, <1>15, Zenon DEF rebuild, Goto, Carry, Stages
  <2>a. arg' \in [Threads -> Carried]
    <3>1. d \in Carried
      BY <2>2, Kinds, Zenon
    <3> QED BY <3>1, <2>3, <1>s, Zenon
  <2> QED BY <1>15, <2>m, <2>s, <2>p, <2>a, Zenon DEF TypeOK, rebuild
<1>16. ASSUME NEW t \in Threads, check(t) PROVE TypeOK'
  <2>m. missed' \subseteq Ways
    BY <1>16, Zenon DEF check, TypeOK, Ways, Carry, Goto
  <2>s. sources' \in Sources
    BY <1>s, <1>16, Fields, Kinds, Zenon DEF check, Staged, Sources
  <2>p. pc' \in [Threads -> Stages]
    BY <1>s, <1>t, <1>16, Zenon DEF check, Goto, Carry, Stages
  <2> QED BY <1>16, <2>m, <2>s, <2>p, Zenon DEF TypeOK, check
<1>17. ASSUME NEW t \in Threads, update(t) PROVE TypeOK'
  <2>m. missed' \subseteq Ways
    BY <1>17, Zenon DEF update, TypeOK, Ways, Carry, Goto
  <2>b. budget' \in [edits : Nat, events : Nat]
    BY <1>s, <1>n, <1>17, Faults, Zenon DEF update
  <2>s. sources' \in Sources
    <3>1. arg[t] \in Config
      BY <1>17, <1>g, Zenon DEF update
    <3> QED BY <1>17, <3>1, <1>f, Zenon DEF update
  <2>p. pc' \in [Threads -> Stages]
    BY <1>s, <1>t, <1>17, Zenon DEF update, Goto, Carry, Stages
  <2> QED BY <1>17, <2>m, <2>b, <2>s, <2>p, Zenon DEF TypeOK, update
<1>18. ASSUME NEW t \in Threads, deliver(t) PROVE TypeOK'
  <2>m. missed' \subseteq Ways
    BY <1>18, Zenon DEF deliver, TypeOK, Ways, Carry, Goto
  <2>b. budget' \in [edits : Nat, events : Nat]
    BY <1>s, <1>n, <1>18, Faults, Zenon DEF deliver
  <2>p. pc' \in [Threads -> Stages]
    BY <1>s, <1>t, <1>18, Zenon DEF deliver, Goto, Carry, Stages
  <2> QED BY <1>18, <2>m, <2>b, <2>p, Zenon DEF TypeOK, deliver
<1>19. CASE finishRenewal
  <2>b. budget' \in [edits : Nat, events : Nat]
    BY <1>s, <1>n, <1>19, Faults, Zenon DEF finishRenewal
  <2>s. sources' \in Sources
    BY <1>s, <1>19, <1>f, Zenon DEF finishRenewal
  <2>p. pc' \in [Threads -> Stages]
    BY <1>s, <1>t, <1>19, ZenonT(60) DEF finishRenewal, Goto, Carry, Stages
  <2> QED BY <1>19, <2>b, <2>s, <2>p, Zenon DEF TypeOK, finishRenewal
<1>20. CASE UNCHANGED vars
  BY <1>20, Zenon DEF vars, TypeOK
<1> QED BY <1>1, <1>2, <1>3, <1>4, <1>5, <1>6, <1>7, <1>8, <1>9, <1>10, <1>11, <1>12, <1>13, <1>14, <1>15, <1>16, <1>17, <1>18, <1>19, <1>20
 , Zenon DEF Next, Run, FileStep, SyncStep, SourceStep

\* Every step keeps what each stage relies on.
LEMMA StagedStep ==
    ASSUME TypeOK, TypeOK', Staged, [Next]_vars
    PROVE  Staged'
<1>s. /\ DOMAIN sources = Field /\ sources.startup \in Loaded
      /\ sources.computed \in Config /\ sources.watched \in Config
      /\ pc \in [Threads -> Stages] /\ arg \in [Threads -> Carried]
  BY Fields, Zenon DEF TypeOK
<1>t. /\ {"main", "file", "watch", "renew"} \subseteq Threads /\ Brokers \subseteq Threads
      /\ Brokers \cap {"main", "file", "watch", "renew", "none"} = {}
  BY ContentAssumption, Zenon DEF Threads
<1>1. ASSUME NEW id \in Ids, EditFile(id) PROVE Staged'
  BY <1>s, <1>t, <1>1, Kinds, Zenon DEF EditFile, Staged, Unbuilt, Field
<1>2. ASSUME NEW b \in Brokers, NEW data \in Data, PutConfig(b, data) PROVE Staged'
  BY <1>s, <1>t, <1>2, Kinds, Zenon DEF PutConfig, Staged, Unbuilt, Field
<1>3. CASE TouchFile
  BY <1>s, <1>t, <1>3, Kinds, Zenon DEF TouchFile, Staged, Unbuilt, Field
<1>4. CASE renewConfigCerts
  BY <1>s, <1>t, <1>4, Kinds, ZenonT(60) DEF renewConfigCerts, Goto, Staged, Unbuilt, Field
<1>5. CASE NewConfigSource
  <2>1. CASE pc["main"] = "newConfigSource"
    BY <1>s, <1>t, <1>5, <2>1, Kinds DEF NewConfigSource, Goto, Staged, Unbuilt, Field
  <2>2. CASE pc["main"] = "setUnderlying"
    <3>1. /\ sources' = [sources EXCEPT !.underlying = sources.startup]
          /\ pc' = [pc EXCEPT !["main"] = "rebuild"] /\ UNCHANGED <<arg, listening>>
      BY <1>5, <2>2, Zenon DEF NewConfigSource, Goto
    <3> QED BY <1>s, <1>t, <2>2, <3>1, ZenonT(60) DEF Staged, Unbuilt, Field
  <2> QED BY <1>5, <2>1, <2>2, Zenon DEF NewConfigSource
<1>6. CASE NewFileWatcherSource
  BY <1>s, <1>t, <1>6, Kinds, Zenon DEF NewFileWatcherSource, Carry, Goto, Staged, Unbuilt, Field
<1>7. CASE newManager
  BY <1>s, <1>t, <1>7, Kinds, ZenonT(60) DEF newManager, Goto, Staged, Unbuilt, Field
<1>8. CASE setupServices
  BY <1>s, <1>t, <1>8, Kinds, ZenonT(60) DEF setupServices, Carry, Goto, Staged, Unbuilt, Field
<1>9. CASE onConfigChange
  <2>1. /\ file.content \in Ids /\ Load(file.content) \in Loaded /\ sources.startup \in Loaded
    BY <1>s, LoadOK, Zenon DEF TypeOK
  <2>2. PICK c \in Loaded :
             \/ UNCHANGED <<pc, arg>>
             \/ arg' = [arg EXCEPT !["file"] = c] /\ pc' = [pc EXCEPT !["file"] = "loaded"]
    BY <1>9, <2>1, Zenon DEF onConfigChange, Carry, Goto
  <2>3. UNCHANGED <<sources, listening>> /\ pc["file"] = "idle"
    BY <1>9, Zenon DEF onConfigChange
  <2> QED BY <1>s, <1>t, <2>2, <2>3 DEF Staged, Unbuilt
<1>10. CASE setUnderlying
  BY <1>s, <1>t, <1>10, Kinds, ZenonT(60) DEF setUnderlying, Goto, Staged, Unbuilt, Field
<1>11. ASSUME NEW b \in Brokers, ClearRecords(b) PROVE Staged'
  BY <1>s, <1>t, <1>11, Kinds, SMTT(60) DEF ClearRecords, Carry, Goto, Staged, Unbuilt, Field
<1>12. ASSUME NEW b \in Brokers, syncChange(b) PROVE Staged'
  BY <1>s, <1>t, <1>12, Kinds, ZenonT(60) DEF syncChange, Carry, Goto, Staged, Unbuilt, Field
<1>13. ASSUME NEW b \in Brokers, UpdateRecords(b) PROVE Staged'
  BY <1>s, <1>t, <1>13, Kinds, ZenonT(60) DEF UpdateRecords, Goto, Staged, Unbuilt, Field
<1>14. CASE watcherSignal
  BY <1>s, <1>t, <1>14, Kinds, ZenonT(60) DEF watcherSignal, Carry, Goto, Staged, Unbuilt, Field
<1>15. ASSUME NEW t \in Threads, rebuild(t) PROVE Staged'
  <2>1. sources.underlying \in Loaded
    BY <1>15, Zenon DEF rebuild, Staged
  <2> DEFINE src == runUpdater(sources)
  <2> DEFINE d == Merge(src.underlying, src.dbConfigs)
  <2>2. /\ src \in Sources
        /\ \A f \in Field \ {"hash", "syncer", "init"} : src[f] = sources[f]
    BY <2>1, UpdaterOK, Zenon DEF TypeOK
  <2>3. DOMAIN src = Field /\ src.dbConfigs \in Data
    BY <2>2, Fields, Zenon
  <2>4. d \in Loaded
    BY <2>1, <2>2, <2>3, Kinds, Zenon DEF Field
  <2>5. pc[t] = "rebuild" /\ UNCHANGED listening
    BY <1>15, Zenon DEF rebuild
  <2>6. CASE src.dbConfigs = "invalid"
    <3>1. /\ sources' = src /\ UNCHANGED arg
          /\ pc' = [pc EXCEPT ![t] = IF t = "main" THEN "newFileWatcher" ELSE "idle"]
      BY <1>15, <2>6, Zenon DEF rebuild, Goto
    <3> HIDE DEF src
    <3>2. sources.computed \in Loaded
      BY <2>6, <2>2, Zenon DEF Staged, Unbuilt, Field
    <3>3. src.computed = sources.computed /\ src.underlying = sources.underlying
          /\ src.watched = sources.watched /\ src.manager = sources.manager
      BY <2>2, Zenon DEF Field
    <3> QED BY <1>s, <1>t, <2>5, <3>1, <3>2, <3>3, Zenon DEF Staged
  <2>7. CASE src.dbConfigs # "invalid"
    <3>1. /\ sources' = [src EXCEPT !.computed = d]
          /\ \/ /\ arg' = [arg EXCEPT ![t] = d] /\ pc' = [pc EXCEPT ![t] = "check"]
                /\ t # "main"
             \/ /\ UNCHANGED arg
                /\ pc' = [pc EXCEPT ![t] = IF t = "main" THEN "newFileWatcher" ELSE "idle"]
      BY <1>15, <2>7, Zenon DEF rebuild, Goto, Carry
    <3> HIDE DEF src, d
    <3>3. sources'.computed = d /\ sources'.underlying = sources.underlying
          /\ sources'.watched = sources.watched /\ sources'.manager = sources.manager
      BY <3>1, <2>2, <2>3, Zenon DEF Field
    <3> QED BY <1>s, <1>t, <2>1, <2>4, <2>5, <3>1, <3>3, ZenonT(60) DEF Staged
  <2> QED BY <2>6, <2>7, Zenon
<1>16. ASSUME NEW t \in Threads, check(t) PROVE Staged'
  <2>1. /\ sources' = [sources EXCEPT !.watched = arg[t]] /\ pc[t] = "check"
        /\ UNCHANGED <<arg, listening>>
    BY <1>16, Zenon DEF check
  <2>2. PICK stage \in {"update", "newManager", "idle"} :
             /\ pc' = [pc EXCEPT ![t] = stage]
             /\ stage = "newManager" => t = "main"
    BY <1>16, Zenon DEF check, Goto
  <2>3. arg[t] \in Loaded /\ sources.computed \in Loaded
    BY <1>s, <1>t, <2>1, Kinds, Zenon DEF Staged, Unbuilt, Threads
  <2>4. sources'.watched = arg[t] /\ sources'.computed = sources.computed
        /\ sources'.underlying = sources.underlying /\ sources'.manager = sources.manager
    BY <1>s, <2>1, Zenon DEF Field
  <2> QED BY <1>s, <1>t, <2>1, <2>2, <2>3, <2>4, Zenon DEF Staged
<1>17. ASSUME NEW t \in Threads, update(t) PROVE Staged'
  BY <1>s, <1>t, <1>17, Kinds DEF update, Goto, Staged, Unbuilt, Field
<1>18. ASSUME NEW t \in Threads, deliver(t) PROVE Staged'
  BY <1>s, <1>t, <1>18, Kinds DEF deliver, Goto, Staged, Unbuilt, Field
<1>19. CASE finishRenewal
  BY <1>s, <1>t, <1>19, Kinds, ZenonT(60) DEF finishRenewal, Goto, Staged, Unbuilt, Field
<1>20. CASE UNCHANGED vars
  BY <1>20, Zenon DEF vars, Staged, Unbuilt
<1> QED BY <1>1, <1>2, <1>3, <1>4, <1>5, <1>6, <1>7, <1>8, <1>9, <1>10, <1>11, <1>12, <1>13, <1>14, <1>15, <1>16, <1>17, <1>18, <1>19, <1>20
 , Zenon DEF Next, Run, FileStep, SyncStep, SourceStep

\* Only deliver, finishRenewal and setupServices apply a configuration.
LEMMA ServicesStep ==
    ASSUME TypeOK, Staged, ServicesInv(svc), Open(svc), [Next]_vars
    PROVE  ServicesInv(svc') /\ Open(svc')
<1>1. ASSUME NEW c PROVE ServicesInv(LogManager(svc, c)) /\ Open(LogManager(svc, c))
  BY Zenon DEF LogManager, ServicesInv, Open
<1>2. ASSUME NEW k PROVE ServicesInv([svc EXCEPT !.localKey = k])
  BY Zenon DEF ServicesInv
<1>3. ASSUME UNCHANGED svc \/ \E c : svc' = LogManager(svc, c)
      PROVE  ServicesInv(svc') /\ Open(svc')
  BY <1>1, <1>3, Zenon
<1>4. ASSUME NEW t \in Threads, deliver(t)
      PROVE  ServicesInv(svc') /\ Open(svc')
  <2>1. sources.manager \in Loaded
    BY <1>4, Zenon DEF deliver, Staged
  <2> QED BY <1>4, <2>1, ApplyOpens, Zenon DEF deliver
<1>5. CASE finishRenewal
  <2>1. sources.watched \in Loaded
    BY <1>5, Zenon DEF finishRenewal, Staged
  <2> QED BY <1>3, <1>5, <2>1, ApplyOpens, Zenon DEF finishRenewal
<1>6. CASE setupServices
  <2>1. CASE UNCHANGED svc
    BY <1>3, <2>1, Zenon
  <2>2. CASE /\ pc["main"] = "apply"
             /\ svc' = [Apply(svc, arg["main"], AllOk) EXCEPT !.localKey = arg["main"].key]
    <3> DEFINE s == Apply(svc, arg["main"], AllOk)
    <3>1. ServicesInv(s) /\ Open(s)
      BY <2>2, ApplyOpens, Zenon DEF Staged
    <3> HIDE DEF s
    <3>2. svc' = [s EXCEPT !.localKey = arg["main"].key]
      BY <2>2, Zenon DEF s
    <3> QED BY <3>1, <3>2, ZenonT(60) DEF ServicesInv, Open
  <2> QED BY <1>6, <2>1, <2>2, Zenon DEF setupServices
<1>7. ASSUME NEW t \in Threads, SourceStep(t)
      PROVE  ServicesInv(svc') /\ Open(svc')
  BY <1>3, <1>4, <1>7, Zenon DEF SourceStep, rebuild, check, update
<1>8. CASE Run
  BY <1>3, <1>6, <1>8, Zenon DEF Run, NewConfigSource, NewFileWatcherSource, newManager
<1>9. CASE \/ FileStep \/ watcherSignal \/ TouchFile \/ renewConfigCerts \/ UNCHANGED vars
           \/ \E b \in Brokers : SyncStep(b)
           \/ \E id \in Ids : EditFile(id)
           \/ \E b \in Brokers, data \in Data : PutConfig(b, data)
  <2>1. UNCHANGED svc
    BY <1>9, Zenon DEF FileStep, onConfigChange, setUnderlying, watcherSignal, TouchFile, renewConfigCerts,
       SyncStep, ClearRecords, syncChange, UpdateRecords, EditFile, PutConfig, vars
  <2> QED BY <2>1, <1>3, Zenon
<1> QED BY <1>5, <1>7, <1>8, <1>9, Zenon DEF Next

\* The invariant holds when Run starts.
LEMMA Start == Init => PipelineInv
<1> SUFFICES ASSUME Init PROVE PipelineInv
  BY Zenon
<1>a. /\ First \in Ids /\ Content[First].key \in Nat /\ "none" \in Data /\ "invalid" \in Data
  BY ContentAssumption, Zenon
<1>1. sources.startup \in Loaded
  <2>1. sources.startup = [id |-> First, db |-> "none",
                           key |-> IF Content[First].key = 0 THEN 100 ELSE Content[First].key]
    BY Zenon DEF Init
  <2> QED BY <1>a, <2>1 DEF Loaded
<1>2. sources \in Sources
  BY <1>1, Kinds, <1>a, Zenon DEF Init, Sources
<1>3. pc \in [Threads -> Stages] /\ arg \in [Threads -> Carried]
  BY Kinds, Zenon DEF Init, Stages
<1>4. TypeOK
  BY <1>a, <1>2, <1>3, Zenon DEF Init, TypeOK, Ways
<1>5. Staged
  BY <1>a, Kinds, ContentAssumption, Zenon DEF Init, Staged, Unbuilt, Threads
<1>6. ServicesInv(svc) /\ Open(svc)
  BY Zenon DEF Init, ServicesInv, Open
<1> QED BY <1>4, <1>5, <1>6, Zenon DEF PipelineInv

\* The invariant is inductive.
LEMMA Kept == PipelineInv /\ [Next]_vars => PipelineInv'
<1> SUFFICES ASSUME PipelineInv, [Next]_vars PROVE PipelineInv'
  BY Zenon
<1>1. TypeOK'
  BY TypeStep, Zenon DEF PipelineInv
<1>2. Staged'
  BY <1>1, StagedStep, Zenon DEF PipelineInv
<1>3. ServicesInv(svc') /\ Open(svc')
  BY ServicesStep, Zenon DEF PipelineInv
<1> QED BY <1>1, <1>2, <1>3, Zenon DEF PipelineInv, ServicesInv, Open

\* The variables hold what the code keeps in them; in particular no source
\* passes on a configuration without a shared key (newOptionsFromConfig).
THEOREM TypeCorrect == Spec => []TypeOK
<1>1. PipelineInv => TypeOK
  BY Zenon DEF PipelineInv
<1> QED BY <1>1, Start, Kept, PTL DEF Spec

\* Whatever sequence of files, records, renewals and failures the goroutines
\* apply, in whatever order, a service whose state is built from the
\* configuration applied last holds the open shared connection and the
\* databroker's key (grpc.GetGRPCClientConn, the order of listeners in Run).
THEOREM OneConnection == Spec => []ClientsOpen
<1>1. PipelineInv => ClientsOpen
  BY Zenon DEF PipelineInv, Open, ClientsOpen
<1> QED BY <1>1, Start, Kept, PTL DEF Spec

-----------------------------------------------------------------------------
\* The period that Report answers with.
Half == TTL \div R!callAfterTTLFactor

\* A lease outlasts the timer of the next report by the rest of its time.
LeaseInv ==
    /\ lease \in [Endpoints -> Int]
    /\ reporter \in [Endpoints -> [running : BOOLEAN, wait : Int, fails : Nat, reported : BOOLEAN]]
    /\ \A e \in Endpoints :
          reporter[e].running /\ reporter[e].reported /\ reporter[e].fails = 0 =>
            reporter[e].wait >= -Slack /\ lease[e] >= reporter[e].wait + (TTL - Half)

\* The reporter's period is a number of ticks.
LEMMA HalfOK == Half \in Nat /\ R!Gone = -10
BY TimesAssumption DEF Half, R!callAfterTTLFactor, R!Gone

\* The reporters LeaseKept is about.
Live(e) == reporter[e].running /\ reporter[e].reported /\ reporter[e].fails = 0

\* A lease that the invariant covers has not run out.
LEMMA NotExpired ==
    ASSUME LeaseInv, Slack <= TTL - Half, NEW e \in Endpoints, Live(e)
    PROVE  lease[e] >= 0 /\ lease[e] \in Int /\ reporter[e].wait \in Int
BY HalfOK, TimesAssumption DEF LeaseInv, Live

\* Every step of the registry keeps the distance of lease and timer.
LEMMA LeaseStep ==
    ASSUME LeaseInv, Slack <= TTL - Half, [R!Next]_registryVars
    PROVE  LeaseInv'
<1>t. TTL \in Nat /\ Slack \in Nat /\ Half \in Nat /\ R!Gone = -10
  BY HalfOK, TimesAssumption, Zenon
<1>u. /\ lease \in [Endpoints -> Int]
      /\ reporter \in [Endpoints -> [running : BOOLEAN, wait : Int, fails : Nat, reported : BOOLEAN]]
  BY Zenon DEF LeaseInv
<1>1. CASE R!Tick
  BY <1>1, <1>t, <1>u, NotExpired DEF R!Tick, LeaseInv, Live
<1>2. CASE R!periodicCheck
  BY <1>2, <1>t, <1>u, NotExpired DEF R!periodicCheck, R!rmExpiredLocked, R!Expired, LeaseInv, Live
<1>3. ASSUME NEW e \in Endpoints, R!Report(e) PROVE LeaseInv'
  BY <1>3, <1>t, <1>u, NotExpired
     DEF R!Report, R!reportLocked, R!rmExpiredLocked, R!Expired, LeaseInv, Live, Half
<1>4. ASSUME NEW e \in Endpoints, R!reportFails(e) PROVE LeaseInv'
  <2>1. PICK after \in 0 .. 1 :
             reporter' = [reporter EXCEPT ![e].fails = @ + 1, ![e].wait = after]
    BY <1>4, Zenon DEF R!reportFails
  <2> DEFINE failed == [reporter[e] EXCEPT !.fails = @ + 1, !.wait = after]
  <2>2. failed \in [running : BOOLEAN, wait : Int, fails : Nat, reported : BOOLEAN] /\ failed.fails # 0
    <3> DEFINE old == reporter[e]
    <3>1. old \in [running : BOOLEAN, wait : Int, fails : Nat, reported : BOOLEAN] /\ after \in Int
      BY <1>u, <2>1
    <3>2. failed = [old EXCEPT !.fails = old.fails + 1, !.wait = after]
      BY Zenon
    <3> HIDE DEF old, failed
    <3>3. old.fails + 1 \in Nat /\ old.fails + 1 # 0
      BY <3>1
    <3>4. failed.fails # 0
      BY <3>1, <3>2, <3>3, Zenon
    <3>5. failed \in [running : BOOLEAN, wait : Int, fails : Nat, reported : BOOLEAN]
      BY <3>1, <3>2, <3>3, Zenon
    <3> QED BY <3>4, <3>5, Zenon
  <2>3. reporter' = [reporter EXCEPT ![e] = failed]
    BY <1>u, <2>1, Zenon
  <2> HIDE DEF failed
  <2>4. UNCHANGED lease
    BY <1>4, Zenon DEF R!reportFails
  <2> QED BY <1>u, <2>2, <2>3, <2>4, Zenon DEF LeaseInv
<1>5. ASSUME NEW e \in Endpoints, R!OnConfigChange(e) PROVE LeaseInv'
  BY <1>5, <1>t, <1>u DEF R!OnConfigChange, LeaseInv
<1>6. CASE UNCHANGED <<lease, reporter>>
  BY <1>6, Zenon DEF LeaseInv
<1> QED BY <1>1, <1>2, <1>3, <1>4, <1>5, <1>6, Zenon
     DEF R!Next, R!Bind, R!Send, R!Unbind, registryVars

\* An instance that is up stays in the list, for any number of instances, if
\* timers are late by no more than what callAfterTTLFactor leaves of the
\* time to live (Report, rmExpiredLocked, periodicCheck).
THEOREM LeaseStays == ASSUME Slack <= TTL - TTL \div 2 PROVE MCSpec => []LeaseKept
<1>1. Slack <= TTL - Half
  BY Zenon DEF Half, R!callAfterTTLFactor
<1>2. MCInit => LeaseInv
  BY DEF MCInit, R!Init, LeaseInv, R!Gone
<1>3. LeaseInv /\ [MCNext]_allVars => LeaseInv'
  <2>1. [MCNext]_allVars => [R!Next]_registryVars
    BY Zenon DEF MCNext, Pipeline, Registered, allVars, registryVars
  <2> QED BY <1>1, <2>1, LeaseStep, Zenon
<1>4. LeaseInv => LeaseKept
  BY <1>1, NotExpired, Zenon DEF LeaseKept, R!LeaseKept, Live
<1> QED BY <1>2, <1>3, <1>4, PTL DEF MCSpec
=============================================================================
