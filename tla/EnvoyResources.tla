--------------------------- MODULE EnvoyResources ---------------------------
(* The clusters and listeners the control plane builds from the options for  *)
(* envoy (internal/controlplane/xds*.go), how envoy then routes a request,   *)
(* and the route the authorize service finds for the same request.           *)
(*                                                                           *)
(* A configuration is published; the control plane and the authorize service *)
(* each take it over in a step of their own (their OnConfigChange), and a    *)
(* build that fails leaves envoy with the resources it had.  Envoy's own     *)
(* matching is external: filter chain by server name, virtual host by Host   *)
(* header, first route that matches.                                         *)
EXTENDS Options

CONSTANTS
  RawOptions,        \* contents of the configuration file at the start
  Edits,             \* contents it is given later
  DatabrokerConfigs, \* settings and routes kept in the databroker
  Requests,          \* requests of clients
  MaxChanges         \* bound: changes of the configuration

VARIABLES
  file,      \* options of the configuration file, or of the file before an invalid one
  overlay,   \* the configuration kept in the databroker
  published, \* options last published by the configuration sources
  current,   \* srv.currentConfig of the control plane
  built,     \* options of the resources envoy has
  authz,     \* options of the authorize service
  changes,   \* configurations changed so far
  answer     \* the last request, the route envoy took and the authorize service's
vars == <<file, overlay, published, current, built, authz, changes, answer>>

-----------------------------------------------------------------------------
(* Clusters (xds_clusters.go) *)
NoSocket == [sni |-> "", ca |-> "", verify |-> FALSE, cert |-> FALSE]

buildInternalTransportSocket(o, u) ==
  IF u.scheme # "https" THEN NoSocket
  ELSE [sni |-> IF o.overrideName # "" THEN o.overrideName ELSE u.host,
        ca |-> IF o.ca # "" THEN o.ca ELSE "root", verify |-> TRUE, cert |-> FALSE]
buildPolicyValidationContext(p) ==
  [ca |-> IF p.ca # "" THEN p.ca ELSE "root", verify |-> ~p.skipVerify]
buildPolicyTransportSocket(p, u) ==
  IF u.scheme # "https" THEN NoSocket
  ELSE LET vc == buildPolicyValidationContext(p)
       IN [sni |-> IF p.serverName # "" THEN p.serverName ELSE u.host,
           ca |-> vc.ca, verify |-> vc.verify, cert |-> p.clientCert]

NewEndpoint(u, ts, weight) == [url |-> u, socket |-> ts, weight |-> weight]
buildPolicyEndpoints(p) ==
  [i \in DOMAIN p.to |-> NewEndpoint(p.to[i].url, buildPolicyTransportSocket(p, p.to[i].url), p.to[i].weight)]

\* the address of an endpoint, and the socket its metadata selects
buildAddress(domain, default) == <<domain[1], IF domain[2] = "" THEN default ELSE domain[2]>>
buildLbEndpoints(es) ==
  [i \in DOMAIN es |->
    [address |-> buildAddress(IF es[i].url.host = "localhost" THEN <<"127.0.0.1", es[i].url.port>>
                                                              ELSE HostOf(es[i].url),
                              IF es[i].socket = NoSocket THEN "80" ELSE "443"),
     select |-> es[i].socket, weight |-> es[i].weight]]
buildTransportSocketMatches(es) ==
  FoldLeft(LAMBDA seen, e : IF e.socket = NoSocket \/ e.socket \in Range(seen) THEN seen
                            ELSE Append(seen, e.socket), <<>>, es)
buildUpstreamProtocolOptions(es, forceHTTP2) ==
  CASE forceHTTP2 -> "http2"
    [] es # <<>> /\ \A i \in DOMAIN es : es[i].socket # NoSocket -> "auto"
    [] OTHER -> "http1"
IPs == {"127.0.0.1"}
buildCluster(name, es, forceHTTP2) ==
  LET lbes == buildLbEndpoints(es)
      matches == buildTransportSocketMatches(es)
  IN [name |-> name, endpoints |-> lbes, matches |-> Range(matches),
      socket |-> IF matches = <<>> THEN NoSocket ELSE matches[1],
      protocol |-> buildUpstreamProtocolOptions(es, forceHTTP2),
      type |-> IF \A i \in DOMAIN lbes : lbes[i].address[1] \in IPs THEN "static" ELSE "strict_dns"]

getClusterStatsName(p) == p.name
getClusterID(p) == <<IF getClusterStatsName(p) = "" THEN "route" ELSE getClusterStatsName(p), RouteID(p)>>
buildInternalCluster(o, name, urls, forceHTTP2) ==
  buildCluster(<<name>>, [i \in DOMAIN urls |-> NewEndpoint(urls[i], buildInternalTransportSocket(o, urls[i]), 1)],
               forceHTTP2)
\* mutant: without the name routes use
buildPolicyClusterUnnamed(p) == buildCluster(<<"route", RouteID(p)>>, buildPolicyEndpoints(p), FALSE)
buildPolicyCluster(p) == buildCluster(getClusterID(p), buildPolicyEndpoints(p), FALSE)

controlGRPC == <<"pomerium-control-plane-grpc">>
controlHTTP == <<"pomerium-control-plane-http">>
authorizeCluster == <<"pomerium-authorize">>
buildClusters(o) ==
  LET local == URL("http", "127.0.0.1", "0")
      internal == <<buildInternalCluster(o, controlGRPC[1], <<local>>, TRUE),
                    buildInternalCluster(o, controlHTTP[1], <<local>>, FALSE),
                    buildInternalCluster(o, authorizeCluster[1], GetAuthorizeURLs(o), TRUE)>>
      routed == SelectSeq(GetAllPolicies(o), LAMBDA p : p.to # <<>>)
  IN IF IsProxy(o.services) THEN internal \o [i \in DOMAIN routed |-> buildPolicyCluster(routed[i])]
     ELSE internal
validateClusterNamesUnique(cs) ==
  \A i, j \in DOMAIN cs : i # j => cs[i].name # cs[j].name

-----------------------------------------------------------------------------
(* Routes (xds_routes.go).  `policy' is the index of the policy a route is   *)
(* for, 0 for a route of Pomerium itself.                                    *)
hostMatchesDomain(u, domain) ==
  /\ u # NoURL
  /\ buildAddress(HostOf(u), DefaultPort(u.scheme)) = buildAddress(domain, DefaultPort(u.scheme))
hostsMatchDomain(urls, domain) == \E i \in DOMAIN urls : hostMatchesDomain(urls[i], domain)

isProxyFrontingAuthenticate(o, domain) ==
  ~IsAuthenticate(o.services) /\ hostMatchesDomain(GetAuthenticateURL(o), domain)
hasPublicPolicyMatchingURL(o, u) ==
  \E i \in DOMAIN GetAllPolicies(o) : GetAllPolicies(o)[i].public /\ Matches(GetAllPolicies(o)[i], u)

NoPolicy == 0
ControlPlaneRoute(match, value, query, protected) ==
  [match |-> match, value |-> value, query |-> query, grpc |-> FALSE, protected |-> protected,
   cluster |-> controlHTTP, policy |-> NoPolicy]
buildControlPlanePathRoute(path, protected) == ControlPlaneRoute("path", path, {}, protected)
buildControlPlanePrefixRoute(prefix, protected) == ControlPlaneRoute("prefix", prefix, {}, protected)
buildControlPlanePathAndQueryRoute(path, query) == ControlPlaneRoute("path", path, query, FALSE)
buildControlPlaneProtectedPrefixRoute(prefix) == ControlPlaneRoute("prefix", prefix, {}, TRUE)
buildGRPCRoutes ==
  << [ControlPlaneRoute("prefix", Root, {}, FALSE) EXCEPT !.grpc = TRUE, !.cluster = controlGRPC] >>

Dot == <<"/", ".pomerium">>
Robots == <<"/", "robots.txt">>
WellKnown == <<"/", ".well-known/pomerium">>
CallbackPath == <<"/", "oauth2/callback">>
Signed == {"uri", "session_encrypted", "redirect_uri"}
PomeriumRoutes(o, domain) ==
  <<buildControlPlanePathRoute(Dot \o <<"/", "jwt">>, TRUE),
    buildControlPlanePathRoute(<<"/", "ping">>, FALSE),
    buildControlPlanePathRoute(<<"/", "healthz">>, FALSE),
    buildControlPlanePathRoute(Dot, FALSE),
    buildControlPlanePrefixRoute(Dot \o Root, FALSE),
    buildControlPlanePathRoute(WellKnown, FALSE),
    buildControlPlanePrefixRoute(WellKnown \o Root, FALSE)>>
  \o IF hasPublicPolicyMatchingURL(o, [URL("https", domain[1], domain[2]) EXCEPT !.path = Robots]) THEN <<>>
     ELSE <<buildControlPlanePathRoute(Robots, FALSE)>>
ForwardAuthRoutes ==
  <<buildControlPlanePathAndQueryRoute(<<"/", "verify">>, Signed),
    buildControlPlanePathAndQueryRoute(Root, Signed),
    buildControlPlanePathAndQueryRoute(Root, {"uri"}),
    buildControlPlaneProtectedPrefixRoute(Root)>>
buildPomeriumHTTPRoutes(o, domain) ==
  (IF isProxyFrontingAuthenticate(o, domain) THEN <<>> ELSE PomeriumRoutes(o, domain))
  \o (IF IsAuthenticate(o.services) /\ hostMatchesDomain(GetAuthenticateURL(o), domain)
      THEN <<buildControlPlanePathRoute(CallbackPath, FALSE)>> ELSE <<>>)
  \o (IF IsProxy(o.services) /\ hostMatchesDomain(GetForwardAuthURL(o), domain)
      THEN ForwardAuthRoutes ELSE <<>>)

mkRouteMatch(p) ==
  CASE IsTCP(p.from) -> [match |-> "connect", value |-> <<>>]
    [] ~IsTCP(p.from) /\ p.regex # NoRegex -> [match |-> "regex", value |-> p.regex.body]
    [] ~IsTCP(p.from) /\ p.regex = NoRegex /\ p.path # <<>> -> [match |-> "path", value |-> p.path]
    [] OTHER -> [match |-> "prefix", value |-> IF p.prefix # <<>> THEN p.prefix ELSE Root]
\* a redirect sets at most one of scheme rewrites and one of path rewrites
buildPolicyRouteRedirectAction(fields) ==
  fields \ ((IF "https" \in fields THEN {"scheme"} ELSE {}) \cup (IF "path" \in fields THEN {"prefix"} ELSE {}))
getRouteTimeout(o, p) ==
  IF p.timeout # 0 THEN p.timeout ELSE IF p.websockets \/ IsTCP(p.from) THEN 0 ELSE o.upstreamTimeout
getRouteIdleTimeout(p) == IF p.websockets \/ IsTCP(p.from) THEN {0} ELSE {}
getRewriteOptions(p) ==
  IF p.rewrite # "" THEN p.rewrite ELSE IF p.to # <<>> /\ p.to[1].url.path # <<>> THEN "destination path" ELSE ""
setHostRewriteOptions(p) == IF p.hostRewrite # "" THEN p.hostRewrite ELSE "auto"
getRequestHeadersToRemove(o, p) ==
  p.remove \cup (IF p.passIdentity THEN {} ELSE {"assertion"} \cup o.claimHeaders)
buildPolicyRouteRouteAction(o, p) ==
  [timeout |-> getRouteTimeout(o, p), idle |-> getRouteIdleTimeout(p), rewrite |-> getRewriteOptions(p),
   host |-> setHostRewriteOptions(p), connect |-> IsTCP(p.from), websocket |-> p.websockets]

buildPolicyRoute(o, i, domain) ==
  LET p == GetAllPolicies(o)[i]
      m == mkRouteMatch(p)
      route == [match |-> m.match, value |-> m.value, query |-> {}, grpc |-> FALSE,
                protected |-> ~isProxyFrontingAuthenticate(o, domain), policy |-> i,
                cluster |-> IF p.redirect # {} THEN <<>> ELSE getClusterID(p),
                redirect |-> buildPolicyRouteRedirectAction(p.redirect),
                remove |-> getRequestHeadersToRemove(o, p)]
  IN IF p.redirect # {} THEN route ELSE route @@ buildPolicyRouteRouteAction(o, p)
buildPolicyRoutes(o, domain) ==
  LET indices == SelectSeq([i \in DOMAIN GetAllPolicies(o) |-> i],
                           LAMBDA i : hostMatchesDomain(GetAllPolicies(o)[i].from, domain))
  IN [k \in DOMAIN indices |-> buildPolicyRoute(o, indices[k], domain)]

-----------------------------------------------------------------------------
(* Listeners (xds_listeners.go) *)
DomainsOf(urls) == UNION {Range(GetDomainsForURL(u)) : u \in Range(urls)}
getAllRouteableDomains(o, addr) ==
  (IF IsAuthenticate(o.services) /\ addr = o.addr THEN DomainsOf(<<GetAuthenticateURL(o)>>) ELSE {})
  \cup (IF IsAuthorize(o.services) /\ addr = o.grpcAddr THEN DomainsOf(GetAuthorizeURLs(o)) ELSE {})
  \cup (IF IsDataBroker(o.services) /\ addr = o.grpcAddr THEN DomainsOf(GetDataBrokerURLs(o)) ELSE {})
  \cup (IF IsProxy(o.services) /\ addr = o.addr
        THEN DomainsOf([i \in DOMAIN GetAllPolicies(o) |-> GetAllPolicies(o)[i].from])
             \cup (IF GetForwardAuthURL(o) = NoURL THEN {} ELSE DomainsOf(<<GetForwardAuthURL(o)>>))
        ELSE {})
getAllTLSDomains(o, addr) == {StripPort(d) : d \in getAllRouteableDomains(o, addr)}
getRouteableDomainsForTLSDomain(o, addr, tlsDomain) ==
  {d \in getAllRouteableDomains(o, addr) : StripPort(d) = tlsDomain}

CatchAll == <<"*", "">>
VirtualHost(o, domain) ==
  (IF o.addr = o.grpcAddr
      /\ \/ IsAuthorize(o.services) /\ hostsMatchDomain(GetAuthorizeURLs(o), domain)
         \/ IsDataBroker(o.services) /\ hostsMatchDomain(GetDataBrokerURLs(o), domain)
   THEN buildGRPCRoutes ELSE <<>>)
  \o buildPomeriumHTTPRoutes(o, domain)
  \o (IF IsProxy(o.services) THEN buildPolicyRoutes(o, domain) ELSE <<>>)
\* the virtual hosts of a chain; one without routes is left out
buildMainHTTPConnectionManagerFilter(o, domains) ==
  [d \in {x \in domains : VirtualHost(o, x) # <<>>} \cup {CatchAll} |->
     IF d = CatchAll THEN buildPomeriumHTTPRoutes(o, CatchAll) ELSE VirtualHost(o, d)]

\* certificates are matched by name and wildcard; without a match the first
\* is used, and without any one is generated
matchesDomain(cert, tlsDomain) == tlsDomain \in cert
GetCertificateForDomain(certs, tlsDomain) ==
  LET i == SelectInSeq(certs, LAMBDA c : matchesDomain(c, tlsDomain))
  IN IF i # 0 THEN certs[i] ELSE IF certs # <<>> THEN certs[1] ELSE {tlsDomain}
getPoliciesForDomain(o, domain) ==
  SelectSeq(GetAllPolicies(o), LAMBDA p : hostMatchesDomain(p.from, domain))
\* mutant: the authorities of policies are forgotten
getDownstreamValidationContextGlobal(o, tlsDomain) == GetClientCA(o)
getDownstreamValidationContext(o, tlsDomain) ==
  \/ GetClientCA(o)
  \/ \E p \in Range(getPoliciesForDomain(o, <<tlsDomain, "">>)) : p.downstreamCA
buildDownstreamTLSContext(o, tlsDomain) ==
  [cert |-> GetCertificateForDomain(AllCertificates(o), tlsDomain),
   client |-> getDownstreamValidationContext(o, tlsDomain)]

\* the domains of each chain: one per server name, and one for any other
buildFilterChains(o, addr) ==
  [d \in getAllTLSDomains(o, addr) \cup {"*"} |->
    IF d = "*" THEN getAllRouteableDomains(o, addr) ELSE getRouteableDomainsForTLSDomain(o, addr, d)]
NoTLS == [cert |-> {}, client |-> FALSE]
buildMainListener(o) ==
  LET Hosts(domains) == buildMainHTTPConnectionManagerFilter(o, domains)
      domainsOf == buildFilterChains(o, o.addr)
  IN [address |-> o.addr,
      chains |-> IF o.insecure THEN ("*" :> [hosts |-> Hosts(domainsOf["*"]), tls |-> NoTLS])
                 ELSE [d \in DOMAIN domainsOf |->
                        [hosts |-> Hosts(domainsOf[d]), tls |-> buildDownstreamTLSContext(o, d)]]]
buildGRPCHTTPConnectionManagerFilter == CatchAll :> buildGRPCRoutes
\* the chains of the gRPC listener are those of the domains of the HTTP address
buildGRPCListener(o) ==
  [address |-> o.grpcAddr,
   chains |-> IF o.grpcInsecure THEN ("*" :> [hosts |-> buildGRPCHTTPConnectionManagerFilter, tls |-> NoTLS])
              ELSE [d \in DOMAIN buildFilterChains(o, o.addr) |->
                     [hosts |-> buildGRPCHTTPConnectionManagerFilter, tls |-> buildDownstreamTLSContext(o, d)]]]
buildMetricsHTTPConnectionManagerFilter == CatchAll :> <<buildControlPlanePrefixRoute(Root, FALSE)>>
buildMetricsListener(o) ==
  [address |-> o.metricsAddr,
   chains |-> ("*" :> [hosts |-> buildMetricsHTTPConnectionManagerFilter,
                       tls |-> [cert |-> IF GetMetricsCertificate(o) THEN {"metrics"} ELSE {},
                                client |-> GetMetricsCertificate(o) /\ o.metricsClientCA]])]
buildListeners(o) ==
  (IF IsAuthenticate(o.services) \/ IsProxy(o.services) THEN "ingress" :> buildMainListener(o) ELSE <<>>)
  @@ (IF IsAuthorize(o.services) \/ IsDataBroker(o.services) THEN "grpc-ingress" :> buildGRPCListener(o) ELSE <<>>)
  @@ (IF o.metricsAddr # "" THEN "metrics-ingress" :> buildMetricsListener(o) ELSE <<>>)

(* Tracing (xds_tracing.go) and the bootstrap of envoy (internal/envoy).     *)
buildTracingProvider(o) ==
  [ok |-> /\ o.tracing \in {"", "datadog", "jaeger", "zipkin"}
          /\ o.tracing \in {"jaeger", "zipkin"} => "tracing" \notin o.malformed,
   collector |-> IF o.tracing = "datadog" THEN {<<"datadog-apm">>} ELSE {}]
\* the collector's address: what is missing or does not parse has its default
datadogAddress(o) == IF o.datadog = <<>> THEN <<"127.0.0.1", "8126">> ELSE buildAddress(o.datadog, "8126")
\* listeners and clusters are asked of the ads cluster, so it is static itself
buildBootstrapConfig(o) ==
  [ads |-> controlGRPC,
   static |-> (controlGRPC :> <<"127.0.0.1", "0">>)
              @@ (IF o.tracing = "datadog" THEN <<"datadog-apm">> :> datadogAddress(o) ELSE <<>>)]

\* whether the resources of a configuration can be built
buildDiscoveryResourcesOK(o) ==
  /\ getURLsOK(o.authorizeURLs)
  /\ validateClusterNamesUnique(buildClusters(o))
  /\ IsAuthenticate(o.services) \/ IsProxy(o.services) => getURLsOK(o.databrokerURLs) /\ buildTracingProvider(o).ok
  /\ ~o.grpcInsecure /\ (IsAuthorize(o.services) \/ IsDataBroker(o.services)) => getURLsOK(o.databrokerURLs)
  /\ o.metricsAddr # "" /\ GetMetricsCertificate(o) => "metrics_client_ca" \notin o.malformed

-----------------------------------------------------------------------------
(* How envoy routes a request of the main listener (external).               *)
RouteMatches(route, r) ==
  /\ route.grpc => r.grpc
  /\ route.query \subseteq r.query
  /\ CASE route.match = "connect" -> r.connect
       [] route.match = "path" -> ~r.connect /\ r.path = route.value
       [] route.match = "prefix" -> ~r.connect /\ IsPrefix(route.value, r.path)
       [] OTHER -> ~r.connect /\ r.path = route.value   \* the whole path must match
Chain(o, r) ==
  LET chains == buildMainListener(o).chains
  IN IF r.sni \in DOMAIN chains THEN chains[r.sni] ELSE chains["*"]
Routes(o, r) ==
  LET hosts == Chain(o, r).hosts IN IF r.host \in DOMAIN hosts THEN hosts[r.host] ELSE hosts[CatchAll]
NotFound == [policy |-> NoPolicy, protected |-> FALSE, cluster |-> <<>>]
EnvoyRoute(o, r) ==
  LET routes == Routes(o, r)
      i == SelectInSeq(routes, LAMBDA route : RouteMatches(route, r))
  IN IF i = 0 THEN NotFound ELSE routes[i]

-----------------------------------------------------------------------------
(* The route the authorize service finds (authorize/grpc.go, authz.rego).    *)
\* mutant: the default port stays
getCheckRequestURLWithPort(r) == [URL(r.scheme, r.host[1], r.host[2]) EXCEPT !.path = r.path]
getCheckRequestURL(r) ==
  LET host == Head(GetDomainsForURL(URL(r.scheme, r.host[1], r.host[2])))
  IN [URL(r.scheme, host[1], host[2]) EXCEPT !.path = r.path]
normalize_url_path(path) == IF path = <<>> THEN Root ELSE path
allowed_route(u, p) ==
  LET path == normalize_url_path(u.path)
  IN /\ HostOf(u) = HostOf(p.from)
     /\ IsPrefix(p.prefix, path)
     /\ p.path # <<>> => p.path = path
     /\ p.regex # NoRegex => Finds(p.regex, path)
first_allowed_route_policy_idx(o, r) ==
  SelectInSeq(GetAllPolicies(o), LAMBDA p : allowed_route(getCheckRequestURL(r), p))
getMatchingPolicy(o, r) ==
  SelectInSeq(GetAllPolicies(o), LAMBDA p : Matches(p, getCheckRequestURL(r)))

-----------------------------------------------------------------------------
NoAnswer == [set |-> FALSE]
NoOverlay == [set |-> FALSE]
configs == <<file, overlay, published, changes>>

\* the options computed from the file and the databroker's configuration; a
\* configuration that cannot be used leaves the options computed before
rebuild(f, cfg) ==
  CASE ~cfg.set /\ SeenOK(f) -> f
    [] cfg.set /\ SeenOK(f) /\ DatabrokerOptionsOK(f, cfg) -> DatabrokerOptions(f, cfg)
    [] OTHER -> published

Init ==
  /\ file \in {FileOptions(raw) : raw \in {x \in RawOptions : FileOptionsOK(x)}}
  /\ overlay = NoOverlay
  /\ published = file /\ current = file /\ authz = file
  /\ buildDiscoveryResourcesOK(file) /\ built = file
  /\ changes = 0 /\ answer = NoAnswer

Change(f, cfg) ==
  /\ changes < MaxChanges
  /\ file' = f /\ overlay' = cfg
  /\ published' = rebuild(f, cfg)
  /\ changes' = changes + 1
  /\ UNCHANGED <<current, built, authz, answer>>
\* a file that does not validate changes nothing
ChangeFile ==
  \E raw \in {x \in Edits : FileOptionsOK(x)} : Change(FileOptions(raw), overlay)
ChangeDatabroker == \E cfg \in DatabrokerConfigs : Change(file, cfg)

\* the control plane keeps the options whether or not it can build from them
ControlPlaneOnConfigChange ==
  /\ current # published
  /\ current' = published
  /\ built' = IF buildDiscoveryResourcesOK(published) THEN published ELSE built
  /\ UNCHANGED <<configs, authz, answer>>
AuthorizeOnConfigChange ==
  /\ authz # published
  /\ authz' = published
  /\ UNCHANGED <<configs, current, built, answer>>

Request ==
  \E r \in Requests :
    /\ ~answer.set
    /\ IsAuthenticate(built.services) \/ IsProxy(built.services)
    /\ answer' = [set |-> TRUE, request |-> r, route |-> EnvoyRoute(built, r),
                  evaluated |-> first_allowed_route_policy_idx(authz, r),
                  matched |-> getMatchingPolicy(authz, r)]
    /\ UNCHANGED <<configs, current, built, authz>>
Respond == answer.set /\ answer' = NoAnswer /\ UNCHANGED <<configs, current, built, authz>>

\* an answer is looked at, then forgotten, before anything else happens
Next ==
  \/ ~answer.set /\ (ChangeFile \/ ChangeDatabroker)
  \/ ~answer.set /\ (ControlPlaneOnConfigChange \/ AuthorizeOnConfigChange)
  \/ Request \/ Respond
Spec == Init /\ [][Next]_vars

-----------------------------------------------------------------------------
(* Properties *)

\* A policy in whose reading envoy and the authorize service cannot differ: at
\* most one matcher, no regular expression (envoy matches it against the whole
\* path, the policy language searches it in the path, Policy.Matches searches
\* it in the URL), no matcher on a tunnel, and no default port written out.
PlainPolicy(p) ==
  /\ p.regex = NoRegex
  /\ p.prefix = <<>> \/ p.path = <<>>
  /\ IsTCP(p.from) => p.prefix = <<>> /\ p.path = <<>> /\ p.from.port # ""
  /\ ~IsTCP(p.from) => p.from.port # DefaultPort(p.from.scheme)
\* Every policy plain, and the policies of one host with one scheme.
PlainOptions(o) ==
  LET ps == Range(GetAllPolicies(o))
  IN /\ \A p \in ps : PlainPolicy(p)
     /\ \A p, q \in ps : p.from.host = q.from.host => p.from.scheme = q.from.scheme
\* A request made with the scheme of the policies of its host.
PlainRequest(o, r) ==
  /\ r.connect <=> r.path = <<>>
  /\ \A p \in Range(GetAllPolicies(o)) :
       p.from.host = r.host[1] => IF IsTCP(p.from) THEN r.connect ELSE ~r.connect /\ r.scheme = p.from.scheme

\* Envoy chooses the policy of a request by virtual host and first matching
\* route (buildPolicyRoutes), the authorize service by searching all policies
\* for the URL (first_allowed_route_policy_idx, and getMatchingPolicy for
\* client certificates): with the same plain options they find the same
\* policy, so a request is never decided by the rules of another route.
RouteAgreement ==
  answer.set /\ answer.route.policy # NoPolicy /\ answer.route.protected
    /\ built = authz /\ PlainOptions(built) /\ PlainRequest(built, answer.request)
  => answer.evaluated = answer.route.policy /\ answer.matched = answer.route.policy

\* The options built from are still options, whatever was validated, hydrated
\* and added on the way (options.go, policy.go), and the resources of one
\* build fit together: every cluster named by a route of any listener is among
\* the clusters (envoy is told not to check this, see
\* buildRouteConfiguration), the cluster of the trace collector is among those
\* or the static ones of the bootstrap, the cluster all others are asked of is
\* static at the address of the control plane's own cluster of that name
\* (buildBootstrapConfig), and listeners have addresses of their own.  The
\* addresses collide when the HTTP address is the alternative one to which
\* Validate moves the gRPC server.
BuildFits ==
  ~answer.set =>
    LET listeners == buildListeners(built)
        clusters == Range(buildClusters(built))
        names == {c.name : c \in clusters}
        boot == buildBootstrapConfig(built)
        routesOf(l) == UNION {UNION {Range(chain.hosts[d]) : d \in DOMAIN chain.hosts} : chain \in Range(l.chains)}
    IN /\ IsOptions(built)
       /\ \A n \in DOMAIN listeners : \A route \in routesOf(listeners[n]) : route.cluster \in names \cup {<<>>}
       /\ buildTracingProvider(built).collector \subseteq names \cup DOMAIN boot.static
       /\ boot.ads \in DOMAIN boot.static
       /\ \A c \in clusters : c.name = boot.ads => c.endpoints[1].address = boot.static[boot.ads]
       /\ built.addr # DefaultAlternativeAddr =>
            \A n, m \in DOMAIN listeners : n # m => listeners[n].address # listeners[m].address

\* What a request routed to a policy meets on its way: the cluster its route
\* names is among those built with it; each endpoint of the cluster is spoken
\* to with the socket of its own destination (a plain endpoint in a cluster
\* with TLS ones would get the default socket, so the destinations of a policy
\* are either all https or none is); and a client certificate was asked for
\* on the connection when the policy has a certificate authority for them.
\* The last needs the policy on the default port, requested by its name.
Spoken(c, lbe) == IF lbe.select \in c.matches THEN lbe.select ELSE c.socket
Reached ==
  answer.set /\ answer.route.policy # NoPolicy =>
    LET p == GetAllPolicies(built)[answer.route.policy]
        clusters == {c \in Range(buildClusters(built)) : c.name = answer.route.cluster}
        uniform == \A i, j \in DOMAIN p.to : p.to[i].url.scheme = p.to[j].url.scheme
    IN /\ p.redirect = {} =>
            \E c \in clusters :
              /\ DOMAIN c.endpoints = DOMAIN p.to
              /\ uniform => \A i \in DOMAIN p.to :
                   Spoken(c, c.endpoints[i]) = buildPolicyTransportSocket(p, p.to[i].url)
       /\ p.downstreamCA /\ ~built.insecure /\ p.from.port = ""
            /\ p.from.scheme = "https" /\ answer.request.sni = p.from.host
          => Chain(built, answer.request).tls.client
=============================================================================
