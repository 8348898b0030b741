------------------------------ MODULE Options ------------------------------
(* The configuration of a Pomerium process: decoding and validating the      *)
(* routes (config/policy.go, config/custom.go), validating and completing    *)
(* the options (config/options.go), and overlaying the settings and routes   *)
(* kept in the databroker.  Everything here is a function of its inputs; the *)
(* steps that publish and use a configuration are in EnvoyResources.         *)
(*                                                                           *)
(* A URL is its scheme, host name, port ("" when absent) and path.  A path   *)
(* is a sequence of pieces, so that a prefix of a path is a prefix of the    *)
(* sequence.  A host as it stands in a URL or in the Host header is a pair   *)
(* <<name, port>>.  A field that the code only tests for being well formed   *)
(* is a member of `malformed' when it is not.                                *)
EXTENDS Integers, Sequences, FiniteSets, SequencesExt

URL(scheme, host, port) == [scheme |-> scheme, host |-> host, port |-> port, path |-> <<>>]
NoURL == URL("", "", "")
Root == <<"/">>

-----------------------------------------------------------------------------
(* internal/urlutil/url.go *)
HostOf(u) == <<u.host, u.port>>
ValidateURL(u) == u.scheme # "" /\ u.host # ""
IsTCP(u) == u.scheme \in {"tcp+http", "tcp+https"}
DefaultPort(scheme) == IF scheme = "http" THEN "80" ELSE "443"
GetDomainsForURL(u) ==
  IF IsTCP(u) \/ u.port \notin {"", DefaultPort(u.scheme)} THEN <<HostOf(u)>>
  ELSE << <<u.host, "">>, <<u.host, DefaultPort(u.scheme)>> >>
StripPort(domain) == domain[1]

-----------------------------------------------------------------------------
(* config/helpers.go *)
IsAll(s) == s = "all"
IsAuthenticate(s) == s \in {"all", "authenticate"}
IsAuthorize(s) == s \in {"all", "authorize"}
IsProxy(s) == s \in {"all", "proxy"}
IsDataBroker(s) == s \in {"all", "cache", "databroker"}
IsValidService(s) == IsAuthenticate(s) \/ IsAuthorize(s) \/ IsProxy(s) \/ IsDataBroker(s)

-----------------------------------------------------------------------------
(* Destinations of a route (config/custom.go).  A destination is written as  *)
(* a JSON or YAML value, whose tokens are brackets and texts; a text is a    *)
(* URL and the number after its comma, NoComma without one.                  *)
NoComma == -1
NotANumber == -2
Bracket(b) == [bracket |-> b, url |-> NoURL, weight |-> NoComma]
Text(u, w) == [bracket |-> "", url |-> u, weight |-> w]

\* the texts of a value: keys of objects are dropped.  The state under a
\* container is left as it was when the container closes.
StringSlice(tokens) ==
  LET Step(s, t) ==
        CASE t.bracket = "[" -> [s EXCEPT !.stack = Append(@, "arrayValue")]
          [] t.bracket = "{" -> [s EXCEPT !.stack = Append(@, "objectKey")]
          [] t.bracket \in {"]", "}"} -> [s EXCEPT !.stack = Front(@)]
          [] OTHER ->
               LET top == Last(s.stack)
                   next == CASE top = "objectKey" -> "objectValue"
                             [] top = "objectValue" -> "objectKey"
                             [] OTHER -> top
               IN [stack |-> Append(Front(s.stack), next),
                   vals |-> IF top = "objectKey" THEN s.vals ELSE Append(s.vals, t)]
  IN FoldLeft(Step, [stack |-> <<"arrayValue">>, vals |-> <<>>], tokens).vals

weightedStringOK(t) == t.weight = NoComma \/ t.weight > 0
ParseWeightedURL(t) == [url |-> t.url, weight |-> IF t.weight = NoComma THEN 0 ELSE t.weight]
ParseWeightedURLOK(t) == weightedStringOK(t) /\ t.url.host # ""
WeightedURLValidate(d) == d.url.host # "" /\ d.url.scheme # ""
\* either all or none have weights assigned
WeightedURLsValidate(to) ==
  /\ to # <<>>
  /\ \A i \in DOMAIN to : WeightedURLValidate(to[i])
  /\ \/ \A i \in DOMAIN to : to[i].weight = 0
     \/ \A i \in DOMAIN to : to[i].weight # 0
ParseWeightedUrls(texts) == [i \in DOMAIN texts |-> ParseWeightedURL(texts[i])]
ParseWeightedUrlsOK(texts) ==
  /\ \A i \in DOMAIN texts : ParseWeightedURLOK(texts[i])
  /\ WeightedURLsValidate(ParseWeightedUrls(texts))
Flatten(to) == [i \in DOMAIN to |-> to[i].url]

-----------------------------------------------------------------------------
(* Routes (config/policy.go).  `matchers' of a policy are its prefix and     *)
(* path (<<>> when unset) and its regular expression, which is a literal     *)
(* text, anchored or not at either end.  `allow' is the set of whitelists    *)
(* the policy has, `redirect' the set of redirect fields it sets.            *)
NoRegex == [body |-> <<>>, start |-> FALSE, end |-> FALSE]
\* a policy with its fields at their zero values
ZeroPolicy ==
  [from |-> NoURL, to |-> <<>>, redirect |-> {}, prefix |-> <<>>, path |-> <<>>, regex |-> NoRegex,
   public |-> FALSE, anyUser |-> FALSE, allow |-> {}, malformed |-> {}, name |-> "", serverName |-> "", ca |-> "",
   skipVerify |-> FALSE, clientCert |-> FALSE, downstreamCA |-> FALSE, timeout |-> 0, websockets |-> FALSE,
   rewrite |-> "", hostRewrite |-> "", remove |-> {}, passIdentity |-> FALSE]

PolicyValidate(p) ==
  /\ ValidateURL(p.from)
  /\ p.from.scheme \in {"http", "https"} => p.from.path \in {<<>>, Root}
  /\ p.to # <<>> \/ p.redirect # {}
  /\ \A i \in DOMAIN p.to : WeightedURLValidate(p.to[i])
  /\ p.public => ~p.anyUser /\ p.allow = {}
  /\ p.anyUser => p.allow = {}
  /\ p.malformed = {}

\* a unique identifier for a route; 0 stands for the identifier of a route
\* whose destinations do not flatten, which callers that ignore the error use
RouteIDOK(p) == IF p.to # <<>> THEN WeightedURLsValidate(p.to) ELSE p.redirect # {}
RouteID(p) ==
  IF ~RouteIDOK(p) THEN <<0>>
  ELSE <<p.from, p.prefix, p.path, p.regex, Flatten(p.to), IF p.to = <<>> THEN p.redirect ELSE {}>>

\* the texts in which a regular expression finds a match
Occurs(body, text) ==
  \E i \in 0..(Len(text) - Len(body)) : SubSeq(text, i + 1, i + Len(body)) = body
Finds(regex, text) ==
  CASE regex.start /\ regex.end -> text = regex.body
    [] regex.start -> IsPrefix(regex.body, text)
    [] regex.end -> IsSuffix(regex.body, text)
    [] OTHER -> Occurs(regex.body, text)

\* whether the policy matches a request URL; the regular expression is
\* searched in the whole URL, which starts with its scheme and host
Matches(p, u) ==
  /\ HostOf(p.from) = HostOf(u)
  /\ IsPrefix(p.prefix, u.path)
  /\ p.path # <<>> => u.path = p.path
  /\ p.regex # NoRegex => Finds(p.regex, <<u.scheme, u.host, u.port>> \o u.path)

\* a policy of a configuration file: destinations are decoded from tokens and
\* the whole policy is also read as an envoy cluster, for its name
parsePolicy(raw) == [raw EXCEPT !.to = ParseWeightedUrls(StringSlice(@))]
parsePolicyOK(raw) == raw.to = <<>> \/ ParseWeightedUrlsOK(StringSlice(raw.to))

\* a route kept in the databroker: destinations only without a redirect, and
\* the fields that the message does not have take their zero values
NewPolicyFromProto(pb) ==
  [pb EXCEPT !.to = IF pb.redirect # {} THEN <<>> ELSE ParseWeightedUrls(@),
             !.hostRewrite = IF @ = "preserve" THEN @ ELSE ""]
NewPolicyFromProtoOK(pb) ==
  /\ pb.redirect # {} \/ ParseWeightedUrlsOK(pb.to)
  /\ PolicyValidate(NewPolicyFromProto(pb))

-----------------------------------------------------------------------------
(* Options (config/options.go) *)
DefaultAddr == ":443"
DefaultAlternativeAddr == ":5443"
LocalURL == URL("http", "127.0.0.1", "5443")

defaultOptions ==
  [services |-> "all", sharedKey |-> "", storage |-> "memory", dsn |-> FALSE, addr |-> DefaultAddr,
   grpcAddr |-> DefaultAddr, insecure |-> FALSE, grpcInsecure |-> FALSE, authenticateURL |-> NoURL,
   authorizeURL |-> NoURL, authorizeURLs |-> <<>>, databrokerURL |-> NoURL, databrokerURLs |-> <<>>,
   forwardAuthURL |-> NoURL, policies |-> <<>>, additional |-> <<>>, certs |-> <<>>, autoCerts |-> <<>>,
   autocert |-> FALSE, malformed |-> {}, serviceAccount |-> "", provider |-> "", serverlessAccount |-> "",
   clientCA |-> FALSE, metricsAddr |-> "", metricsCert |-> FALSE, metricsClientCA |-> FALSE,
   overrideName |-> "", ca |-> "", upstreamTimeout |-> 30, claimHeaders |-> {}, tracing |-> "",
   datadog |-> <<>>]

GetAllPolicies(o) == o.policies \o o.additional
OrLocal(urls) == IF urls = <<>> THEN <<LocalURL>> ELSE urls
getURLs(u, us) == OrLocal(SelectSeq(<<u>> \o us, LAMBDA x : x # NoURL))
GetAuthenticateURL(o) ==
  IF o.authenticateURL = NoURL THEN URL("https", "127.0.0.1", "") ELSE o.authenticateURL
getURLsOK(us) == \A i \in DOMAIN us : us[i] # NoURL => ValidateURL(us[i])
GetAuthorizeURLs(o) == getURLs(o.authorizeURL, o.authorizeURLs)
GetDataBrokerURLs(o) == getURLs(o.databrokerURL, o.databrokerURLs)
GetForwardAuthURL(o) == o.forwardAuthURL
AllCertificates(o) == o.certs \o o.autoCerts
GetClientCA(o) == o.clientCA
GetMetricsCertificate(o) == o.metricsCert

\* what Validate completes when every service runs in one process
HydrateAll(o) ==
  IF ~IsAll(o.services) THEN o
  ELSE [o EXCEPT
         !.sharedKey = IF @ = "" /\ o.storage = "memory" THEN "generated" ELSE @,
         !.grpcInsecure = TRUE,
         !.grpcAddr = IF @ = DefaultAddr THEN DefaultAlternativeAddr ELSE @,
         !.authorizeURL = IF @ = NoURL /\ o.authorizeURLs = <<>> THEN LocalURL ELSE @,
         !.databrokerURL = IF @ = NoURL /\ o.databrokerURLs = <<>> THEN LocalURL ELSE @]
\* the HTTP server gives way to the gRPC server
HydrateAddr(o) ==
  IF (IsAuthorize(o.services) \/ IsDataBroker(o.services)) /\ o.addr = o.grpcAddr
  THEN [o EXCEPT !.addr = DefaultAlternativeAddr] ELSE o
HydrateServerless(o) ==
  IF o.provider = "google" /\ o.serverlessAccount = ""
  THEN [o EXCEPT !.serverlessAccount = o.serviceAccount] ELSE o

StorageOK(o) == o.storage = "memory" \/ (o.storage = "redis" /\ o.dsn)
SharedKeyOK(o) == o.sharedKey # "" /\ "shared_key whitespace" \notin o.malformed
URLsOK(o) ==
  /\ \A u \in {o.authenticateURL, o.authorizeURL, o.databrokerURL, o.forwardAuthURL} :
       u # NoURL => ValidateURL(u)
  /\ "signout_redirect_url" \notin o.malformed
PoliciesOK(o) == \A i \in DOMAIN GetAllPolicies(o) : PolicyValidate(GetAllPolicies(o)[i])
CertificatesOK(o) ==
  o.malformed \cap {"certificate", "certificates", "databroker_storage_cert", "databroker_storage_ca",
                    "client_ca", "client_ca_file"} = {}
GroupsOK(o) ==
  o.serviceAccount # "" \/ o.provider = "azure"
    \/ \A i \in DOMAIN GetAllPolicies(o) : "groups" \notin GetAllPolicies(o)[i].allow
ServerOK(o) == o.insecure \/ o.certs # <<>> \/ o.autocert
MetricsOK(o) ==
  o.malformed \cap {"dns_lookup_family", "metrics_addr", "metrics_basic_auth", "metrics_certificate"} = {}

Hydrate(o) == HydrateServerless(HydrateAddr(HydrateAll(o)))
Validate(o) ==
  /\ IsValidService(o.services) /\ StorageOK(o)
  /\ LET h == Hydrate(o)
     IN /\ SharedKeyOK(h) /\ URLsOK(h) /\ "policy_file" \notin o.malformed
        /\ PoliciesOK(h) /\ "headers" \notin o.malformed
        /\ CertificatesOK(h) /\ GroupsOK(h) /\ ServerOK(h) /\ MetricsOK(h)

\* the settings kept in the databroker: each one that is set replaces the
\* option, except that certificates are added
ApplySettings(o, settings) ==
  [f \in DOMAIN o |-> IF f \notin DOMAIN settings THEN o[f]
                      ELSE IF f = "certs" THEN o.certs \o settings.certs
                      ELSE settings[f]]

\* the shape of a policy and of options once they are decoded
IsPolicy(p) ==
  /\ DOMAIN p = DOMAIN ZeroPolicy
  /\ \A i \in DOMAIN p.to : DOMAIN p.to[i] = {"url", "weight"} /\ p.to[i].weight \in Nat
  /\ p.redirect \subseteq {"https", "scheme", "host", "port", "path", "prefix", "code", "strip"}
  /\ {p.public, p.anyUser, p.skipVerify, p.clientCert, p.downstreamCA, p.websockets, p.passIdentity} \subseteq BOOLEAN
IsOptions(o) ==
  /\ DOMAIN o = DOMAIN defaultOptions
  /\ \A i \in DOMAIN GetAllPolicies(o) : IsPolicy(GetAllPolicies(o)[i])
  /\ {o.insecure, o.grpcInsecure, o.dsn, o.autocert, o.clientCA, o.metricsCert, o.metricsClientCA} \subseteq BOOLEAN

\* options of a file: every policy is decoded before any is validated
FileOptionsOK(raw) ==
  /\ \A i \in DOMAIN raw.policies : parsePolicyOK(raw.policies[i])
  /\ Validate([raw EXCEPT !.policies = [i \in DOMAIN @ |-> parsePolicy(@[i])]])
FileOptions(raw) == Hydrate([raw EXCEPT !.policies = [i \in DOMAIN @ |-> parsePolicy(@[i])]])

\* the options with one databroker configuration over them: a route that is
\* invalid or already there is left out, invalid settings leave no options
RouteIDs(ps) == {RouteID(ps[i]) : i \in DOMAIN ps}
AddRoutes(o, routes) ==
  LET Add(s, pb) ==
        IF ~NewPolicyFromProtoOK(pb) \/ RouteID(NewPolicyFromProto(pb)) \in s.seen THEN s
        ELSE [seen |-> s.seen \cup {RouteID(NewPolicyFromProto(pb))},
              added |-> Append(s.added, NewPolicyFromProto(pb))]
  IN FoldLeft(Add, [seen |-> RouteIDs(GetAllPolicies(o)), added |-> <<>>], routes).added
SeenOK(o) == \A i \in DOMAIN GetAllPolicies(o) : RouteIDOK(GetAllPolicies(o)[i])
DatabrokerOptionsOK(o, cfg) == Validate(ApplySettings(o, cfg.settings))
DatabrokerOptions(o, cfg) ==
  [Hydrate(ApplySettings(o, cfg.settings)) EXCEPT !.additional = @ \o AddRoutes(o, cfg.routes)]
=============================================================================
